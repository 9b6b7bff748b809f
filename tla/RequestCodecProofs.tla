------------------------- MODULE RequestCodecProofs -------------------------
(***************************************************************************)
(* For all streams, limits of std::size_t and cuts of a stream into reads: *)
(* what the codec takes out of it.                                         *)
(***************************************************************************)
EXTENDS RequestCodecSafety, SequenceTheorems, WellFoundedInduction, TLAPS

-----------------------------------------------------------------------------
(* What may follow the requests of a stream.                                *)

\* s and t agree as far as both go.
Agree(s, t) == \A p \in 1 .. Len(s) : p <= Len(t) => s[p] = t[p]

\* An array of count tokens, as far as the tokens.
Begun(count, tokens) ==
  <<Array(count), Cr, Lf>>
    \o FlattenSeq([i \in 1 .. Len(tokens) |-> EncodeToken(tokens[i])])

\* Less than one more request, which may be nothing.
Unfinished(tail) ==
  \E r \in Seq(Seq(Part)) : /\ Len(EncodeResp(r)) < SizeLimit
                            /\ Len(tail) < Len(EncodeResp(r)) /\ Agree(tail, EncodeResp(r))

\* At an offset stands something other than a token: another line, or a token without
\* a line end where it ends, or where its end wraps around to.
NoToken(s, at) ==
  \/ NotSuchLine(s, at, "$")
  \/ \E n \in Size :
       /\ at + 3 <= Len(s) /\ s[at + 1] = Bulk(n) /\ LineEnds(s, at + 1)
       /\ \/ at + n + 5 <= Len(s) /\ ~ LineEnds(s, at + n + 3)
          \/ /\ at + n + 3 >= SizeLimit /\ at + n + 5 - SizeLimit <= Len(s)
             /\ ~ LineEnds(s, at + n + 3 - SizeLimit)

\* No beginning of a request: another line than that of an array, or tokens and then
\* something else.
Malformed(tail) ==
  /\ Len(tail) < SizeLimit
  /\ \/ NotSuchLine(tail, 0, "*")
     \/ \E count \in Size, tokens \in Seq(Seq(Part)) :
          /\ Len(tokens) < count /\ Len(Begun(count, tokens)) <= Len(tail)
          /\ Agree(tail, Begun(count, tokens))
          /\ NoToken(tail, Len(Begun(count, tokens)))

\* The streams that the theorems are about: behind the requests comes nothing, less than
\* one more, nonsense, or a length whose end wraps around to a line end.  (One more whole
\* request would be one of the requests; left out are the lengths whose end is neither
\* below the limit nor wraps around to what has been sent.)
Foreseen ==
  IF sent.tail \in Nonsense THEN Malformed(sent.tail)
                            ELSE Unfinished(sent.tail) \/ WrapsToLineEnd

-----------------------------------------------------------------------------
(* Numbers and sequences.                                                   *)

\* What holds of zero and of the successor of each number holds of them all.
LEMMA Induct ==
  ASSUME NEW n \in Nat, NEW T, 0 \in T, \A k \in 0 .. n - 1 : k \in T => k + 1 \in T
  PROVE  \A k \in 0 .. n : k \in T
<1> DEFINE Bad == {k \in 0 .. n : k \notin T}
<1>1. SUFFICES ASSUME Bad # {} PROVE FALSE
  OBVIOUS
<1>2. Bad \subseteq Nat
  OBVIOUS
<1>3. PICK i \in Bad : \A j \in Bad : ~ (<<j, i>> \in OpToRel(<, Nat))
  <2> HIDE DEF Bad
  <2> QED
    BY <1>1, <1>2, WFMin, NatLessThanWellFounded, Zenon
<1>4. i \in 0 .. n /\ i \notin T /\ i # 0
  BY <1>3
<1>5. i - 1 \in 0 .. n - 1 /\ (i - 1) + 1 = i /\ i - 1 < i
  BY <1>4
<1>6. i - 1 \in T
  <2>1. i - 1 \notin T => i - 1 \in Bad
    BY <1>5
  <2>2. i - 1 \in Bad => <<i - 1, i>> \in OpToRel(<, Nat)
    BY <1>4, <1>5 DEF OpToRel
  <2> QED
    BY <1>3, <2>1, <2>2
<1> QED
  BY <1>4, <1>5, <1>6

\* Numbers of std::size_t wrap around once.
LEMMA Wrapped ==
  ASSUME NEW x \in Nat, NEW L \in Nat \ {0}
  PROVE  /\ x < L => x % L = x
         /\ L <= x /\ x < 2 * L => x % L = x - L
         /\ x % L \in 0 .. L - 1
OBVIOUS

\* A beginning of s, and what follows it.
LEMMA Cutting ==
  ASSUME NEW S, NEW s \in Seq(S), NEW m \in Nat, NEW n \in Nat, m <= n, n <= Len(s)
  PROVE  LET t == SubSeq(s, m + 1, n)
         IN t \in Seq(S) /\ Len(t) = n - m /\ \A p \in 1 .. n - m : t[p] = s[m + p]
<1>1. Len(s) \in Nat
  BY LenProperties
<1>2. \A i \in m + 1 .. n : s[i] \in S
  <2>1. \A i \in m + 1 .. n : i \in 1 .. Len(s)
    BY <1>1
  <2> QED
    BY <2>1, ElementOfSeq
<1>3. m + 1 \in Int /\ n - (m + 1) + 1 = n - m
  OBVIOUS
<1> DEFINE t == SubSeq(s, m + 1, n)
<1>4. /\ t \in Seq(S) /\ Len(t) = IF m + 1 <= n THEN n - m ELSE 0
      /\ \A p \in 1 .. n - m : t[p] = s[m + 1 + p - 1]
  <2>1. /\ t \in Seq(S) /\ Len(t) = IF m + 1 <= n THEN n - (m + 1) + 1 ELSE 0
        /\ \A p \in 1 .. n - (m + 1) + 1 : t[p] = s[m + 1 + p - 1]
    BY <1>2, <1>3, SubSeqProperties
  <2> QED
    BY <1>3, <2>1
<1>5. \A p \in 1 .. n - m : m + 1 + p - 1 = m + p
  OBVIOUS
<1> QED
  BY <1>4, <1>5

-----------------------------------------------------------------------------
(* FlattenSeq, one sequence at a time.                                      *)

\* f gives the first n results of FlattenSeq(ss).
Joins(f, ss, n) == f = [i \in 1 .. n |-> IF i = 1 THEN ss[i] ELSE f[i - 1] \o ss[i]]

LEMMA JoinsExist ==
  ASSUME NEW n \in Nat, NEW ss
  PROVE  \E f : Joins(f, ss, n)
<1> DEFINE T == {k \in Nat : \E f : Joins(f, ss, k)}
<1>1. 0 \in T
  <2>1. Joins([i \in 1 .. 0 |-> ss], ss, 0)
    BY DEF Joins
  <2> QED
    BY <2>1
<1>2. ASSUME NEW k \in 0 .. n - 1, k \in T
      PROVE  k + 1 \in T
  <2>1. PICK f : Joins(f, ss, k)
    BY <1>2
  <2> DEFINE g == [i \in 1 .. k + 1 |-> IF i = 1 THEN ss[i] ELSE f[i - 1] \o ss[i]]
  <2>2. \A i \in 1 .. k : f[i] = IF i = 1 THEN ss[i] ELSE f[i - 1] \o ss[i]
    BY <2>1 DEF Joins
  <2>3. \A i \in 1 .. k : i \in 1 .. k + 1
    OBVIOUS
  <2>4. \A i \in 1 .. k : g[i] = f[i]
    BY <2>2, <2>3
  <2>5. \A i \in 1 .. k + 1 : i # 1 => i - 1 \in 1 .. k
    OBVIOUS
  <2>6. \A i \in 1 .. k + 1 : (IF i = 1 THEN ss[i] ELSE f[i - 1] \o ss[i]) =
                              (IF i = 1 THEN ss[i] ELSE g[i - 1] \o ss[i])
    <3> HIDE DEF g
    <3> QED
      BY <2>4, <2>5
  <2>7. Joins(g, ss, k + 1)
    BY <2>6 DEF Joins
  <2>8. k + 1 \in Nat
    OBVIOUS
  <2> HIDE DEF g
  <2> QED
    BY <2>7, <2>8
<1> HIDE DEF T
<1>3. n \in T
  BY <1>1, <1>2, Induct
<1> QED
  BY <1>3 DEF T

\* What has been joined does not depend on what follows.
LEMMA JoinsAgree ==
  ASSUME NEW m \in Nat, NEW n \in Nat, m <= n, NEW ss, NEW tt, NEW f, NEW g,
         Joins(f, ss, n), Joins(g, tt, m), \A i \in 1 .. m : tt[i] = ss[i]
  PROVE  \A i \in 1 .. m : g[i] = f[i]
<1> DEFINE T == {k \in 0 .. m : \A i \in 1 .. k : g[i] = f[i]}
<1>1. 0 \in T
  OBVIOUS
<1>2. ASSUME NEW k \in 0 .. m - 1, k \in T
      PROVE  k + 1 \in T
  <2>1. k + 1 \in 1 .. m /\ k + 1 \in 1 .. n /\ (k + 1 # 1 => k \in 1 .. k) /\ (k + 1) - 1 = k
    OBVIOUS
  <2>2. f[k + 1] = IF k + 1 = 1 THEN ss[k + 1] ELSE f[k] \o ss[k + 1]
    BY <2>1, ZenonT(40) DEF Joins
  <2>3. g[k + 1] = IF k + 1 = 1 THEN tt[k + 1] ELSE g[k] \o tt[k + 1]
    BY <2>1 DEF Joins
  <2>4. g[k + 1] = f[k + 1]
    BY <1>2, <2>1, <2>2, <2>3
  <2>5. \A i \in 1 .. k + 1 : i \in 1 .. k \/ i = k + 1
    OBVIOUS
  <2> QED
    BY <1>2, <2>1, <2>4, <2>5
<1> HIDE DEF T
<1>3. m \in T
  BY <1>1, <1>2, Induct
<1> QED
  BY <1>3 DEF T

\* The first k sequences in one.
First(ss, k) == FlattenSeq(SubSeq(ss, 1, k))

LEMMA Flattened ==
  ASSUME NEW S, NEW ss \in Seq(Seq(S))
  PROVE  /\ Len(ss) \in Nat /\ FlattenSeq(ss) = First(ss, Len(ss)) /\ First(ss, 0) = <<>>
         /\ \A k \in 1 .. Len(ss) : ss[k] \in Seq(S) /\ First(ss, k) = First(ss, k - 1) \o ss[k]
<1> DEFINE n == Len(ss)
<1>1. n \in Nat
  BY LenProperties
<1>2. PICK f : Joins(f, ss, n)
  BY <1>1, JoinsExist
<1>3. /\ SubSeq(ss, 1, n) = ss /\ SubSeq(ss, 1, 0) = <<>>
      /\ \A k \in 1 .. n : ss[k] \in Seq(S)
  BY SubSeqFull, SubSeqEmpty, ElementOfSeq
<1>4. First(ss, 0) = <<>>
  BY <1>3, EmptySeq DEF First, FlattenSeq
<1>5. ASSUME NEW k \in 1 .. n
      PROVE  First(ss, k) = f[k]
  <2> DEFINE tt == SubSeq(ss, 1, k)
  <2>1. Len(tt) = k /\ \A i \in 1 .. k : tt[i] = ss[i]
    <3>1. 0 \in Nat /\ k \in Nat /\ 0 <= k /\ k <= n /\ 0 + 1 = 1 /\ k - 0 = k
          /\ \A i \in 1 .. k : 0 + i = i
      BY <1>1
    <3> QED
      BY <3>1, Cutting
  <2> DEFINE g == CHOOSE g : Joins(g, tt, k)
  <2>2. Joins(g, tt, k)
    <3>1. k \in Nat
      BY <1>1
    <3> QED
      BY <3>1, JoinsExist
  <2>3. FlattenSeq(tt) = g[k]
    <3> HIDE DEF tt
    <3> QED
      BY <2>1 DEF FlattenSeq, Joins
  <2> HIDE DEF tt, g
  <2>4. k \in Nat /\ k <= n /\ k \in 1 .. k
    BY <1>1
  <2>5. \A i \in 1 .. k : g[i] = f[i]
    BY <1>1, <1>2, <2>1, <2>2, <2>4, JoinsAgree
  <2> QED
    BY <2>3, <2>4, <2>5 DEF First, tt
<1>6. ASSUME NEW k \in 1 .. n
      PROVE  First(ss, k) = First(ss, k - 1) \o ss[k]
  <2>1. f[k] = IF k = 1 THEN ss[k] ELSE f[k - 1] \o ss[k]
    BY <1>2 DEF Joins
  <2>2. CASE k = 1
    <3>1. First(ss, k - 1) \o ss[k] = ss[k]
      BY <1>3, <1>4, <2>2, ConcatEmptySeq
    <3> QED
      BY <1>5, <2>1, <2>2, <3>1
  <2>3. CASE k # 1
    <3>1. k - 1 \in 1 .. n
      BY <1>1, <2>3
    <3> QED
      BY <1>5, <2>1, <2>3, <3>1
  <2> QED
    BY <2>2, <2>3
<1> QED
  BY <1>1, <1>3, <1>4, <1>6 DEF First

\* t stands in s behind the first at elements.
Stands(s, at, t) == at + Len(t) <= Len(s) /\ \A p \in 1 .. Len(t) : s[at + p] = t[p]

LEMMA StandsLonger ==
  ASSUME NEW S, NEW s \in Seq(S), NEW u \in Seq(S), NEW t \in Seq(S), NEW at \in Nat,
         Stands(s, at, t)
  PROVE  Stands(s \o u, at, t)
<1>1. /\ Len(s) \in Nat /\ Len(u) \in Nat /\ Len(t) \in Nat
      /\ Len(s \o u) = Len(s) + Len(u)
      /\ \A p \in 1 .. Len(s) + Len(u) : (s \o u)[p] = IF p <= Len(s) THEN s[p] ELSE u[p - Len(s)]
  BY LenProperties, ConcatProperties
<1>2. at + Len(t) <= Len(s)
  BY DEF Stands
<1>3. ASSUME NEW p \in 1 .. Len(t)
      PROVE  (s \o u)[at + p] = t[p]
  <2>1. at + p \in 1 .. Len(s) + Len(u) /\ at + p <= Len(s)
    BY <1>1, <1>2
  <2> QED
    BY <1>1, <2>1 DEF Stands
<1> QED
  BY <1>1, <1>2, <1>3 DEF Stands

LEMMA StandsBehind ==
  ASSUME NEW S, NEW s \in Seq(S), NEW u \in Seq(S)
  PROVE  Stands(s \o u, Len(s), u)
<1>1. /\ Len(s) \in Nat /\ Len(u) \in Nat
      /\ Len(s \o u) = Len(s) + Len(u)
      /\ \A p \in 1 .. Len(s) + Len(u) : (s \o u)[p] = IF p <= Len(s) THEN s[p] ELSE u[p - Len(s)]
  BY LenProperties, ConcatProperties
<1>2. ASSUME NEW p \in 1 .. Len(u)
      PROVE  (s \o u)[Len(s) + p] = u[p]
  <2>1. Len(s) + p \in 1 .. Len(s) + Len(u) /\ ~ (Len(s) + p <= Len(s)) /\ (Len(s) + p) - Len(s) = p
    BY <1>1
  <2> QED
    BY <1>1, <2>1
<1> QED
  BY <1>1, <1>2 DEF Stands

\* Where the sequences stand in the one that they are joined to.
LEMMA Placed ==
  ASSUME NEW S, NEW ss \in Seq(Seq(S))
  PROVE  /\ Len(ss) \in Nat /\ FlattenSeq(ss) \in Seq(S) /\ Len(First(ss, 0)) = 0
         /\ FlattenSeq(ss) = First(ss, Len(ss))
         /\ \A k \in 0 .. Len(ss) : First(ss, k) \in Seq(S) /\ Len(First(ss, k)) \in Nat
         /\ \A k \in 1 .. Len(ss) :
              /\ Len(ss[k]) \in Nat /\ Len(First(ss, k)) = Len(First(ss, k - 1)) + Len(ss[k])
              /\ Stands(FlattenSeq(ss), Len(First(ss, k - 1)), ss[k])
<1> DEFINE n == Len(ss)
           T == {k \in 0 .. n : First(ss, k) \in Seq(S)}
           Q == {k \in 0 .. n : \A j \in 1 .. k : Stands(First(ss, k), Len(First(ss, j - 1)), ss[j])}
<1>1. /\ n \in Nat /\ FlattenSeq(ss) = First(ss, n) /\ First(ss, 0) = <<>>
      /\ \A k \in 1 .. n : ss[k] \in Seq(S) /\ First(ss, k) = First(ss, k - 1) \o ss[k]
  BY Flattened
<1> HIDE DEF n
<1>2. <<>> \in Seq(S) /\ Len(<<>>) = 0
  BY EmptySeq
<1>3. \A k \in 0 .. n - 1 : k + 1 \in 1 .. n /\ (k + 1) - 1 = k /\ k + 1 \in 0 .. n /\ k \in 0 .. n
  BY <1>1
<1>4. \A k \in 0 .. n : First(ss, k) \in Seq(S)
  <2>1. 0 \in T
    <3>1. First(ss, 0) \in Seq(S)
      BY <1>1, <1>2
    <3> QED
      BY <1>1, <3>1
  <2>2. ASSUME NEW k \in 0 .. n - 1, k \in T
        PROVE  k + 1 \in T
    <3>1. First(ss, k + 1) = First(ss, k) \o ss[k + 1] /\ ss[k + 1] \in Seq(S)
      BY <1>1, <1>3
    <3>2. First(ss, k + 1) \in Seq(S)
      BY <2>2, <3>1, ConcatProperties
    <3> QED
      BY <1>3, <3>2
  <2> HIDE DEF T
  <2>3. \A k \in 0 .. n : k \in T
    BY <1>1, <2>1, <2>2, Induct
  <2> QED
    BY <2>3 DEF T
<1>5. \A k \in 0 .. n : Len(First(ss, k)) \in Nat
  BY <1>4, LenProperties
<1>6. \A k \in 1 .. n : Len(First(ss, k)) = Len(First(ss, k - 1)) + Len(ss[k]) /\ Len(ss[k]) \in Nat
  <2>1. ASSUME NEW k \in 1 .. n
        PROVE  Len(First(ss, k)) = Len(First(ss, k - 1)) + Len(ss[k]) /\ Len(ss[k]) \in Nat
    <3>1. k - 1 \in 0 .. n
      BY <1>1
    <3> QED
      BY <1>1, <1>4, <3>1, ConcatProperties, LenProperties
  <2> QED
    BY <2>1
<1>7. \A j \in 1 .. n : Stands(First(ss, n), Len(First(ss, j - 1)), ss[j])
  <2>1. 0 \in Q
    BY <1>1
  <2>2. ASSUME NEW k \in 0 .. n - 1, k \in Q
        PROVE  k + 1 \in Q
    <3>1. /\ First(ss, k + 1) = First(ss, k) \o ss[k + 1] /\ ss[k + 1] \in Seq(S)
          /\ First(ss, k) \in Seq(S) /\ k + 1 \in 0 .. n /\ (k + 1) - 1 = k
      BY <1>1, <1>3, <1>4
    <3>2. ASSUME NEW j \in 1 .. k
          PROVE  Stands(First(ss, k + 1), Len(First(ss, j - 1)), ss[j])
      <4>1. j \in 1 .. n /\ j - 1 \in 0 .. n
        BY <1>1, <1>3
      <4>2. Stands(First(ss, k), Len(First(ss, j - 1)), ss[j])
        BY <2>2
      <4> QED
        BY <1>1, <1>5, <3>1, <4>1, <4>2, StandsLonger
    <3>3. Stands(First(ss, k + 1), Len(First(ss, k)), ss[k + 1])
      BY <3>1, StandsBehind
    <3>4. \A j \in 1 .. k + 1 : j \in 1 .. k \/ j = k + 1
      OBVIOUS
    <3>5. \A j \in 1 .. k + 1 : Stands(First(ss, k + 1), Len(First(ss, j - 1)), ss[j])
      BY <3>1, <3>2, <3>3, <3>4
    <3> QED
      BY <3>1, <3>5
  <2> HIDE DEF Q
  <2>3. \A k \in 0 .. n : k \in Q
    BY <1>1, <2>1, <2>2, Induct
  <2>4. n \in Q
    BY <1>1, <2>3
  <2> QED
    BY <2>4 DEF Q
<1>8. FlattenSeq(ss) \in Seq(S) /\ Len(First(ss, 0)) = 0
  <2>1. n \in 0 .. n
    BY <1>1
  <2> QED
    BY <1>1, <1>2, <1>4, <2>1
<1>9. \A j \in 1 .. n : Stands(FlattenSeq(ss), Len(First(ss, j - 1)), ss[j])
  BY <1>1, <1>7
<1> QED
  BY <1>1, <1>4, <1>5, <1>6, <1>8, <1>9 DEF n

-----------------------------------------------------------------------------
(* What a request looks like.                                               *)

\* Parts whose numbers need not fit into std::size_t.
Wide == {"*", "$"} \X Nat \union {Cr, Lf, Byte}

LEMMA Kinds ==
  /\ Cr # Lf /\ Cr[1] = "cr" /\ Lf[1] = "lf" /\ Cr \in Wide /\ Lf \in Wide
  /\ \A n : Bulk(n)[1] = "$" /\ Bulk(n)[2] = n /\ Array(n)[1] = "*" /\ Array(n)[2] = n
  /\ \A n : Bulk(n) # Cr /\ Bulk(n) # Lf /\ Array(n) # Cr /\ Array(n) # Lf
  /\ \A n \in Nat : Bulk(n) \in Wide /\ Array(n) \in Wide
<1>1. Cr[1] = "cr" /\ Lf[1] = "lf"
  BY DEF Cr, Lf
<1>2. \A n : Bulk(n)[1] = "$" /\ Bulk(n)[2] = n /\ Array(n)[1] = "*" /\ Array(n)[2] = n
  BY DEF Bulk, Array
<1>3. Cr # Lf /\ \A n : Bulk(n) # Cr /\ Bulk(n) # Lf /\ Array(n) # Cr /\ Array(n) # Lf
  BY <1>1, <1>2
<1>4. Cr \in Wide /\ Lf \in Wide
  BY DEF Wide
<1>5. \A n \in Nat : Bulk(n) \in Wide /\ Array(n) \in Wide
  BY DEF Wide, Bulk, Array
<1> QED
  BY <1>1, <1>2, <1>3, <1>4, <1>5

LEMMA PartIsWide ==
  SizeLimit \in Nat \ {0} /\ Part \subseteq Wide /\ Size \subseteq Nat
<1>1. SizeLimit \in Nat \ {0} /\ Size \subseteq Nat
  BY RequestCodecAssumption DEF Size
<1> QED
  BY <1>1 DEF Part, Wide

\* The parts of a line end and of the line of a token or an array.
LEMMA Three ==
  ASSUME NEW S, NEW a \in S, NEW b \in S, NEW c \in S
  PROVE  /\ <<a, b>> \in Seq(S) /\ Len(<<a, b>>) = 2
         /\ <<a, b>>[1] = a /\ <<a, b>>[2] = b
         /\ <<a, b, c>> \in Seq(S) /\ Len(<<a, b, c>>) = 3
         /\ <<a, b, c>>[1] = a /\ <<a, b, c>>[2] = b /\ <<a, b, c>>[3] = c
OBVIOUS

LEMMA TokenEncoded ==
  ASSUME NEW S, Cr \in S, Lf \in S, NEW t \in Seq(S), Bulk(Len(t)) \in S
  PROVE  LET e == EncodeToken(t)
             n == Len(t)
         IN /\ e \in Seq(S) /\ n \in Nat /\ Len(e) = n + 5
            /\ e[1] = Bulk(n) /\ e[2] = Cr /\ e[3] = Lf
            /\ \A p \in 1 .. n : e[3 + p] = t[p]
            /\ e[n + 4] = Cr /\ e[n + 5] = Lf
<1> DEFINE n == Len(t)
           head == <<Bulk(n), Cr, Lf>>
           end == <<Cr, Lf>>
           e == EncodeToken(t)
<1>1. n \in Nat
  BY LenProperties
<1>2. /\ head \in Seq(S) /\ Len(head) = 3 /\ head[1] = Bulk(n) /\ head[2] = Cr /\ head[3] = Lf
      /\ end \in Seq(S) /\ Len(end) = 2 /\ end[1] = Cr /\ end[2] = Lf
  BY Three
<1>3. e = head \o t \o end
  BY DEF EncodeToken
<1> HIDE DEF head, end, n, e
<1> DEFINE front == head \o t
<1>4. /\ front \in Seq(S) /\ Len(front) = 3 + n
      /\ \A p \in 1 .. 3 + n : front[p] = IF p <= 3 THEN head[p] ELSE t[p - 3]
  <2>1. /\ head \o t \in Seq(S) /\ Len(head \o t) = Len(head) + Len(t)
        /\ \A p \in 1 .. Len(head) + Len(t) : (head \o t)[p] = IF p <= Len(head) THEN head[p] ELSE t[p - Len(head)]
    BY <1>2, ConcatProperties
  <2> QED
    BY <1>2, <2>1 DEF n
<1>5. e = front \o end
  BY <1>3
<1> HIDE DEF front
<1>6. /\ e \in Seq(S) /\ Len(e) = (3 + n) + 2
      /\ \A p \in 1 .. (3 + n) + 2 : e[p] = IF p <= 3 + n THEN front[p] ELSE end[p - (3 + n)]
  <2>1. /\ front \o end \in Seq(S) /\ Len(front \o end) = Len(front) + Len(end)
        /\ \A p \in 1 .. Len(front) + Len(end) : (front \o end)[p] = IF p <= Len(front) THEN front[p] ELSE end[p - Len(front)]
    BY <1>2, <1>4, ConcatProperties
  <2> QED
    BY <1>2, <1>4, <1>5, <2>1
<1>7. \A p \in 1 .. 3 + n : e[p] = front[p]
  BY <1>1, <1>6
<1>8. e[1] = head[1] /\ e[2] = head[2] /\ e[3] = head[3]
  BY <1>1, <1>4, <1>7
<1>9. \A p \in 1 .. n : e[3 + p] = t[p]
  <2>1. \A p \in 1 .. n : 3 + p \in 1 .. 3 + n /\ ~ (3 + p <= 3) /\ (3 + p) - 3 = p
    BY <1>1
  <2> QED
    BY <1>4, <1>7, <2>1
<1>10. e[n + 4] = end[1] /\ e[n + 5] = end[2]
  <2>1. /\ n + 4 \in 1 .. (3 + n) + 2 /\ ~ (n + 4 <= 3 + n) /\ (n + 4) - (3 + n) = 1
        /\ n + 5 \in 1 .. (3 + n) + 2 /\ ~ (n + 5 <= 3 + n) /\ (n + 5) - (3 + n) = 2
    BY <1>1
  <2> QED
    BY <1>6, <2>1
<1>11. (3 + n) + 2 = n + 5
  BY <1>1
<1> QED
  BY <1>1, <1>2, <1>6, <1>8, <1>9, <1>10, <1>11 DEF e, n

\* The tokens of a request, encoded, and where the token behind the first k begins.
Encoded(tokens) == [i \in 1 .. Len(tokens) |-> EncodeToken(tokens[i])]
At(tokens, k)   == 3 + Len(First(Encoded(tokens), k))

LEMMA BegunAt ==
  ASSUME NEW S, Cr \in S, Lf \in S, NEW count \in Nat, Array(count) \in S,
         NEW tokens \in Seq(Seq(S)), \A i \in 1 .. Len(tokens) : Bulk(Len(tokens[i])) \in S
  PROVE  LET e == Begun(count, tokens)
             n == Len(tokens)
         IN /\ e \in Seq(S) /\ n \in Nat /\ Len(e) = At(tokens, n) /\ At(tokens, 0) = 3
            /\ e[1] = Array(count) /\ e[2] = Cr /\ e[3] = Lf
            /\ \A k \in 0 .. n : At(tokens, k) \in Nat
            /\ \A k \in 1 .. n : /\ tokens[k] \in Seq(S) /\ Len(tokens[k]) \in Nat
                                 /\ At(tokens, k) = At(tokens, k - 1) + Len(tokens[k]) + 5
                                 /\ Stands(e, At(tokens, k - 1), EncodeToken(tokens[k]))
<1> DEFINE e == Begun(count, tokens)
           n == Len(tokens)
           ss == Encoded(tokens)
           head == <<Array(count), Cr, Lf>>
           body == FlattenSeq(ss)
<1>1. n \in Nat /\ \A k \in 1 .. n : tokens[k] \in Seq(S)
  BY LenProperties, ElementOfSeq
<1>2. \A k \in 1 .. n : /\ EncodeToken(tokens[k]) \in Seq(S) /\ Len(tokens[k]) \in Nat
                        /\ Len(EncodeToken(tokens[k])) = Len(tokens[k]) + 5
  BY <1>1, TokenEncoded
<1>3. ss \in Seq(Seq(S)) /\ Len(ss) = n /\ \A k \in 1 .. n : ss[k] = EncodeToken(tokens[k])
  BY <1>1, <1>2 DEF Encoded
<1>4. /\ head \in Seq(S) /\ Len(head) = 3
      /\ head[1] = Array(count) /\ head[2] = Cr /\ head[3] = Lf
  BY Three
<1>5. e = head \o body
  BY DEF Begun, Encoded
<1> HIDE DEF head, n, e, ss
<1>6. /\ body \in Seq(S) /\ Len(First(ss, 0)) = 0 /\ body = First(ss, n)
      /\ \A k \in 0 .. n : Len(First(ss, k)) \in Nat
      /\ \A k \in 1 .. n :
           /\ Len(ss[k]) \in Nat /\ Len(First(ss, k)) = Len(First(ss, k - 1)) + Len(ss[k])
           /\ Stands(body, Len(First(ss, k - 1)), ss[k])
  BY <1>3, Placed
<1> HIDE DEF body
<1>7. /\ Len(body) \in Nat /\ e \in Seq(S) /\ Len(e) = 3 + Len(body)
      /\ \A p \in 1 .. 3 + Len(body) : e[p] = IF p <= 3 THEN head[p] ELSE body[p - 3]
  <2>1. /\ head \o body \in Seq(S) /\ Len(head \o body) = Len(head) + Len(body)
        /\ \A p \in 1 .. Len(head) + Len(body) : (head \o body)[p] = IF p <= Len(head) THEN head[p] ELSE body[p - Len(head)]
    BY <1>4, <1>6, ConcatProperties
  <2>2. Len(body) \in Nat
    BY <1>6, LenProperties
  <2> QED
    BY <1>4, <1>5, <2>1, <2>2
<1>8. e[1] = head[1] /\ e[2] = head[2] /\ e[3] = head[3]
  BY <1>7
<1>9. \A k \in 0 .. n : At(tokens, k) = 3 + Len(First(ss, k))
  BY DEF At, ss
<1>10. ASSUME NEW k \in 1 .. n
       PROVE  /\ At(tokens, k) = At(tokens, k - 1) + Len(tokens[k]) + 5
              /\ Stands(e, At(tokens, k - 1), EncodeToken(tokens[k]))
  <2>1. k - 1 \in 0 .. n /\ k \in 0 .. n
    BY <1>1
  <2>2. /\ At(tokens, k) = 3 + Len(First(ss, k)) /\ At(tokens, k - 1) = 3 + Len(First(ss, k - 1))
        /\ Len(First(ss, k)) \in Nat /\ Len(First(ss, k - 1)) \in Nat
    BY <1>6, <1>9, <2>1
  <2>3. Len(First(ss, k)) = Len(First(ss, k - 1)) + (Len(tokens[k]) + 5)
    BY <1>2, <1>3, <1>6
  <2>4. At(tokens, k) = At(tokens, k - 1) + Len(tokens[k]) + 5
    <3> DEFINE x == Len(First(ss, k))
               y == Len(First(ss, k - 1))
               z == Len(tokens[k])
    <3>1. x = y + (z + 5) /\ x \in Nat /\ y \in Nat /\ z \in Nat
      BY <1>2, <2>2, <2>3
    <3>2. At(tokens, k) = 3 + x /\ At(tokens, k - 1) = 3 + y
      BY <2>2
    <3> HIDE DEF x, y, z
    <3>3. At(tokens, k) = At(tokens, k - 1) + z + 5
      BY <3>1, <3>2
    <3> QED
      BY <3>3 DEF z
  <2> DEFINE t == EncodeToken(tokens[k])
             at == Len(First(ss, k - 1))
  <2>5. Stands(body, at, t) /\ Len(t) \in Nat /\ at \in Nat
    BY <1>2, <1>3, <1>6, <2>2
  <2>6. At(tokens, k - 1) = 3 + at
    BY <2>2
  <2> HIDE DEF t, at
  <2>7. at + Len(t) <= Len(body)
    BY <2>5 DEF Stands
  <2>8. ASSUME NEW p \in 1 .. Len(t)
        PROVE  e[(3 + at) + p] = t[p]
    <3>1. /\ (3 + at) + p \in 1 .. 3 + Len(body) /\ ~ ((3 + at) + p <= 3)
          /\ ((3 + at) + p) - 3 = at + p
      BY <1>7, <2>5, <2>7
    <3>2. body[at + p] = t[p]
      BY <2>5 DEF Stands
    <3> QED
      BY <1>7, <3>1, <3>2
  <2>9. (3 + at) + Len(t) <= Len(e)
    BY <1>7, <2>5, <2>7
  <2>10. Stands(e, 3 + at, t)
    BY <2>8, <2>9 DEF Stands
  <2> QED
    BY <2>4, <2>6, <2>10 DEF t
<1>11. Len(e) = At(tokens, n) /\ At(tokens, 0) = 3 /\ \A k \in 0 .. n : At(tokens, k) \in Nat
  <2>1. n \in 0 .. n /\ 0 \in 0 .. n
    BY <1>1
  <2> QED
    BY <1>6, <1>7, <1>9, <2>1
<1> QED
  BY <1>1, <1>2, <1>4, <1>7, <1>8, <1>10, <1>11 DEF e, n

-----------------------------------------------------------------------------
(* One token.                                                               *)

LEMMA Verdicts ==
  /\ \A c, t : Going(c, t).then = "go on" /\ Going(c, t).cursor = c /\ Going(c, t).tokens = t
  /\ Waiting.then = "wait" /\ Throwing.then = "throw"
BY DEF Going, Waiting, Throwing

LEMMA WholeLine ==
  ASSUME NEW s \in Seq(Wide), NEW at \in Nat, NEW kind, at + 3 <= Len(s),
         s[at + 1][1] = kind, s[at + 2] = Cr, s[at + 3] = Lf
  PROVE  /\ ~ LineIncomplete(s, at, kind) /\ ~ NotSuchLine(s, at, kind)
         /\ LineEnds(s, at + 1)
<1>1. Len(s) \in Nat
  BY LenProperties
<1>2. /\ (at + 1) + 2 = at + 3 /\ (at + 1) + 1 = at + 2 /\ ~ (at >= Len(s))
      /\ at + 1 \in at .. Len(s)
  BY <1>1
<1>3. LineEnds(s, at + 1)
  BY <1>2 DEF LineEnds
<1> QED
  BY <1>2, <1>3 DEF LineIncomplete, NotSuchLine

LEMMA CutLine ==
  ASSUME NEW s \in Seq(Wide), NEW at \in Nat, NEW kind, at <= Len(s), Len(s) < at + 3,
         at + 1 <= Len(s) => s[at + 1][1] = kind /\ s[at + 1] # Cr
  PROVE  LineIncomplete(s, at, kind)
<1>1. Len(s) \in Nat
  BY LenProperties
<1>2. CASE at = Len(s)
  BY <1>1, <1>2 DEF LineIncomplete
<1>3. CASE at # Len(s)
  <2>1. at + 1 <= Len(s)
    BY <1>1, <1>3
  <2>2. ASSUME NEW p \in at .. Len(s), LineEnds(s, p)
        PROVE  FALSE
    <3>1. p + 2 <= Len(s) /\ s[p + 1] = Cr
      BY <2>2 DEF LineEnds
    <3>2. p = at
      BY <1>1, <3>1
    <3> QED
      BY <2>1, <3>1, <3>2
  <2> QED
    BY <2>1, <2>2 DEF LineIncomplete
<1> QED
  BY <1>2, <1>3

\* A beginning of what has a wrong line.
LEMMA WrongLine ==
  ASSUME NEW s \in Seq(Wide), NEW tail \in Seq(Wide), Len(s) <= Len(tail), Agree(s, tail),
         NEW at \in Nat, NEW kind, NotSuchLine(tail, at, kind)
  PROVE  /\ LineIncomplete(s, at, kind) \/ NotSuchLine(s, at, kind)
         /\ Len(s) = Len(tail) => ~ LineIncomplete(s, at, kind)
<1>1. Len(s) \in Nat /\ Len(tail) \in Nat
  BY LenProperties
<1>2. \A p \in 1 .. Len(s) : s[p] = tail[p]
  BY <1>1 DEF Agree
<1>3. \A p \in Nat : LineEnds(s, p) => LineEnds(tail, p)
  <2>1. ASSUME NEW p \in Nat, LineEnds(s, p)
        PROVE  LineEnds(tail, p)
    <3>1. p + 2 <= Len(s) /\ s[p + 1] = Cr /\ s[p + 2] = Lf
      BY <2>1 DEF LineEnds
    <3>2. p + 1 \in 1 .. Len(s) /\ p + 2 \in 1 .. Len(s) /\ p + 2 <= Len(tail)
      BY <1>1, <3>1
    <3> QED
      BY <1>2, <3>1, <3>2 DEF LineEnds
  <2> QED
    BY <2>1
<1>4. LineIncomplete(s, at, kind) \/ NotSuchLine(s, at, kind)
  <2> SUFFICES ASSUME ~ LineIncomplete(s, at, kind) PROVE NotSuchLine(s, at, kind)
    OBVIOUS
  <2>1. at + 1 \in 1 .. Len(s) /\ at + 1 \in Nat
    BY <1>1 DEF LineIncomplete
  <2>2. s[at + 1] = tail[at + 1]
    BY <1>2, <2>1
  <2>3. tail[at + 1][1] # kind \/ ~ LineEnds(tail, at + 1)
    BY DEF NotSuchLine
  <2>4. s[at + 1][1] # kind \/ ~ LineEnds(s, at + 1)
    BY <1>3, <2>1, <2>2, <2>3
  <2> QED
    BY <2>4 DEF NotSuchLine
<1>5. ASSUME Len(s) = Len(tail)
      PROVE  ~ LineIncomplete(s, at, kind)
  <2>1. s = tail
    BY <1>2, <1>5, SeqEqual
  <2> QED
    BY <2>1 DEF NotSuchLine
<1> QED
  BY <1>4, <1>5

\* The end of a token that fits.
LEMMA EndFits ==
  ASSUME NEW s, NEW begin \in Nat, NEW n \in Nat, begin + n + 2 < SizeLimit
  PROVE  /\ DataEnd(s, begin, n) = begin + n
         /\ TokenMissing(s, begin + n) <=> begin + n + 2 > Len(s)
<1>1. SizeLimit \in Nat \ {0} /\ begin + n \in Nat /\ begin + n < SizeLimit /\ begin + n + 2 \in Nat
  BY PartIsWide
<1>2. (begin + n) % SizeLimit = begin + n /\ (begin + n + 2) % SizeLimit = begin + n + 2
  BY <1>1, Wrapped
<1> QED
  BY <1>2 DEF DataEnd, TokenMissing

LEMMA LeastOfTwo ==
  ASSUME NEW a \in Int, NEW b \in Int, a <= b
  PROVE  Min({a, b}) = a
<1>1. \E x \in {a, b} : \A y \in {a, b} : x =< y
  OBVIOUS
<1>2. Min({a, b}) \in {a, b} /\ \A y \in {a, b} : Min({a, b}) =< y
  <2> DEFINE S == {a, b}
  <2> HIDE DEF S
  <2>1. (CHOOSE x \in S : \A y \in S : x =< y) \in S
        /\ \A y \in S : (CHOOSE x \in S : \A y_1 \in S : x =< y_1) =< y
    BY <1>1 DEF S
  <2> QED
    BY <2>1 DEF Min, S
<1> QED
  BY <1>2

LEMMA NextGood ==
  ASSUME NEW s \in Seq(Wide), NEW at \in Nat, NEW t \in Seq(Wide), NEW tokens,
         Stands(s, at, EncodeToken(t)), at + Len(t) + 5 < SizeLimit
  PROVE  NextToken(s, at, tokens) = Going(at + Len(t) + 5, Append(tokens, t))
<1> DEFINE n == Len(t)
           e == EncodeToken(t)
           begin == at + 3
           end == DataEnd(s, begin, n)
<1>1. n \in Nat /\ Len(s) \in Nat
  BY LenProperties
<1>2. /\ Len(e) = n + 5 /\ e[1] = Bulk(n) /\ e[2] = Cr /\ e[3] = Lf
      /\ \A p \in 1 .. n : e[3 + p] = t[p]
      /\ e[n + 4] = Cr /\ e[n + 5] = Lf
  BY <1>1, Kinds, TokenEncoded
<1> HIDE DEF e
<1>3. at + (n + 5) <= Len(s) /\ \A p \in 1 .. n + 5 : s[at + p] = e[p]
  BY <1>2 DEF Stands, e
<1> HIDE DEF n
<1>4. s[at + 1] = Bulk(n) /\ s[at + 2] = Cr /\ s[at + 3] = Lf
  <2>1. 1 \in 1 .. n + 5 /\ 2 \in 1 .. n + 5 /\ 3 \in 1 .. n + 5
    BY <1>1
  <2> QED
    BY <1>2, <1>3, <2>1
<1>5. ~ LineIncomplete(s, at, "$") /\ ~ NotSuchLine(s, at, "$")
  <2>1. at + 3 <= Len(s) /\ s[at + 1][1] = "$"
    BY <1>1, <1>3, <1>4, Kinds
  <2> QED
    BY <1>4, <2>1, WholeLine
<1>6. s[at + 1][2] = n
  BY <1>4, Kinds
<1>7. begin \in Nat /\ begin + n + 2 < SizeLimit /\ begin + n + 2 = at + n + 5 /\ begin + n \in Nat
  BY <1>1, PartIsWide DEF n
<1>8. end = begin + n /\ ~ TokenMissing(s, begin + n)
  BY <1>1, <1>3, <1>7, EndFits
<1>9. Terminated(s, begin + n)
  <2>1. /\ n + 4 \in 1 .. n + 5 /\ n + 5 \in 1 .. n + 5
        /\ at + (n + 4) = (begin + n) + 1 /\ at + (n + 5) = (begin + n) + 2
    BY <1>1
  <2>2. s[(begin + n) + 1] = Cr /\ s[(begin + n) + 2] = Lf
    BY <1>2, <1>3, <2>1
  <2> QED
    BY <1>3, <2>1, <2>2 DEF Terminated, LineEnds
<1>10. SubSeq(s, begin + 1, Min({begin + n, Len(s)})) = t
  <2>1. Min({begin + n, Len(s)}) = begin + n
    BY <1>1, <1>3, <1>7, LeastOfTwo
  <2>2. begin <= begin + n /\ begin + n <= Len(s) /\ (begin + n) - begin = n
    BY <1>1, <1>3, <1>7
  <2> DEFINE u == SubSeq(s, begin + 1, begin + n)
  <2>3. u \in Seq(Wide) /\ Len(u) = n /\ \A p \in 1 .. n : u[p] = s[begin + p]
    <3>1. s \in Seq(Wide) /\ begin \in Nat /\ begin + n \in Nat
      BY <1>7, Zenon
    <3>2. /\ u \in Seq(Wide) /\ Len(u) = (begin + n) - begin
          /\ \A p \in 1 .. (begin + n) - begin : u[p] = s[begin + p]
      <4> DEFINE stop == begin + n
      <4>1. begin \in Nat /\ stop \in Nat /\ begin <= stop /\ stop <= Len(s)
        BY <2>2, <3>1, Zenon
      <4> HIDE DEF stop, begin
      <4>2. LET v == SubSeq(s, begin + 1, stop)
            IN v \in Seq(Wide) /\ Len(v) = stop - begin /\ \A p \in 1 .. stop - begin : v[p] = s[begin + p]
        BY <3>1, <4>1, Cutting, Zenon
      <4> QED
        BY <4>2, Zenon DEF stop
    <3> HIDE DEF u
    <3> QED
      BY <2>2, <3>2, Zenon
  <2>4. \A p \in 1 .. n : begin + p = at + (3 + p) /\ 3 + p \in 1 .. n + 5
    BY <1>1
  <2>5. \A p \in 1 .. n : u[p] = t[p]
    <3> HIDE DEF u
    <3>1. ASSUME NEW p \in 1 .. n
          PROVE  u[p] = t[p]
      <4>1. u[p] = s[at + (3 + p)] /\ 3 + p \in 1 .. n + 5
        BY <2>3, <2>4, Zenon
      <4> QED
        BY <1>2, <1>3, <4>1
    <3> QED
      BY <3>1, Zenon
  <2> HIDE DEF u
  <2>6. u = t
    BY <2>3, <2>5, SeqEqual DEF n
  <2> QED
    BY <2>1, <2>6 DEF u
<1>11. NextToken(s, at, tokens) = Going((begin + n) + 2, Append(tokens, t))
  BY <1>5, <1>6, <1>8, <1>9, <1>10 DEF NextToken
<1> QED
  BY <1>7, <1>11 DEF n

LEMMA NextWaits ==
  ASSUME NEW s \in Seq(Wide), NEW at \in Nat, NEW t \in Seq(Wide), NEW tokens,
         at <= Len(s), Len(s) < at + Len(t) + 5, at + Len(t) + 5 < SizeLimit,
         \A p \in 1 .. Len(t) + 5 : at + p <= Len(s) => s[at + p] = EncodeToken(t)[p]
  PROVE  NextToken(s, at, tokens) = Waiting
<1> DEFINE n == Len(t)
           e == EncodeToken(t)
           begin == at + 3
<1>1. n \in Nat /\ Len(s) \in Nat
  BY LenProperties
<1>2. e[1] = Bulk(n) /\ e[2] = Cr /\ e[3] = Lf
  BY <1>1, Kinds, TokenEncoded
<1>3. \A p \in 1 .. n + 5 : at + p <= Len(s) => s[at + p] = e[p]
  OBVIOUS
<1> HIDE DEF e, n
<1>4. 1 \in 1 .. n + 5 /\ 2 \in 1 .. n + 5 /\ 3 \in 1 .. n + 5
  BY <1>1
<1>5. CASE Len(s) < at + 3
  <2>1. at + 1 <= Len(s) => s[at + 1] = Bulk(n)
    BY <1>2, <1>3, <1>4
  <2>2. LineIncomplete(s, at, "$")
    BY <1>5, <2>1, CutLine, Kinds
  <2> QED
    BY <2>2 DEF NextToken
<1>6. CASE at + 3 <= Len(s)
  <2>1. at + 1 <= Len(s) /\ at + 2 <= Len(s)
    BY <1>1, <1>6
  <2>2. s[at + 1] = Bulk(n) /\ s[at + 2] = Cr /\ s[at + 3] = Lf
    BY <1>2, <1>3, <1>4, <1>6, <2>1
  <2>3. ~ LineIncomplete(s, at, "$") /\ ~ NotSuchLine(s, at, "$") /\ s[at + 1][2] = n
    BY <1>6, <2>2, WholeLine, Kinds
  <2>4. begin \in Nat /\ begin + n + 2 < SizeLimit /\ begin + n + 2 > Len(s)
    BY <1>1, PartIsWide DEF n
  <2>5. DataEnd(s, begin, n) = begin + n /\ TokenMissing(s, begin + n)
    BY <1>1, <2>4, EndFits
  <2> QED
    BY <2>3, <2>5 DEF NextToken
<1> QED
  BY <1>1, <1>5, <1>6

LEMMA NextBad ==
  ASSUME NEW s \in Seq(Wide), NEW tail \in Seq(Wide), Len(s) <= Len(tail), Len(tail) < SizeLimit,
         Agree(s, tail), NEW at \in Nat, at <= Len(s), NoToken(tail, at), NEW tokens
  PROVE  /\ NextToken(s, at, tokens) \in {Waiting, Throwing}
         /\ Len(s) = Len(tail) => NextToken(s, at, tokens) = Throwing
<1>1. Len(s) \in Nat /\ Len(tail) \in Nat /\ SizeLimit \in Nat \ {0}
  BY LenProperties, PartIsWide
<1>2. \A p \in 1 .. Len(s) : s[p] = tail[p]
  BY <1>1 DEF Agree
<1>3. CASE NotSuchLine(tail, at, "$")
  <2>1. /\ LineIncomplete(s, at, "$") \/ NotSuchLine(s, at, "$")
        /\ Len(s) = Len(tail) => ~ LineIncomplete(s, at, "$")
    BY <1>3, WrongLine
  <2> QED
    BY <2>1 DEF NextToken
<1>4. CASE ~ NotSuchLine(tail, at, "$")
  <2>1. PICK n \in Size :
          /\ at + 3 <= Len(tail) /\ tail[at + 1] = Bulk(n) /\ LineEnds(tail, at + 1)
          /\ \/ at + n + 5 <= Len(tail) /\ ~ LineEnds(tail, at + n + 3)
             \/ /\ at + n + 3 >= SizeLimit /\ at + n + 5 - SizeLimit <= Len(tail)
                /\ ~ LineEnds(tail, at + n + 3 - SizeLimit)
    BY <1>4 DEF NoToken
  <2> DEFINE begin == at + 3
             end == DataEnd(s, begin, n)
  <2>2. n \in Nat /\ n < SizeLimit
    BY <1>1, <2>1 DEF Size
  <2>3. CASE Len(s) < at + 3
    <3>1. at + 1 <= Len(s) => s[at + 1] = Bulk(n)
      <4>1. at + 1 <= Len(s) => at + 1 \in 1 .. Len(s)
        BY <1>1
      <4> QED
        BY <1>2, <2>1, <4>1
    <3>2. LineIncomplete(s, at, "$")
      BY <2>3, <3>1, CutLine, Kinds
    <3>3. Len(s) # Len(tail)
      BY <1>1, <2>1, <2>3
    <3> QED
      BY <3>2, <3>3 DEF NextToken
  <2>4. CASE at + 3 <= Len(s)
    <3>1. s[at + 1] = Bulk(n) /\ s[at + 2] = Cr /\ s[at + 3] = Lf
      <4>1. at + 1 \in 1 .. Len(s) /\ at + 2 \in 1 .. Len(s) /\ at + 3 \in 1 .. Len(s)
            /\ (at + 1) + 1 = at + 2 /\ (at + 1) + 2 = at + 3
        BY <1>1, <2>4
      <4>2. tail[at + 2] = Cr /\ tail[at + 3] = Lf
        BY <2>1, <4>1 DEF LineEnds
      <4> QED
        BY <1>2, <2>1, <4>1, <4>2
    <3>2. ~ LineIncomplete(s, at, "$") /\ ~ NotSuchLine(s, at, "$") /\ s[at + 1][2] = n
      BY <2>4, <3>1, WholeLine, Kinds
    <3>3. PICK e \in Nat : end = e /\ e + 2 <= Len(tail) /\ ~ LineEnds(tail, e)
      <4>1. CASE at + n + 5 <= Len(tail) /\ ~ LineEnds(tail, at + n + 3)
        <5>1. begin + n = at + n + 3 /\ at + n + 3 \in Nat /\ at + n + 3 < SizeLimit
              /\ (at + n + 3) + 2 <= Len(tail)
          BY <1>1, <2>2, <4>1
        <5>2. end = at + n + 3
          BY <1>1, <5>1, Wrapped DEF DataEnd
        <5> QED
          BY <4>1, <5>1, <5>2
      <4>2. CASE /\ at + n + 3 >= SizeLimit /\ at + n + 5 - SizeLimit <= Len(tail)
                 /\ ~ LineEnds(tail, at + n + 3 - SizeLimit)
        <5>1. begin + n = at + n + 3 /\ at + n + 3 \in Nat /\ at + n + 3 < 2 * SizeLimit
              /\ at + n + 3 - SizeLimit \in Nat /\ (at + n + 3 - SizeLimit) + 2 <= Len(tail)
          BY <1>1, <2>1, <2>2, <4>2
        <5> DEFINE x == at + n + 3
        <5>2. x \in Nat /\ SizeLimit <= x /\ x < 2 * SizeLimit
          BY <4>2, <5>1
        <5> HIDE DEF x
        <5>3. x % SizeLimit = x - SizeLimit
          BY <1>1, <5>2, Wrapped
        <5>4. end = x % SizeLimit
          BY <5>1, Zenon DEF x, DataEnd
        <5>5. x - SizeLimit = at + n + 3 - SizeLimit
          BY <1>1, <2>2 DEF x
        <5> QED
          BY <4>2, <5>1, <5>3, <5>4, <5>5
      <4> QED
        BY <2>1, <4>1, <4>2
    <3>4. TokenMissing(s, e) <=> e + 2 > Len(s)
      <4>1. e + 2 \in Nat /\ e + 2 < SizeLimit
        BY <1>1, <3>3
      <4>2. (e + 2) % SizeLimit = e + 2
        BY <1>1, <4>1, Wrapped
      <4> QED
        BY <4>2 DEF TokenMissing
    <3>5. ~ Terminated(s, e)
      <4>1. SUFFICES ASSUME LineEnds(s, e) PROVE LineEnds(tail, e)
        BY <3>3 DEF Terminated
      <4>2. e + 2 <= Len(s) /\ s[e + 1] = Cr /\ s[e + 2] = Lf
        BY <4>1 DEF LineEnds
      <4>3. e + 1 \in 1 .. Len(s) /\ e + 2 \in 1 .. Len(s)
        BY <1>1, <4>2
      <4> QED
        BY <1>2, <3>3, <4>2, <4>3 DEF LineEnds
    <3>6. NextToken(s, at, tokens) = IF TokenMissing(s, e) THEN Waiting ELSE Throwing
      BY <3>2, <3>3, <3>5 DEF NextToken
    <3>7. Len(s) = Len(tail) => ~ TokenMissing(s, e)
      BY <1>1, <3>3, <3>4
    <3> QED
      BY <3>6, <3>7
  <2> QED
    BY <1>1, <2>3, <2>4
<1> QED
  BY <1>3, <1>4

-----------------------------------------------------------------------------
(* The tokens of one request.                                               *)

Done(verdict) == verdict.then # "go on"

LEMMA Goes ==
  /\ \A c, t : ~ Done(Going(c, t)) /\ Going(c, t).cursor = c /\ Going(c, t).tokens = t
  /\ Done(Waiting) /\ Done(Throwing)
BY Verdicts DEF Done

\* f gives what Tokens has found after each token.
TokenStep(f, s, k) == f[k] = IF Done(f[k - 1]) THEN f[k - 1]
                             ELSE NextToken(s, f[k - 1].cursor, f[k - 1].tokens)
TokenRun(f, s, count) ==
  f = [k \in 0 .. count |->
        IF k = 0 THEN Going(3, <<>>)
        ELSE IF f[k - 1].then # "go on" THEN f[k - 1]
        ELSE NextToken(s, f[k - 1].cursor, f[k - 1].tokens)]

LEMMA GoesOn ==
  ASSUME NEW f, NEW s, NEW k \in Nat, TokenStep(f, s, k + 1),
         NEW c, NEW t, f[k] = Going(c, t)
  PROVE  f[k + 1] = NextToken(s, c, t)
<1> DEFINE v == f[k]
<1>1. f[k + 1] = IF Done(v) THEN v ELSE NextToken(s, v.cursor, v.tokens)
  <2>1. (k + 1) - 1 = k
    OBVIOUS
  <2> QED
    BY <2>1, Zenon DEF TokenStep
<1>2. v = Going(c, t)
  OBVIOUS
<1> HIDE DEF v
<1>3. ~ Done(v) /\ v.cursor = c /\ v.tokens = t
  BY <1>2, Goes
<1> QED
  BY <1>1, <1>3

LEMMA TokenRunExists ==
  ASSUME NEW count \in Nat, NEW s
  PROVE  \E f : TokenRun(f, s, count)
<1> DEFINE T == {n \in Nat : \E f : TokenRun(f, s, n)}
<1>1. 0 \in T
  <2>1. TokenRun([k \in 0 .. 0 |-> Going(3, <<>>)], s, 0)
    BY DEF TokenRun
  <2> QED
    BY <2>1
<1>2. ASSUME NEW n \in 0 .. count - 1, n \in T
      PROVE  n + 1 \in T
  <2>1. PICK f : TokenRun(f, s, n)
    BY <1>2
  <2> DEFINE F(h, k) == IF k = 0 THEN Going(3, <<>>)
                        ELSE IF h[k - 1].then # "go on" THEN h[k - 1]
                        ELSE NextToken(s, h[k - 1].cursor, h[k - 1].tokens)
             g == [k \in 0 .. n + 1 |-> F(f, k)]
  <2>2. \A k \in 0 .. n : f[k] = F(f, k)
    BY <2>1 DEF TokenRun
  <2>3. \A k \in 0 .. n : k \in 0 .. n + 1
    OBVIOUS
  <2>4. \A k \in 0 .. n : g[k] = f[k]
    <3> HIDE DEF F
    <3> QED
      BY <2>2, <2>3
  <2>5. \A k \in 0 .. n + 1 : k # 0 => k - 1 \in 0 .. n
    OBVIOUS
  <2>6. \A k \in 0 .. n + 1 : F(f, k) = F(g, k)
    <3> HIDE DEF g
    <3> QED
      BY <2>4, <2>5
  <2>7. TokenRun(g, s, n + 1)
    <3>1. g = [k \in 0 .. n + 1 |-> F(g, k)]
      <4> HIDE DEF F
      <4> QED
        BY <2>6
    <3> HIDE DEF g
    <3> QED
      BY <3>1 DEF TokenRun
  <2>8. n + 1 \in Nat
    OBVIOUS
  <2> HIDE DEF g
  <2> QED
    BY <2>7, <2>8
<1> HIDE DEF T
<1>3. count \in T
  BY <1>1, <1>2, Induct
<1> QED
  BY <1>3 DEF T

LEMMA TokenSteps ==
  ASSUME NEW s, NEW count \in Nat
  PROVE  \E f : /\ Tokens(s, count) = f[count] /\ f[0] = Going(3, <<>>)
                /\ \A k \in 1 .. count : TokenStep(f, s, k)
<1> DEFINE f == CHOOSE f : TokenRun(f, s, count)
<1>1. TokenRun(f, s, count)
  BY TokenRunExists
<1>2. Tokens(s, count) = f[count]
  BY DEF Tokens, TokenRun
<1> HIDE DEF f
<1>3. 0 \in 0 .. count /\ \A k \in 1 .. count : k \in 0 .. count /\ k # 0
  OBVIOUS
<1>4. f[0] = Going(3, <<>>)
  BY <1>1, <1>3 DEF TokenRun
<1>5. \A k \in 1 .. count : TokenStep(f, s, k)
  BY <1>1, <1>3 DEF TokenRun, TokenStep, Done
<1> QED
  BY <1>2, <1>4, <1>5

\* Once the parser waits or throws, it is done.
LEMMA Settled ==
  ASSUME NEW count \in Nat, NEW f, NEW m \in 0 .. count, Done(f[m]),
         \A k \in 1 .. count : Done(f[k - 1]) => f[k] = f[k - 1]
  PROVE  f[count] = f[m]
<1> DEFINE T == {k \in 0 .. count : k >= m => f[k] = f[m]}
<1>1. 0 \in T
  OBVIOUS
<1>2. ASSUME NEW k \in 0 .. count - 1, k \in T
      PROVE  k + 1 \in T
  <2>1. k + 1 \in 1 .. count /\ (k + 1) - 1 = k /\ k + 1 \in 0 .. count
    OBVIOUS
  <2>2. k >= m => f[k + 1] = f[m]
    BY <1>2, <2>1
  <2>3. k + 1 >= m => k >= m \/ k + 1 = m
    OBVIOUS
  <2> QED
    BY <2>1, <2>2, <2>3
<1> HIDE DEF T
<1>3. count \in T
  BY <1>1, <1>2, Induct
<1> QED
  BY <1>3 DEF T

\* Tokens that stand in s are taken, and waited for when they do not stand there yet.
LEMMA TokensTaken ==
  ASSUME NEW s \in Seq(Wide), 3 <= Len(s), NEW count \in Nat, NEW tokens \in Seq(Seq(Wide)),
         Len(tokens) <= count, Agree(s, Begun(count, tokens)), Len(Begun(count, tokens)) < SizeLimit,
         NEW f, f[0] = Going(3, <<>>),
         \A k \in 1 .. count : TokenStep(f, s, k)
  PROVE  \A k \in 0 .. Len(tokens) :
           f[k] = IF At(tokens, k) <= Len(s) THEN Going(At(tokens, k), SubSeq(tokens, 1, k))
                                             ELSE Waiting
<1> DEFINE e == Begun(count, tokens)
           n == Len(tokens)
           Found(k) == IF At(tokens, k) <= Len(s) THEN Going(At(tokens, k), SubSeq(tokens, 1, k))
                                                  ELSE Waiting
           T == {k \in 0 .. n : f[k] = Found(k)}
<1>1. \A i \in 1 .. n : Bulk(Len(tokens[i])) \in Wide
  <2>1. \A i \in 1 .. n : Len(tokens[i]) \in Nat
    BY ElementOfSeq, LenProperties
  <2> QED
    BY <2>1, Kinds
<1>2. Cr \in Wide /\ Lf \in Wide /\ Array(count) \in Wide
  BY Kinds
<1>3. /\ e \in Seq(Wide) /\ n \in Nat /\ Len(e) = At(tokens, n) /\ At(tokens, 0) = 3
      /\ \A k \in 0 .. n : At(tokens, k) \in Nat
      /\ \A k \in 1 .. n : /\ tokens[k] \in Seq(Wide) /\ Len(tokens[k]) \in Nat
                           /\ At(tokens, k) = At(tokens, k - 1) + Len(tokens[k]) + 5
                           /\ Stands(e, At(tokens, k - 1), EncodeToken(tokens[k]))
  BY <1>1, <1>2, BegunAt
<1>4. Len(s) \in Nat /\ Len(e) \in Nat /\ SizeLimit \in Nat
  BY <1>3, LenProperties, PartIsWide
<1>5. \A p \in 1 .. Len(s) : p <= Len(e) => s[p] = e[p]
  BY DEF Agree
<1>6. n <= count /\ Len(e) < SizeLimit
  OBVIOUS
<1> HIDE DEF e, n
<1>7. 0 \in T
  <2>1. SubSeq(tokens, 1, 0) = <<>>
    BY SubSeqEmpty
  <2>2. At(tokens, 0) <= Len(s)
    BY <1>3
  <2>3. Found(0) = Going(3, <<>>)
    BY <1>3, <2>1, <2>2, Zenon
  <2>4. f[0] = Found(0)
    BY <2>3, Zenon
  <2>5. 0 \in 0 .. n
    BY <1>3
  <2> HIDE DEF Found
  <2> QED
    BY <2>4, <2>5
<1>8. ASSUME NEW k \in 0 .. n - 1, k \in T
      PROVE  k + 1 \in T
  <2>1. k + 1 \in 1 .. n /\ (k + 1) - 1 = k /\ k \in 0 .. n /\ k + 1 \in 0 .. n /\ k + 1 \in 1 .. count
    BY <1>3, <1>6
  <2> DEFINE t == tokens[k + 1]
             at == At(tokens, k)
             next == At(tokens, k + 1)
             taken == SubSeq(tokens, 1, k)
  <2>2. /\ t \in Seq(Wide) /\ Len(t) \in Nat /\ at \in Nat /\ next \in Nat
        /\ next = at + Len(t) + 5 /\ Stands(e, at, EncodeToken(t))
    BY <1>3, <2>1
  <2>3. TokenStep(f, s, k + 1) /\ k \in Nat
    BY <1>3, <2>1
  <2>4. f[k] = Found(k)
    BY <1>8
  <2>5. Len(EncodeToken(t)) = Len(t) + 5
    BY <1>2, <2>2, TokenEncoded, Kinds
  <2> HIDE DEF t, at, next, taken
  <2>6. /\ at + (Len(t) + 5) <= Len(e)
        /\ \A p \in 1 .. Len(t) + 5 : e[at + p] = EncodeToken(t)[p]
    BY <2>2, <2>5 DEF Stands
  <2>7. at + Len(t) + 5 < SizeLimit /\ next <= Len(e)
    BY <1>4, <1>6, <2>2, <2>6
  <2>8. \A p \in 1 .. Len(t) + 5 : at + p <= Len(s) => s[at + p] = EncodeToken(t)[p]
    <3>1. \A p \in 1 .. Len(t) + 5 : at + p \in Nat /\ at + p >= 1 /\ at + p <= Len(e)
      BY <1>4, <2>2, <2>6
    <3>2. \A p \in 1 .. Len(t) + 5 : at + p <= Len(s) => at + p \in 1 .. Len(s)
      BY <1>4, <3>1
    <3> QED
      BY <1>5, <2>6, <3>1, <3>2
  <2>9. CASE next <= Len(s)
    <3>1. at <= Len(s) /\ at + (Len(t) + 5) <= Len(s)
      BY <1>4, <2>2, <2>9
    <3>2. f[k] = Going(at, taken)
      BY <2>4, <3>1 DEF at, taken
    <3>3. f[k + 1] = NextToken(s, at, taken)
      BY <2>3, <3>2, GoesOn
    <3>4. Stands(s, at, EncodeToken(t))
      <4>1. \A p \in 1 .. Len(t) + 5 : at + p <= Len(s)
        BY <1>4, <2>2, <3>1
      <4> QED
        BY <2>5, <2>8, <3>1, <4>1 DEF Stands
    <3>5. f[k + 1] = Going(at + Len(t) + 5, Append(taken, t))
      BY <2>2, <2>7, <3>3, <3>4, NextGood
    <3>6. Append(taken, t) = SubSeq(tokens, 1, k + 1)
      <4>1. k + 1 \in 1 .. Len(tokens)
        BY <2>1 DEF n
      <4> QED
        BY <4>1 DEF t, taken
    <3>7. f[k + 1] = Going(next, SubSeq(tokens, 1, k + 1))
      BY <2>2, <3>5, <3>6
    <3> QED
      BY <2>1, <2>9, <3>7 DEF next
  <2>10. CASE ~ (next <= Len(s))
    <3>1. f[k + 1] = Waiting
      <4>1. CASE at <= Len(s)
        <5>1. f[k] = Going(at, taken)
          BY <2>4, <4>1 DEF at, taken
        <5>2. f[k + 1] = NextToken(s, at, taken)
          BY <2>3, <5>1, GoesOn
        <5>3. Len(s) < at + Len(t) + 5
          BY <1>4, <2>2, <2>10
        <5> QED
          BY <2>2, <2>7, <2>8, <4>1, <5>2, <5>3, NextWaits
      <4>2. CASE ~ (at <= Len(s))
        <5>1. f[k] = Waiting
          BY <2>4, <4>2 DEF at
        <5> QED
          BY <2>3, <5>1, Goes DEF TokenStep
      <4> QED
        BY <4>1, <4>2
    <3> QED
      BY <2>1, <2>10, <3>1 DEF next
  <2> QED
    BY <2>9, <2>10
<1> HIDE DEF T
<1>9. \A k \in 0 .. n : k \in T
  BY <1>3, <1>7, <1>8, Induct
<1> QED
  BY <1>9 DEF T, n

-----------------------------------------------------------------------------
(* One request.                                                             *)

LEMMA SeqIn ==
  ASSUME NEW S, NEW T, S \subseteq T
  PROVE  Seq(S) \subseteq Seq(T)
<1>1. SUFFICES ASSUME NEW s \in Seq(S) PROVE s \in Seq(T)
  OBVIOUS
<1>2. Len(s) \in Nat /\ s = [i \in 1 .. Len(s) |-> s[i]] /\ \A i \in 1 .. Len(s) : s[i] \in T
  BY LenProperties, ElementOfSeq
<1> QED
  BY <1>2, SeqDef

\* A request, or its beginning, at the front.
LEMMA WholeRequest ==
  ASSUME NEW s \in Seq(Wide), NEW r \in Seq(Seq(Wide)), Len(EncodeResp(r)) < SizeLimit,
         Agree(s, EncodeResp(r))
  PROVE  TryExtractResp(s) = IF Len(EncodeResp(r)) <= Len(s) THEN Going(Len(EncodeResp(r)), r)
                                                             ELSE Waiting
<1> DEFINE n == Len(r)
           e == EncodeResp(r)
<1>1. e = Begun(n, r)
  BY DEF EncodeResp, Begun
<1>2. n \in Nat /\ Len(s) \in Nat /\ \A i \in 1 .. n : Len(r[i]) \in Nat
  BY LenProperties, ElementOfSeq
<1>3. /\ e \in Seq(Wide) /\ Len(e) = At(r, n) /\ At(r, 0) = 3
      /\ e[1] = Array(n) /\ e[2] = Cr /\ e[3] = Lf
      /\ \A k \in 0 .. n : At(r, k) \in Nat
      /\ \A k \in 1 .. n : Len(r[k]) \in Nat /\ At(r, k) = At(r, k - 1) + Len(r[k]) + 5
  <2>1. Cr \in Wide /\ Lf \in Wide /\ Array(n) \in Wide /\ \A i \in 1 .. n : Bulk(Len(r[i])) \in Wide
    BY <1>2, Kinds
  <2> QED
    BY <1>1, <1>2, <2>1, BegunAt
<1>4. Len(e) \in Nat /\ 3 <= Len(e)
  <2>1. CASE n = 0
    BY <1>3, <2>1
  <2>2. CASE n # 0
    <3>1. n \in 1 .. n /\ n - 1 \in 0 .. n
      BY <1>2, <2>2
    <3>2. /\ At(r, n) = At(r, n - 1) + Len(r[n]) + 5 /\ At(r, n - 1) \in Nat /\ Len(r[n]) \in Nat
          /\ Len(e) = At(r, n)
      BY <1>3, <3>1
    <3> HIDE DEF e, n
    <3> QED
      BY <3>2
  <2> QED
    BY <2>1, <2>2
<1>5. \A p \in 1 .. Len(s) : p <= Len(e) => s[p] = e[p]
  BY DEF Agree
<1> HIDE DEF e
<1>6. CASE Len(s) < 3
  <2>1. 0 + 1 <= Len(s) => s[0 + 1][1] = "*" /\ s[0 + 1] # Cr
    <3>1. 1 <= Len(s) => s[1] = Array(n)
      BY <1>2, <1>3, <1>4, <1>5
    <3> QED
      BY <3>1, Kinds
  <2>2. LineIncomplete(s, 0, "*")
    <3>1. 0 \in Nat /\ 0 <= Len(s) /\ Len(s) < 0 + 3
      BY <1>2, <1>6
    <3> QED
      BY <2>1, <3>1, CutLine
  <2>3. ~ (Len(e) <= Len(s))
    BY <1>2, <1>4, <1>6
  <2> QED
    BY <2>2, <2>3 DEF TryExtractResp, e
<1>7. CASE 3 <= Len(s)
  <2>1. s[1] = Array(n) /\ s[2] = Cr /\ s[3] = Lf
    <3>1. 1 \in 1 .. Len(s) /\ 2 \in 1 .. Len(s) /\ 3 \in 1 .. Len(s)
          /\ 1 <= Len(e) /\ 2 <= Len(e) /\ 3 <= Len(e)
      BY <1>2, <1>4, <1>7
    <3> QED
      BY <1>3, <1>5, <3>1
  <2>2. ~ LineIncomplete(s, 0, "*") /\ ~ NotSuchLine(s, 0, "*")
    <3>1. /\ 0 \in Nat /\ 0 + 3 <= Len(s)
          /\ s[0 + 1][1] = "*" /\ s[0 + 2] = Cr /\ s[0 + 3] = Lf
      BY <1>7, <2>1, Kinds
    <3> QED
      BY <3>1, WholeLine
  <2>3. TryExtractResp(s) = Tokens(s, n)
    BY <2>1, <2>2, Kinds DEF TryExtractResp
  <2>4. PICK f : /\ Tokens(s, n) = f[n] /\ f[0] = Going(3, <<>>)
                 /\ \A k \in 1 .. n : TokenStep(f, s, k)
    BY <1>2, TokenSteps
  <2>5. f[n] = IF At(r, n) <= Len(s) THEN Going(At(r, n), SubSeq(r, 1, n)) ELSE Waiting
    <3>1. n \in 0 .. n /\ n <= n
      BY <1>2
    <3>2. Agree(s, Begun(n, r)) /\ Len(Begun(n, r)) < SizeLimit
      BY <1>1 DEF e
    <3> QED
      BY <1>2, <1>7, <2>4, <3>1, <3>2, TokensTaken
  <2>6. SubSeq(r, 1, n) = r
    BY SubSeqFull
  <2>7. TryExtractResp(s) = IF Len(e) <= Len(s) THEN Going(Len(e), r) ELSE Waiting
    BY <1>3, <2>3, <2>4, <2>5, <2>6
  <2> QED
    BY <2>7 DEF e
<1> QED
  BY <1>2, <1>6, <1>7

\* What is no beginning of a request, or its beginning, at the front.
LEMMA NoRequest ==
  ASSUME NEW s \in Seq(Wide), NEW tail \in Seq(Wide), Len(s) <= Len(tail), Agree(s, tail),
         Malformed(tail)
  PROVE  /\ TryExtractResp(s) \in {Waiting, Throwing}
         /\ Len(s) = Len(tail) => TryExtractResp(s) = Throwing
<1>1. Len(s) \in Nat /\ Len(tail) \in Nat /\ Len(tail) < SizeLimit
  BY LenProperties DEF Malformed
<1>2. CASE NotSuchLine(tail, 0, "*")
  <2>1. /\ LineIncomplete(s, 0, "*") \/ NotSuchLine(s, 0, "*")
        /\ Len(s) = Len(tail) => ~ LineIncomplete(s, 0, "*")
    BY <1>2, WrongLine
  <2> QED
    BY <2>1 DEF TryExtractResp
<1>3. CASE ~ NotSuchLine(tail, 0, "*")
  <2>1. PICK count \in Size, tokens \in Seq(Seq(Part)) :
          /\ Len(tokens) < count /\ Len(Begun(count, tokens)) <= Len(tail)
          /\ Agree(tail, Begun(count, tokens))
          /\ NoToken(tail, Len(Begun(count, tokens)))
    BY <1>3 DEF Malformed
  <2> DEFINE n == Len(tokens)
             e == Begun(count, tokens)
  <2>2. tokens \in Seq(Seq(Wide)) /\ count \in Nat
    <3>1. Seq(Seq(Part)) \subseteq Seq(Seq(Wide))
      BY PartIsWide, SeqIn
    <3> QED
      BY <2>1, <3>1, PartIsWide
  <2>3. n \in Nat /\ \A i \in 1 .. n : Len(tokens[i]) \in Nat
    BY <2>2, LenProperties, ElementOfSeq
  <2>4. /\ e \in Seq(Wide) /\ Len(e) = At(tokens, n) /\ At(tokens, 0) = 3
        /\ e[1] = Array(count) /\ e[2] = Cr /\ e[3] = Lf
        /\ \A k \in 0 .. n : At(tokens, k) \in Nat
        /\ \A k \in 1 .. n : /\ Len(tokens[k]) \in Nat
                             /\ At(tokens, k) = At(tokens, k - 1) + Len(tokens[k]) + 5
    <3>1. /\ Cr \in Wide /\ Lf \in Wide /\ Array(count) \in Wide
          /\ \A i \in 1 .. n : Bulk(Len(tokens[i])) \in Wide
      BY <2>2, <2>3, Kinds
    <3> QED
      BY <2>2, <3>1, BegunAt
  <2>5. Len(e) \in Nat /\ 3 <= Len(e) /\ Len(e) <= Len(tail)
    <3>1. CASE n = 0
      BY <2>1, <2>4, <3>1
    <3>2. CASE n # 0
      <4>1. n \in 1 .. n /\ n - 1 \in 0 .. n
        BY <2>3, <3>2
      <4>2. /\ At(tokens, n) = At(tokens, n - 1) + Len(tokens[n]) + 5 /\ At(tokens, n - 1) \in Nat
            /\ Len(tokens[n]) \in Nat /\ Len(e) = At(tokens, n) /\ Len(e) <= Len(tail)
        BY <2>1, <2>4, <4>1
      <4> HIDE DEF e, n
      <4> QED
        BY <4>2
    <3> QED
      BY <3>1, <3>2
  <2>6. Agree(s, e)
    <3>1. /\ \A p \in 1 .. Len(s) : s[p] = tail[p] /\ p \in 1 .. Len(tail)
          /\ \A p \in 1 .. Len(tail) : p <= Len(e) => tail[p] = e[p]
      BY <1>1, <2>1 DEF Agree
    <3> QED
      BY <3>1 DEF Agree
  <2>7. n < count /\ NoToken(tail, Len(e)) /\ Len(e) < SizeLimit
    BY <1>1, <2>1, <2>5, PartIsWide
  <2> HIDE DEF e
  <2>8. \A p \in 1 .. Len(s) : p <= Len(e) => s[p] = e[p]
    BY <2>6 DEF Agree
  <2>9. CASE Len(s) < 3
    <3>1. 0 + 1 <= Len(s) => s[0 + 1][1] = "*" /\ s[0 + 1] # Cr
      <4>1. 1 <= Len(s) => s[1] = Array(count)
        BY <1>1, <2>4, <2>5, <2>8
      <4> QED
        BY <4>1, Kinds
    <3>2. LineIncomplete(s, 0, "*")
      <4>1. 0 \in Nat /\ 0 <= Len(s) /\ Len(s) < 0 + 3
        BY <1>1, <2>9
      <4> QED
        BY <3>1, <4>1, CutLine
    <3>3. Len(s) # Len(tail)
      BY <1>1, <2>5, <2>9
    <3> QED
      BY <3>2, <3>3 DEF TryExtractResp
  <2>10. CASE 3 <= Len(s)
    <3>1. s[1] = Array(count) /\ s[2] = Cr /\ s[3] = Lf
      <4>1. 1 \in 1 .. Len(s) /\ 2 \in 1 .. Len(s) /\ 3 \in 1 .. Len(s)
            /\ 1 <= Len(e) /\ 2 <= Len(e) /\ 3 <= Len(e)
        BY <1>1, <2>5, <2>10
      <4> QED
        BY <2>4, <2>8, <4>1
    <3>2. ~ LineIncomplete(s, 0, "*") /\ ~ NotSuchLine(s, 0, "*")
      <4>1. /\ 0 \in Nat /\ 0 + 3 <= Len(s)
            /\ s[0 + 1][1] = "*" /\ s[0 + 2] = Cr /\ s[0 + 3] = Lf
        BY <2>10, <3>1, Kinds
      <4> QED
        BY <4>1, WholeLine
    <3>3. TryExtractResp(s) = Tokens(s, count)
      BY <3>1, <3>2, Kinds DEF TryExtractResp
    <3>4. PICK f : /\ Tokens(s, count) = f[count] /\ f[0] = Going(3, <<>>)
                   /\ \A k \in 1 .. count : TokenStep(f, s, k)
      BY <2>2, TokenSteps
    <3>5. f[n] = IF Len(e) <= Len(s) THEN Going(Len(e), SubSeq(tokens, 1, n)) ELSE Waiting
      <4>1. n \in 0 .. n /\ n <= count
        BY <2>2, <2>3, <2>7
      <4>2. Len(Begun(count, tokens)) < SizeLimit /\ Agree(s, Begun(count, tokens))
        BY <2>6, <2>7 DEF e
      <4>3. f[n] = IF At(tokens, n) <= Len(s) THEN Going(At(tokens, n), SubSeq(tokens, 1, n)) ELSE Waiting
        BY <2>2, <2>10, <3>4, <4>1, <4>2, TokensTaken
      <4> QED
        BY <2>4, <4>3
    <3>6. PICK m \in 0 .. count : /\ f[m] \in {Waiting, Throwing}
                                  /\ Len(s) = Len(tail) => f[m] = Throwing
      <4>1. CASE ~ (Len(e) <= Len(s))
        <5>1. n \in 0 .. count /\ Len(s) # Len(tail)
          BY <1>1, <2>2, <2>3, <2>5, <2>7, <4>1
        <5> QED
          BY <3>5, <4>1, <5>1
      <4>2. CASE Len(e) <= Len(s)
        <5> DEFINE taken == SubSeq(tokens, 1, n)
        <5>1. f[n] = Going(Len(e), taken)
          BY <3>5, <4>2
        <5>2. n + 1 \in 1 .. count /\ n + 1 \in 0 .. count
          BY <2>2, <2>3, <2>7
        <5>3. TokenStep(f, s, n + 1)
          BY <3>4, <5>2
        <5> HIDE DEF taken, n
        <5>4. f[n + 1] = NextToken(s, Len(e), taken)
          BY <2>3, <5>1, <5>3, GoesOn
        <5>5. /\ NextToken(s, Len(e), taken) \in {Waiting, Throwing}
              /\ Len(s) = Len(tail) => NextToken(s, Len(e), taken) = Throwing
          BY <1>1, <2>5, <2>7, <4>2, NextBad
        <5> QED
          BY <5>2, <5>4, <5>5
      <4> QED
        BY <4>1, <4>2
    <3>7. f[count] = f[m]
      <4>1. Done(f[m])
        BY <3>6, Goes
      <4>2. \A k \in 1 .. count : Done(f[k - 1]) => f[k] = f[k - 1]
        BY <3>4 DEF TokenStep
      <4> QED
        BY <2>2, <4>1, <4>2, Settled
    <3> QED
      BY <3>3, <3>4, <3>6, <3>7
  <2> QED
    BY <1>1, <2>9, <2>10
<1> QED
  BY <1>2, <1>3

-----------------------------------------------------------------------------
(* What is taken out of parts of any kind.                                  *)

LEMMA Numbered ==
  ASSUME NEW s \in Seq(Part), NEW at \in Nat, NEW kind \in {"*", "$"},
         ~ LineIncomplete(s, at, kind), ~ NotSuchLine(s, at, kind)
  PROVE  at + 3 <= Len(s) /\ s[at + 1][2] \in Nat
<1>1. Len(s) \in Nat
  BY LenProperties
<1>2. at < Len(s)
  BY <1>1 DEF LineIncomplete
<1>3. s[at + 1][1] = kind /\ LineEnds(s, at + 1)
  BY DEF NotSuchLine
<1>4. at + 3 <= Len(s)
  BY <1>1, <1>3 DEF LineEnds
<1>5. s[at + 1] \in Part
  <2>1. at + 1 \in 1 .. Len(s)
    BY <1>1, <1>2
  <2> QED
    BY <2>1, ElementOfSeq
<1>6. s[at + 1] \in {"*", "$"} \X Size
  BY <1>3, <1>5 DEF Part, Cr, Lf, Byte
<1> QED
  BY <1>4, <1>6, PartIsWide

\* The parser goes on behind the place where it was, with one more token.
Advanced(verdict) ==
  Done(verdict) \/ /\ verdict.cursor \in Nat \ {0}
                   /\ verdict.tokens \in Seq(Seq(Part))

LEMMA NextAdvances ==
  ASSUME NEW s \in Seq(Part), NEW at \in Nat, NEW tokens \in Seq(Seq(Part))
  PROVE  Advanced(NextToken(s, at, tokens))
<1> DEFINE n == s[at + 1][2]
           begin == at + 3
           end == DataEnd(s, begin, n)
           upto == Min({begin + n, Len(s)})
           token == SubSeq(s, begin + 1, upto)
           v == NextToken(s, at, tokens)
<1>1. v \in {Waiting, Throwing} \/ /\ v = Going(end + 2, Append(tokens, token))
                                   /\ ~ LineIncomplete(s, at, "$") /\ ~ NotSuchLine(s, at, "$")
  <2> HIDE DEF upto
  <2> QED
    BY DEF NextToken, upto
<1>2. CASE v \in {Waiting, Throwing}
  BY <1>2, Goes DEF Advanced
<1>3. CASE /\ v = Going(end + 2, Append(tokens, token))
           /\ ~ LineIncomplete(s, at, "$") /\ ~ NotSuchLine(s, at, "$")
  <2>1. at + 3 <= Len(s) /\ n \in Nat
    BY <1>3, Numbered
  <2>2. /\ Len(s) \in Nat /\ SizeLimit \in Nat \ {0}
        /\ begin \in Nat /\ begin + n \in Nat /\ begin <= begin + n
    BY <2>1, LenProperties, PartIsWide
  <2> HIDE DEF begin, n
  <2> DEFINE x == begin + n
  <2>3. end \in Nat
    <3>1. x \in Nat /\ end = x % SizeLimit
      BY <2>2, Zenon DEF DataEnd
    <3> HIDE DEF x
    <3> QED
      BY <2>2, <3>1, Wrapped
  <2>4. upto \in Nat /\ begin <= upto /\ upto <= Len(s)
    <3> DEFINE l == Len(s)
    <3>1. x \in Int /\ l \in Int /\ begin <= x /\ begin <= l /\ begin \in Nat
      BY <2>1, <2>2 DEF begin
    <3>2. upto = Min({x, l})
      OBVIOUS
    <3> HIDE DEF x, l, upto
    <3>3. CASE x <= l
      <4>1. Min({x, l}) = x
        BY <3>1, <3>3, LeastOfTwo
      <4> QED
        BY <3>1, <3>2, <3>3, <4>1 DEF l
    <3>4. CASE l <= x
      <4>1. Min({l, x}) = l
        BY <3>1, <3>4, LeastOfTwo
      <4>2. {l, x} = {x, l}
        OBVIOUS
      <4>3. upto = l
        BY <3>2, <4>1, <4>2
      <4> QED
        BY <3>1, <3>4, <4>3 DEF l
    <3> QED
      BY <3>1, <3>3, <3>4
  <2> HIDE DEF upto, begin, end
  <2>5. token \in Seq(Part)
    BY <2>2, <2>4, Cutting
  <2>6. Append(tokens, token) \in Seq(Seq(Part))
    BY <2>5, AppendProperties
  <2> HIDE DEF token, v
  <2>7. v.cursor = end + 2 /\ v.tokens = Append(tokens, token)
    BY <1>3, Goes
  <2>8. end + 2 \in Nat \ {0}
    BY <2>3
  <2>10. v.cursor \in Nat \ {0} /\ v.tokens \in Seq(Seq(Part))
    BY <2>6, <2>7, <2>8
  <2> QED
    BY <2>10 DEF Advanced, v
<1> QED
  BY <1>1, <1>2, <1>3

LEMMA ExtractAdvances ==
  ASSUME NEW s \in Seq(Part)
  PROVE  Advanced(TryExtractResp(s)) /\ (~ Done(TryExtractResp(s)) => Len(s) # 0)
<1>1. CASE LineIncomplete(s, 0, "*") \/ NotSuchLine(s, 0, "*")
  BY <1>1, Goes DEF TryExtractResp, Advanced
<1>2. CASE ~ LineIncomplete(s, 0, "*") /\ ~ NotSuchLine(s, 0, "*")
  <2> DEFINE n == s[1][2]
  <2>1. 3 <= Len(s) /\ n \in Nat
    <3>1. 0 \in Nat /\ 0 + 3 <= Len(s) /\ s[0 + 1][2] \in Nat
      BY <1>2, Numbered
    <3> QED
      BY <3>1
  <2>2. TryExtractResp(s) = Tokens(s, n)
    BY <1>2 DEF TryExtractResp
  <2> HIDE DEF n
  <2>3. PICK f : /\ Tokens(s, n) = f[n] /\ f[0] = Going(3, <<>>)
                 /\ \A k \in 1 .. n : TokenStep(f, s, k)
    BY <2>1, TokenSteps
  <2> DEFINE T == {k \in 0 .. n : Advanced(f[k])}
  <2>4. 0 \in T
    <3>1. <<>> \in Seq(Seq(Part)) /\ 3 \in Nat \ {0}
      BY EmptySeq
    <3> DEFINE v == f[0]
    <3>2. v = Going(3, <<>>)
      BY <2>3
    <3> HIDE DEF v
    <3>3. v.cursor = 3 /\ v.tokens = <<>>
      BY <3>2, Goes
    <3>4. Advanced(v)
      BY <3>1, <3>3 DEF Advanced
    <3> QED
      BY <2>1, <3>4 DEF v
  <2>5. ASSUME NEW k \in 0 .. n - 1, k \in T
        PROVE  k + 1 \in T
    <3>1. k + 1 \in 1 .. n /\ (k + 1) - 1 = k /\ k + 1 \in 0 .. n
      BY <2>1
    <3>2. TokenStep(f, s, k + 1)
      BY <2>3, <3>1
    <3> DEFINE v == f[k]
    <3>3. f[k + 1] = IF Done(v) THEN v ELSE NextToken(s, v.cursor, v.tokens)
      BY <3>1, <3>2, Zenon DEF TokenStep
    <3>4. Advanced(v)
      BY <2>5
    <3> HIDE DEF v
    <3>5. Advanced(f[k + 1])
      <4>1. CASE Done(v)
        BY <3>3, <3>4, <4>1
      <4>2. CASE ~ Done(v)
        <5>1. v.cursor \in Nat /\ v.tokens \in Seq(Seq(Part))
          BY <3>4, <4>2 DEF Advanced
        <5> QED
          BY <3>3, <4>2, <5>1, NextAdvances
      <4> QED
        BY <4>1, <4>2
    <3> QED
      BY <3>1, <3>5
  <2> HIDE DEF T
  <2>6. \A k \in 0 .. n : k \in T
    BY <2>1, <2>4, <2>5, Induct
  <2>7. Advanced(f[n])
    <3>1. n \in 0 .. n
      BY <2>1
    <3> QED
      BY <2>6, <3>1 DEF T
  <2> QED
    BY <2>1, <2>2, <2>3, <2>7
<1> QED
  BY <1>1, <1>2

-----------------------------------------------------------------------------
(* Many requests.                                                           *)

\* f gives what ExtractRequests has done after each request.
Taken(verdict, rest, list) == [then |-> verdict.then, rest |-> rest, requests |-> list]
ExtractStep(f, k) ==
  f[k] = LET before == f[k - 1]
             next   == TryExtractResp(before.rest)
         IN IF before.then # "go on" THEN before
            ELSE IF next.then # "go on" THEN [before EXCEPT !.then = next.then]
            ELSE [before EXCEPT !.rest = Erased(before.rest, next.cursor),
                                !.requests = Append(@, next.tokens)]
ExtractRun(f, s, n) ==
  f = [k \in 0 .. n |->
        IF k = 0 THEN [then |-> "go on", rest |-> s, requests |-> <<>>]
        ELSE LET before == f[k - 1]
                 next   == TryExtractResp(before.rest)
             IN IF before.then # "go on" THEN before
                ELSE IF next.then # "go on" THEN [before EXCEPT !.then = next.then]
                ELSE [before EXCEPT !.rest = Erased(before.rest, next.cursor),
                                    !.requests = Append(@, next.tokens)]]

LEMMA ExtractRunExists ==
  ASSUME NEW n \in Nat, NEW s
  PROVE  \E f : ExtractRun(f, s, n)
<1> DEFINE T == {m \in Nat : \E f : ExtractRun(f, s, m)}
<1>1. 0 \in T
  <2>1. ExtractRun([k \in 0 .. 0 |-> [then |-> "go on", rest |-> s, requests |-> <<>>]], s, 0)
    BY DEF ExtractRun
  <2> QED
    BY <2>1
<1>2. ASSUME NEW m \in 0 .. n - 1, m \in T
      PROVE  m + 1 \in T
  <2>1. PICK f : ExtractRun(f, s, m)
    BY <1>2
  <2> DEFINE After(before) ==
               LET next == TryExtractResp(before.rest)
               IN IF before.then # "go on" THEN before
                  ELSE IF next.then # "go on" THEN [before EXCEPT !.then = next.then]
                  ELSE [before EXCEPT !.rest = Erased(before.rest, next.cursor),
                                      !.requests = Append(@, next.tokens)]
             F(h, k) == IF k = 0 THEN [then |-> "go on", rest |-> s, requests |-> <<>>]
                                 ELSE After(h[k - 1])
             g == [k \in 0 .. m + 1 |-> F(f, k)]
  <2>2. \A k \in 0 .. m : f[k] = F(f, k)
    <3>1. f = [k \in 0 .. m |-> F(f, k)]
      BY <2>1, Zenon DEF ExtractRun
    <3> HIDE DEF F
    <3> QED
      BY <3>1
  <2> HIDE DEF After
  <2>3. \A k \in 0 .. m : k \in 0 .. m + 1
    OBVIOUS
  <2>4. \A k \in 0 .. m : g[k] = f[k]
    <3> HIDE DEF F
    <3> QED
      BY <2>2, <2>3
  <2>5. \A k \in 0 .. m + 1 : k # 0 => k - 1 \in 0 .. m
    OBVIOUS
  <2>6. \A k \in 0 .. m + 1 : F(f, k) = F(g, k)
    <3> HIDE DEF g
    <3> QED
      BY <2>4, <2>5
  <2>7. ExtractRun(g, s, m + 1)
    <3>1. g = [k \in 0 .. m + 1 |-> F(g, k)]
      <4> HIDE DEF F
      <4> QED
        BY <2>6
    <3> HIDE DEF g
    <3> QED
      BY <3>1, Zenon DEF ExtractRun, After
  <2>8. m + 1 \in Nat
    OBVIOUS
  <2> HIDE DEF g
  <2> QED
    BY <2>7, <2>8
<1> HIDE DEF T
<1>3. n \in T
  BY <1>1, <1>2, Induct
<1> QED
  BY <1>3 DEF T

LEMMA ExtractSteps ==
  ASSUME NEW s \in Seq(Part)
  PROVE  \E f : /\ ExtractRequests(s) = f[Len(s)] /\ f[0] = Taken(Going(3, <<>>), s, <<>>)
                /\ \A k \in 1 .. Len(s) : ExtractStep(f, k)
<1> DEFINE n == Len(s)
           f == CHOOSE f : ExtractRun(f, s, n)
<1>1. n \in Nat
  BY LenProperties
<1>2. ExtractRun(f, s, n)
  BY <1>1, ExtractRunExists
<1>3. ExtractRequests(s) = f[n]
  BY Zenon DEF ExtractRequests, ExtractRun
<1> HIDE DEF f
<1>4. 0 \in 0 .. n /\ \A k \in 1 .. n : k \in 0 .. n /\ k # 0
  BY <1>1
<1> HIDE DEF n
<1>5. f[0] = Taken(Going(3, <<>>), s, <<>>)
  <2>1. f[0] = [then |-> "go on", rest |-> s, requests |-> <<>>]
    BY <1>2, <1>4 DEF ExtractRun
  <2>2. Going(3, <<>>).then = "go on"
    BY Verdicts
  <2> QED
    BY <2>1, <2>2, Zenon DEF Taken
<1>6. \A k \in 1 .. n : ExtractStep(f, k)
  BY <1>2, <1>4 DEF ExtractRun, ExtractStep
<1> QED
  BY <1>3, <1>5, <1>6 DEF n

LEMMA KeepStep ==
  ASSUME NEW f, NEW k \in Int, ExtractStep(f, k), Done(f[k - 1])
  PROVE  f[k] = f[k - 1]
<1> DEFINE v == f[k - 1]
<1>1. v.then # "go on"
  BY DEF Done
<1>2. f[k] = v
  BY <1>1, Zenon DEF ExtractStep
<1> QED
  BY <1>2

LEMMA TakeStep ==
  ASSUME NEW f, NEW k \in Nat, ExtractStep(f, k + 1),
         NEW verdict, NEW rest, NEW list, f[k] = Taken(verdict, rest, list), ~ Done(verdict)
  PROVE  LET next == TryExtractResp(rest)
         IN f[k + 1] = IF Done(next) THEN Taken(next, rest, list)
                       ELSE Taken(next, Erased(rest, next.cursor), Append(list, next.tokens))
<1> DEFINE v == f[k]
           next == TryExtractResp(rest)
<1>1. (k + 1) - 1 = k
  OBVIOUS
<1>2. f[k + 1] = LET new == TryExtractResp(v.rest)
                 IN IF v.then # "go on" THEN v
                    ELSE IF new.then # "go on" THEN [v EXCEPT !.then = new.then]
                    ELSE [v EXCEPT !.rest = Erased(v.rest, new.cursor),
                                   !.requests = Append(@, new.tokens)]
  BY <1>1, Zenon DEF ExtractStep
<1> DEFINE now == verdict.then
<1>3. v = [then |-> now, rest |-> rest, requests |-> list]
  BY Zenon DEF Taken
<1>4. now = "go on"
  BY Zenon DEF Done
<1> HIDE DEF v, now, next
<1>5. v.then = now /\ v.rest = rest /\ v.requests = list
  BY <1>3
<1>6. f[k + 1] = IF Done(next) THEN [v EXCEPT !.then = next.then]
                 ELSE [v EXCEPT !.rest = Erased(rest, next.cursor),
                                !.requests = Append(@, next.tokens)]
  BY <1>2, <1>5, <1>4, Zenon DEF Done, next
<1>7. [v EXCEPT !.then = next.then] = Taken(next, rest, list)
  <2> DEFINE x == next.then
  <2> HIDE DEF x
  <2>1. [v EXCEPT !.then = x] = [then |-> x, rest |-> rest, requests |-> list]
    BY <1>3
  <2> QED
    BY <2>1, Zenon DEF Taken, x
<1>8. ~ Done(next) =>
        [v EXCEPT !.rest = Erased(rest, next.cursor), !.requests = Append(@, next.tokens)]
          = Taken(next, Erased(rest, next.cursor), Append(list, next.tokens))
  <2> DEFINE r == Erased(rest, next.cursor)
             t == next.tokens
             l == Append(list, t)
             w == [v EXCEPT !.rest = r]
  <2> HIDE DEF r, t
  <2>1. w = [then |-> now, rest |-> r, requests |-> list] /\ w.requests = list
    BY <1>3
  <2>2. [v EXCEPT !.rest = r, !.requests = Append(@, t)] = [w EXCEPT !.requests = l]
    BY <1>3, <2>1
  <2> HIDE DEF w, l
  <2>3. [w EXCEPT !.requests = l] = [then |-> now, rest |-> r, requests |-> l]
    BY <2>1
  <2>4. ~ Done(next) => next.then = now
    BY <1>4, Zenon DEF Done
  <2>5. ~ Done(next) => Taken(next, r, l) = [then |-> now, rest |-> r, requests |-> l]
    BY <2>4, Zenon DEF Taken
  <2> QED
    BY <2>2, <2>3, <2>5, Zenon DEF r, t, l
<1> QED
  BY <1>6, <1>7, <1>8, Zenon DEF next

LEMMA StillDone ==
  ASSUME NEW verdict, NEW rest, NEW list
  PROVE  Done(Taken(verdict, rest, list)) <=> Done(verdict)
<1> DEFINE then == verdict.then
<1> HIDE DEF then
<1>1. [then |-> then, rest |-> rest, requests |-> list].then = then
  OBVIOUS
<1> QED
  BY <1>1, Zenon DEF Done, Taken, then

LEMMA ErasedBehind ==
  ASSUME NEW s \in Seq(Part), NEW cursor \in Nat
  PROVE  /\ Erased(s, cursor) \in Seq(Part)
         /\ cursor <= Len(s) =>
              /\ Len(Erased(s, cursor)) = Len(s) - cursor
              /\ \A p \in 1 .. Len(s) - cursor : Erased(s, cursor)[p] = s[cursor + p]
         /\ cursor > Len(s) => Len(Erased(s, cursor)) = 0
<1>1. Len(s) \in Nat
  BY LenProperties
<1>2. CASE cursor <= Len(s)
  <2>1. LET t == SubSeq(s, cursor + 1, Len(s))
        IN t \in Seq(Part) /\ Len(t) = Len(s) - cursor
           /\ \A p \in 1 .. Len(s) - cursor : t[p] = s[cursor + p]
    BY <1>1, <1>2, Cutting
  <2> QED
    BY <1>1, <1>2, <2>1 DEF Erased
<1>3. CASE cursor > Len(s)
  <2>1. SubSeq(s, cursor + 1, Len(s)) = <<>>
    BY <1>1, <1>3, SubSeqEmpty
  <2>2. <<>> \in Seq(Part) /\ Len(<<>>) = 0
    BY EmptySeq
  <2> QED
    BY <1>1, <1>3, <2>1, <2>2 DEF Erased
<1> QED
  BY <1>1, <1>2, <1>3

\* Each request takes at least one part.
LEMMA ExtractTypes ==
  ASSUME NEW s \in Seq(Part)
  PROVE  \E verdict : \E rest \in Seq(Part), list \in Seq(Seq(Seq(Part))) :
           /\ ExtractRequests(s) = Taken(verdict, rest, list)
           /\ Len(rest) + Len(list) <= Len(s)
<1> DEFINE n == Len(s)
           Fits(v) == \E verdict : \E rest \in Seq(Part), list \in Seq(Seq(Seq(Part))) :
                        v = Taken(verdict, rest, list) /\ Len(rest) + Len(list) <= n
<1>1. n \in Nat
  BY LenProperties
<1>2. PICK f : /\ ExtractRequests(s) = f[n] /\ f[0] = Taken(Going(3, <<>>), s, <<>>)
               /\ \A k \in 1 .. n : ExtractStep(f, k)
  BY ExtractSteps
<1> DEFINE T == {k \in 0 .. n : Fits(f[k])}
<1>3. 0 \in T
  <2>1. <<>> \in Seq(Seq(Seq(Part))) /\ Len(<<>>) = 0 /\ n + 0 <= n
    BY <1>1, EmptySeq
  <2>2. Len(s) + Len(<<>>) <= n
    BY <2>1
  <2>3. Fits(f[0])
    <3>1. f[0] = Taken(Going(3, <<>>), s, <<>>)
      BY <1>2
    <3> DEFINE v == f[0]
               none == <<>>
    <3>2. v = Taken(Going(3, <<>>), s, none) /\ none \in Seq(Seq(Seq(Part))) /\ Len(s) + Len(none) <= n
      BY <2>1, <2>2, <3>1
    <3> HIDE DEF n, v, none
    <3>3. Fits(v)
      BY <3>2
    <3> QED
      BY <3>3 DEF v
  <2> QED
    BY <1>1, <2>3
<1> HIDE DEF n
<1>4. ASSUME NEW k \in 0 .. n - 1, k \in T
      PROVE  k + 1 \in T
  <2>1. k + 1 \in 1 .. n /\ k \in Nat /\ k + 1 \in 0 .. n
    BY <1>1
  <2>2. ExtractStep(f, k + 1)
    BY <1>2, <2>1
  <2>0. PICK verdict : \E rest \in Seq(Part), list \in Seq(Seq(Seq(Part))) :
                      f[k] = Taken(verdict, rest, list) /\ Len(rest) + Len(list) <= n
    BY <1>4
  <2>3. PICK rest \in Seq(Part), list \in Seq(Seq(Seq(Part))) :
          f[k] = Taken(verdict, rest, list) /\ Len(rest) + Len(list) <= n
    BY <2>0
  <2> DEFINE next == TryExtractResp(rest)
  <2>4. ~ Done(verdict) =>
          f[k + 1] = IF Done(next) THEN Taken(next, rest, list)
                     ELSE Taken(next, Erased(rest, next.cursor), Append(list, next.tokens))
    BY <2>1, <2>2, <2>3, TakeStep
  <2>5. Advanced(next) /\ (~ Done(next) => Len(rest) # 0)
    BY ExtractAdvances
  <2> HIDE DEF next
  <2>6. Fits(f[k + 1])
    <3>1. CASE Done(verdict)
      <4>1. Done(f[k]) /\ (k + 1) - 1 = k /\ k + 1 \in Int
        BY <2>1, <2>3, <3>1, StillDone
      <4>2. f[k + 1] = f[k]
        BY <2>2, <4>1, KeepStep
      <4> QED
        BY <2>3, <4>2
    <3>2. CASE ~ Done(verdict) /\ Done(next)
      BY <2>3, <2>4, <3>2
    <3>3. CASE ~ Done(verdict) /\ ~ Done(next)
      <4> DEFINE r == Erased(rest, next.cursor)
                 l == Append(list, next.tokens)
      <4>1. next.cursor \in Nat \ {0} /\ next.tokens \in Seq(Seq(Part)) /\ Len(rest) # 0
        BY <2>5, <3>3 DEF Advanced
      <4>2. l \in Seq(Seq(Seq(Part))) /\ Len(l) = Len(list) + 1 /\ Len(list) \in Nat
        BY <4>1, AppendProperties, LenProperties
      <4>3. r \in Seq(Part) /\ Len(rest) \in Nat /\ Len(r) \in Nat /\ Len(r) <= Len(rest) - 1
        <5> DEFINE c == next.cursor
        <5>1. c \in Nat \ {0} /\ Len(rest) \in Nat /\ Len(rest) # 0
          BY <4>1, LenProperties
        <5> HIDE DEF c
        <5>2. /\ Erased(rest, c) \in Seq(Part)
              /\ c <= Len(rest) => Len(Erased(rest, c)) = Len(rest) - c
              /\ c > Len(rest) => Len(Erased(rest, c)) = 0
          BY <5>1, ErasedBehind
        <5>3. Len(Erased(rest, c)) \in Nat /\ Len(Erased(rest, c)) <= Len(rest) - 1
          BY <5>1, <5>2
        <5> QED
          BY <5>1, <5>2, <5>3 DEF c
      <4>4. f[k + 1] = Taken(next, r, l)
        BY <2>4, <3>3
      <4> HIDE DEF r, l
      <4>5. Len(r) + Len(l) <= n
        BY <1>1, <2>3, <4>2, <4>3
      <4> QED
        BY <4>2, <4>3, <4>4, <4>5
    <3> QED
      BY <3>1, <3>2, <3>3
  <2> QED
    BY <2>1, <2>6
<1> HIDE DEF T
<1>5. \A k \in 0 .. n : k \in T
  BY <1>1, <1>3, <1>4, Induct
<1>6. Fits(f[n])
  <2>1. n \in 0 .. n
    BY <1>1
  <2> QED
    BY <1>5, <2>1 DEF T
<1> QED
  BY <1>2, <1>6 DEF n

\* Requests that stand at the front, one behind the other, are all taken.
LEMMA ExtractAll ==
  ASSUME NEW s \in Seq(Part), NEW S, NEW list \in Seq(S), Len(list) < Len(s),
         NEW rest, rest[0] = s, Done(TryExtractResp(rest[Len(list)])),
         \A k \in 0 .. Len(list) - 1 :
           /\ ~ Done(TryExtractResp(rest[k]))
           /\ TryExtractResp(rest[k]).tokens = list[k + 1]
           /\ Erased(rest[k], TryExtractResp(rest[k]).cursor) = rest[k + 1]
  PROVE  ExtractRequests(s)
           = Taken(TryExtractResp(rest[Len(list)]), rest[Len(list)], list)
<1> DEFINE n == Len(s)
           m == Len(list)
           Try(k) == TryExtractResp(rest[k])
<1>1. n \in Nat /\ m \in Nat /\ m < n
  BY LenProperties
<1>2. PICK f : /\ ExtractRequests(s) = f[n] /\ f[0] = Taken(Going(3, <<>>), s, <<>>)
               /\ \A k \in 1 .. n : ExtractStep(f, k)
  BY ExtractSteps
<1>3. /\ Done(Try(m))
      /\ \A k \in 0 .. m - 1 : /\ ~ Done(Try(k)) /\ Try(k).tokens = list[k + 1]
                               /\ Erased(rest[k], Try(k).cursor) = rest[k + 1]
  OBVIOUS
<1> DEFINE T == {k \in 0 .. m : \E v : /\ ~ Done(v)
                                         /\ f[k] = Taken(v, rest[k], SubSeq(list, 1, k))}
<1>4. 0 \in T
  <2>1. SubSeq(list, 1, 0) = <<>>
    BY SubSeqEmpty
  <2>2. f[0] = Taken(Going(3, <<>>), rest[0], SubSeq(list, 1, 0)) /\ ~ Done(Going(3, <<>>))
    BY <1>2, <2>1, Goes
  <2> QED
    BY <1>1, <2>2
<1>5. ASSUME NEW k \in 0 .. m - 1, k \in T
      PROVE  k + 1 \in T
  <2> DEFINE l == SubSeq(list, 1, k)
  <2>1. k + 1 \in 1 .. n /\ k \in Nat /\ k + 1 \in 0 .. m /\ k + 1 \in 1 .. m
    BY <1>1
  <2>2. ExtractStep(f, k + 1)
    BY <1>2, <2>1
  <2>3. PICK v : ~ Done(v) /\ f[k] = Taken(v, rest[k], l)
    BY <1>5
  <2>4. Append(l, list[k + 1]) = SubSeq(list, 1, k + 1)
    BY <2>1
  <2> DEFINE r == rest[k]
             next == TryExtractResp(r)
  <2>5. ~ Done(next) /\ next.tokens = list[k + 1] /\ Erased(r, next.cursor) = rest[k + 1]
    BY <1>3
  <2>6. f[k] = Taken(v, r, l)
    BY <2>3
  <2> HIDE DEF r, l
  <2>7. f[k + 1] = IF Done(next) THEN Taken(next, r, l)
                   ELSE Taken(next, Erased(r, next.cursor), Append(l, next.tokens))
    BY <2>1, <2>2, <2>3, <2>6, TakeStep
  <2> HIDE DEF next
  <2>8. f[k + 1] = Taken(next, rest[k + 1], SubSeq(list, 1, k + 1))
    BY <2>4, <2>5, <2>7
  <2> QED
    BY <2>1, <2>5, <2>8
<1> HIDE DEF T
<1>6. \A k \in 0 .. m : k \in T
  BY <1>1, <1>4, <1>5, Induct
<1>7. PICK v : ~ Done(v) /\ f[m] = Taken(v, rest[m], list)
  <2>1. m \in 0 .. m /\ SubSeq(list, 1, m) = list
    BY <1>1, SubSeqFull
  <2> QED
    BY <1>6, <2>1 DEF T
<1>8. f[m + 1] = Taken(Try(m), rest[m], list)
  <2> DEFINE r == rest[m]
             next == TryExtractResp(r)
  <2>1. m + 1 \in 1 .. n
    BY <1>1
  <2>2. ExtractStep(f, m + 1)
    BY <1>2, <2>1
  <2>3. f[m] = Taken(v, r, list) /\ Done(next)
    BY <1>3, <1>7
  <2> HIDE DEF r, m
  <2>4. f[m + 1] = IF Done(next) THEN Taken(next, r, list)
                   ELSE Taken(next, Erased(r, next.cursor), Append(list, next.tokens))
    BY <1>1, <1>7, <2>2, <2>3, TakeStep
  <2> HIDE DEF next
  <2>5. f[m + 1] = Taken(next, r, list)
    BY <2>3, <2>4
  <2> QED
    BY <2>5 DEF next, r
<1> HIDE DEF m, n
<1>9. f[n] = f[m + 1]
  <2>1. Done(f[m + 1])
    <3> HIDE DEF Try
    <3> QED
      BY <1>3, <1>8, StillDone
  <2>2. \A k \in 1 .. n : Done(f[k - 1]) => f[k] = f[k - 1]
    BY <1>2, KeepStep
  <2>3. m + 1 \in 0 .. n
    BY <1>1
  <2> QED
    BY <1>1, <2>1, <2>2, <2>3, Settled
<1> QED
  BY <1>2, <1>8, <1>9 DEF m, n

-----------------------------------------------------------------------------
(* The stream of a client.                                                  *)

LEMMA RequestParts ==
  ASSUME NEW r \in Seq(Seq(Part)), Len(EncodeResp(r)) < SizeLimit
  PROVE  /\ r \in Seq(Seq(Wide)) /\ EncodeResp(r) \in Seq(Part)
         /\ Len(EncodeResp(r)) \in Nat /\ 3 <= Len(EncodeResp(r))
<1> DEFINE n == Len(r)
           e == EncodeResp(r)
<1>1. r \in Seq(Seq(Wide))
  <2>1. Seq(Seq(Part)) \subseteq Seq(Seq(Wide))
    BY PartIsWide, SeqIn
  <2> QED
    BY <2>1
<1>2. n \in Nat /\ \A i \in 1 .. n : Len(r[i]) \in Nat
  BY LenProperties, ElementOfSeq
<1>3. e = Begun(n, r)
  BY DEF EncodeResp, Begun
<1>4. /\ e \in Seq(Wide) /\ Len(e) = At(r, n) /\ At(r, 0) = 3
      /\ \A k \in 0 .. n : At(r, k) \in Nat
      /\ \A k \in 1 .. n : At(r, k) = At(r, k - 1) + Len(r[k]) + 5
  <2>1. Cr \in Wide /\ Lf \in Wide /\ Array(n) \in Wide /\ \A i \in 1 .. n : Bulk(Len(r[i])) \in Wide
    BY <1>2, Kinds
  <2> QED
    BY <1>1, <1>2, <1>3, <2>1, BegunAt
<1>5. SizeLimit \in Nat /\ At(r, n) < SizeLimit
  BY <1>4, PartIsWide
<1> HIDE DEF e
<1> DEFINE T == {k \in 0 .. n : k + 3 <= At(r, k) /\ \A i \in 1 .. k : Len(r[i]) <= At(r, k)}
<1>6. 0 \in T
  BY <1>2, <1>4
<1>7. ASSUME NEW k \in 0 .. n - 1, k \in T
      PROVE  k + 1 \in T
  <2>1. k + 1 \in 1 .. n /\ (k + 1) - 1 = k /\ k + 1 \in 0 .. n /\ k \in 0 .. n
    BY <1>2
  <2> DEFINE x == At(r, k)
             y == At(r, k + 1)
             l == Len(r[k + 1])
  <2>2. y = x + l + 5 /\ x \in Nat /\ y \in Nat /\ l \in Nat /\ k \in Nat
    BY <1>2, <1>4, <2>1
  <2>3. k + 3 <= x /\ \A i \in 1 .. k : Len(r[i]) <= x
    BY <1>7
  <2> HIDE DEF x, y, l
  <2>4. (k + 1) + 3 <= y /\ l <= y /\ x <= y
    BY <2>2, <2>3
  <2>5. \A i \in 1 .. k + 1 : Len(r[i]) <= y
    <3>1. ASSUME NEW i \in 1 .. k + 1
          PROVE  Len(r[i]) <= y
      <4>1. CASE i = k + 1
        BY <2>4, <4>1 DEF l
      <4>2. CASE i # k + 1
        <5> DEFINE z == Len(r[i])
        <5>1. i \in 1 .. k /\ i \in 1 .. n
          BY <1>2, <2>2, <4>2
        <5>2. z \in Nat /\ z <= x
          BY <1>2, <2>3, <5>1
        <5> HIDE DEF z
        <5>3. z <= y
          BY <2>2, <2>4, <5>2
        <5> QED
          BY <5>3 DEF z
      <4> QED
        BY <4>1, <4>2
    <3> QED
      BY <3>1
  <2> QED
    BY <2>1, <2>4, <2>5 DEF y
<1> HIDE DEF T
<1>8. n \in T
  <2> HIDE DEF n
  <2>1. \A k \in 0 .. n : k \in T
    BY <1>2, <1>6, <1>7, Induct
  <2> QED
    BY <1>2, <2>1
<1>9. n + 3 <= At(r, n) /\ \A i \in 1 .. n : Len(r[i]) <= At(r, n)
  BY <1>8 DEF T
<1> HIDE DEF n
<1>10. n \in Size /\ \A i \in 1 .. n : Len(r[i]) \in Size
  <2> DEFINE x == At(r, n)
  <2>1. x < SizeLimit /\ n + 3 <= x /\ x \in Int
    BY <1>2, <1>4, <1>5, <1>9
  <2>2. \A i \in 1 .. n : Len(r[i]) <= x
    BY <1>9
  <2> HIDE DEF x
  <2>3. n \in 0 .. SizeLimit - 1
    BY <1>2, <1>5, <2>1
  <2>4. ASSUME NEW i \in 1 .. n
        PROVE  Len(r[i]) \in 0 .. SizeLimit - 1
    <3> DEFINE z == Len(r[i])
    <3>1. z \in Nat /\ z <= x
      BY <1>2, <2>2
    <3> HIDE DEF z
    <3>2. z \in 0 .. SizeLimit - 1
      BY <1>5, <2>1, <3>1
    <3> QED
      BY <3>2 DEF z
  <2> QED
    BY <2>3, <2>4 DEF Size
<1>11. e \in Seq(Part)
  <2>1. Cr \in Part /\ Lf \in Part /\ Array(n) \in Part
    BY <1>10 DEF Part, Array
  <2>2. \A i \in 1 .. n : Bulk(Len(r[i])) \in Part
    BY <1>10 DEF Part, Bulk
  <2>3. Begun(n, r) \in Seq(Part)
    BY <1>2, <2>1, <2>2, BegunAt DEF n
  <2> QED
    BY <1>3, <2>3
<1>12. Len(e) \in Nat /\ 3 <= Len(e)
  <2>1. Len(e) \in Nat /\ n + 3 <= Len(e) /\ n \in Nat
    BY <1>2, <1>4, <1>9, LenProperties
  <2> QED
    BY <2>1
<1> QED
  BY <1>1, <1>11, <1>12 DEF e

\* Where the requests of a client end.
Offset(q, k) == Len(EncodeAll(SubSeq(q.requests, 1, k)))
Whole(q)     == EncodeAll(q.requests) \o q.tail

LEMMA StreamParts ==
  ASSUME NEW q \in Sent
  PROVE  LET n == Len(q.requests)
             st == Whole(q)
         IN /\ n \in Nat /\ q.requests \in Seq(Seq(Seq(Part))) /\ q.tail \in Seq(Part)
            /\ st \in Seq(Part) /\ Len(st) \in Nat /\ Len(q.tail) \in Nat
            /\ Len(st) = Offset(q, n) + Len(q.tail) /\ Offset(q, 0) = 0
            /\ Stands(st, Offset(q, n), q.tail)
            /\ \A k \in 0 .. n : Offset(q, k) \in Nat
            /\ \A k \in 1 .. n :
                 LET e == EncodeResp(q.requests[k])
                 IN /\ q.requests[k] \in Seq(Seq(Wide)) /\ e \in Seq(Part)
                    /\ Len(e) \in Nat /\ 3 <= Len(e) /\ Len(e) < SizeLimit
                    /\ Offset(q, k) = Offset(q, k - 1) + Len(e)
                    /\ Stands(st, Offset(q, k - 1), e)
<1> DEFINE n == Len(q.requests)
           rs == q.requests
           tail == q.tail
           ss == [i \in 1 .. n |-> EncodeResp(rs[i])]
           all == FlattenSeq(ss)
           st == all \o tail
<1>1. rs \in Seq(Seq(Seq(Part))) /\ tail \in Seq(Part)
  BY RequestCodecAssumption
<1>2. n \in Nat /\ Len(tail) \in Nat
  BY <1>1, LenProperties
<1>3. \A i \in 1 .. n : rs[i] \in Seq(Seq(Part)) /\ Len(EncodeResp(rs[i])) < SizeLimit
  BY <1>1, ElementOfSeq, FitsAssumption
<1>4. Whole(q) = st
  BY DEF Whole, EncodeAll
<1> HIDE DEF tail
<1>5. \A i \in 1 .. n : /\ rs[i] \in Seq(Seq(Wide)) /\ EncodeResp(rs[i]) \in Seq(Part)
                        /\ Len(EncodeResp(rs[i])) \in Nat /\ 3 <= Len(EncodeResp(rs[i]))
  BY <1>3, RequestParts
<1>6. ss \in Seq(Seq(Part)) /\ Len(ss) = n /\ \A i \in 1 .. n : ss[i] = EncodeResp(rs[i])
  <2>1. ss \in Seq(Seq(Part)) /\ Len(ss) = n
    BY <1>2, <1>5
  <2> QED
    BY <2>1
<1>7. \A k \in 0 .. n : Offset(q, k) = Len(First(ss, k))
  <2>1. ASSUME NEW k \in 0 .. n
        PROVE  Offset(q, k) = Len(First(ss, k))
    <3> DEFINE front == SubSeq(rs, 1, k)
               u == [i \in 1 .. Len(front) |-> EncodeResp(front[i])]
               w == SubSeq(ss, 1, k)
    <3>1. 0 \in Nat /\ k \in Nat /\ 0 <= k /\ k <= n /\ 0 + 1 = 1 /\ k - 0 = k
          /\ \A p \in 1 .. k : 0 + p = p
      BY <1>2
    <3>2. Len(front) = k /\ \A p \in 1 .. k : front[p] = rs[p]
      BY <1>1, <3>1, Cutting
    <3>3. w \in Seq(Seq(Part)) /\ Len(w) = k /\ \A p \in 1 .. k : w[p] = ss[p]
      <4> HIDE DEF ss
      <4> QED
        BY <1>6, <3>1, Cutting
    <3>4. \A p \in 1 .. k : p \in 1 .. n
      BY <3>1
    <3>5. u = [p \in 1 .. k |-> w[p]]
      <4>1. \A p \in 1 .. k : EncodeResp(front[p]) = w[p]
        BY <1>6, <3>2, <3>3, <3>4
      <4> HIDE DEF front, w
      <4> QED
        BY <3>2, <4>1
    <3>6. w = [p \in 1 .. k |-> w[p]]
      <4> HIDE DEF w
      <4> QED
        BY <3>3, LenProperties
    <3>7. u = w
      BY <3>5, <3>6
    <3>8. Offset(q, k) = Len(FlattenSeq(u))
      BY Zenon DEF Offset, EncodeAll
    <3> HIDE DEF u
    <3> QED
      BY <3>7, <3>8 DEF First
  <2> QED
    BY <2>1
<1> HIDE DEF ss, n
<1>8. /\ all \in Seq(Part) /\ Len(First(ss, 0)) = 0 /\ all = First(ss, n)
      /\ \A k \in 0 .. n : Len(First(ss, k)) \in Nat
      /\ \A k \in 1 .. n :
           /\ Len(First(ss, k)) = Len(First(ss, k - 1)) + Len(ss[k])
           /\ Stands(all, Len(First(ss, k - 1)), ss[k])
  BY <1>6, Placed
<1> HIDE DEF all
<1>9. \A k \in 1 .. n : k - 1 \in 0 .. n /\ k \in 0 .. n
  BY <1>2
<1>10. 0 \in 0 .. n /\ n \in 0 .. n
  BY <1>2
<1>11. Offset(q, n) = Len(all) /\ Offset(q, 0) = 0 /\ \A k \in 0 .. n : Offset(q, k) \in Nat
  BY <1>7, <1>8, <1>10
<1>12. st \in Seq(Part) /\ Len(st) \in Nat /\ Len(st) = Offset(q, n) + Len(tail)
  <2>1. all \o tail \in Seq(Part) /\ Len(all \o tail) = Len(all) + Len(tail)
    BY <1>1, <1>8, ConcatProperties DEF tail
  <2> QED
    BY <1>11, <2>1, LenProperties
<1>13. Stands(st, Offset(q, n), tail)
  <2>1. Stands(all \o tail, Len(all), tail)
    BY <1>1, <1>8, StandsBehind DEF tail
  <2> QED
    BY <1>11, <2>1
<1>14. ASSUME NEW k \in 1 .. n
       PROVE  /\ Offset(q, k) = Offset(q, k - 1) + Len(EncodeResp(rs[k]))
              /\ Stands(st, Offset(q, k - 1), EncodeResp(rs[k]))
  <2>1. Offset(q, k) = Offset(q, k - 1) + Len(EncodeResp(rs[k]))
    BY <1>6, <1>7, <1>8, <1>9
  <2> DEFINE e == EncodeResp(rs[k])
             at == Offset(q, k - 1)
  <2>2. Stands(all, at, e) /\ at \in Nat /\ e \in Seq(Part)
    BY <1>5, <1>6, <1>7, <1>8, <1>9, <1>11
  <2> HIDE DEF e, at
  <2>3. Stands(all \o tail, at, e)
    BY <1>1, <1>8, <2>2, StandsLonger DEF tail
  <2> QED
    BY <2>1, <2>3 DEF e, at
<1> HIDE DEF st
<1> QED
  BY <1>1, <1>2, <1>3, <1>4, <1>5, <1>11, <1>12, <1>13, <1>14 DEF n, tail

\* How many requests of a client are among the first a parts of its stream.
Came(q, a) == Max({k \in 0 .. Len(q.requests) : Offset(q, k) <= a})

LEMMA Greatest ==
  ASSUME NEW n \in Nat, NEW S \in SUBSET (0 .. n), 0 \in S
  PROVE  Max(S) \in S /\ \A y \in S : y <= Max(S)
<1> DEFINE T == {k \in 0 .. n : \E m \in S : \A j \in S : j <= k => j <= m}
<1>1. 0 \in T
  OBVIOUS
<1>2. ASSUME NEW k \in 0 .. n - 1, k \in T
      PROVE  k + 1 \in T
  <2>1. k + 1 \in 0 .. n
    OBVIOUS
  <2>2. PICK m \in S : \A j \in S : j <= k => j <= m
    BY <1>2
  <2>3. CASE k + 1 \in S
    BY <2>1, <2>3
  <2>4. CASE k + 1 \notin S
    <3>1. \A j \in S : j <= k + 1 => j <= k
      BY <2>4
    <3> QED
      BY <2>1, <2>2, <3>1
  <2> QED
    BY <2>3, <2>4
<1> HIDE DEF T
<1>3. \A k \in 0 .. n : k \in T
  BY <1>1, <1>2, Induct
<1>4. n \in T
  BY <1>3
<1>5. \E m \in S : \A j \in S : m >= j
  BY <1>4 DEF T
<1>6. Max(S) \in S /\ \A j \in S : Max(S) >= j
  BY <1>5 DEF Max
<1> QED
  BY <1>6

LEMMA OffsetsGrow ==
  ASSUME NEW q \in Sent, NEW i \in 0 .. Len(q.requests), NEW j \in 0 .. Len(q.requests), i <= j
  PROVE  Offset(q, i) + 2 * (j - i) <= Offset(q, j)
<1> DEFINE n == Len(q.requests)
           T == {k \in 0 .. n : i <= k => Offset(q, i) + 2 * (k - i) <= Offset(q, k)}
<1>1. /\ n \in Nat /\ Offset(q, 0) = 0 /\ \A k \in 0 .. n : Offset(q, k) \in Nat
      /\ \A k \in 1 .. n : Offset(q, k - 1) + 3 <= Offset(q, k)
  <2>1. /\ n \in Nat /\ Offset(q, 0) = 0 /\ \A k \in 0 .. n : Offset(q, k) \in Nat
        /\ \A k \in 1 .. n : /\ Len(EncodeResp(q.requests[k])) \in Nat
                             /\ 3 <= Len(EncodeResp(q.requests[k]))
                             /\ Offset(q, k) = Offset(q, k - 1) + Len(EncodeResp(q.requests[k]))
    BY StreamParts
  <2> HIDE DEF n
  <2>2. ASSUME NEW k \in 1 .. n
        PROVE  Offset(q, k - 1) + 3 <= Offset(q, k)
    <3> DEFINE x == Offset(q, k - 1)
               l == Len(EncodeResp(q.requests[k]))
    <3>1. k - 1 \in 0 .. n
      BY <2>1
    <3>2. x \in Nat /\ l \in Nat /\ 3 <= l /\ Offset(q, k) = x + l
      BY <2>1, <3>1
    <3> HIDE DEF x, l
    <3>3. x + 3 <= Offset(q, k)
      BY <3>2
    <3> QED
      BY <3>3 DEF x
  <2> QED
    BY <2>1, <2>2
<1> HIDE DEF n
<1>2. i \in 0 .. n /\ j \in 0 .. n
  BY DEF n
<1>3. 0 \in T
  BY <1>1, <1>2
<1>4. ASSUME NEW k \in 0 .. n - 1, k \in T
      PROVE  k + 1 \in T
  <2>1. k + 1 \in 1 .. n /\ (k + 1) - 1 = k /\ k + 1 \in 0 .. n /\ k \in 0 .. n
    BY <1>1
  <2> DEFINE x == Offset(q, k)
             y == Offset(q, k + 1)
             z == Offset(q, i)
  <2>2. x + 3 <= y /\ x \in Nat /\ y \in Nat /\ z \in Nat
    BY <1>1, <1>2, <2>1
  <2>3. i <= k => z + 2 * (k - i) <= x
    BY <1>4
  <2>4. i = k + 1 => z = y
    OBVIOUS
  <2> HIDE DEF x, y, z
  <2>5. i <= k + 1 => z + 2 * ((k + 1) - i) <= y
    BY <1>1, <1>2, <2>2, <2>3, <2>4
  <2> QED
    BY <2>1, <2>5 DEF y, z
<1> HIDE DEF T
<1>5. \A k \in 0 .. n : k \in T
  BY <1>1, <1>3, <1>4, Induct
<1>6. j \in T
  BY <1>2, <1>5
<1> QED
  BY <1>6 DEF T

LEMMA CameIs ==
  ASSUME NEW q \in Sent, NEW a \in Nat
  PROVE  LET c == Came(q, a)
             n == Len(q.requests)
         IN /\ c \in 0 .. n /\ Offset(q, c) <= a /\ (c < n => a < Offset(q, c + 1))
            /\ (Offset(q, n) <= a => c = n) /\ (a < Offset(q, n) => c < n)
            /\ \A k \in 0 .. n : Offset(q, k) <= a => k <= c
<1> DEFINE n == Len(q.requests)
           S == {k \in 0 .. n : Offset(q, k) <= a}
           c == Came(q, a)
<1>1. n \in Nat /\ Offset(q, 0) = 0 /\ \A k \in 0 .. n : Offset(q, k) \in Nat
  BY StreamParts
<1> HIDE DEF n
<1>2. S \in SUBSET (0 .. n) /\ 0 \in S
  BY <1>1
<1>3. c = Max(S)
  BY DEF Came, n
<1> HIDE DEF S, c
<1>4. c \in S /\ \A y \in S : y <= c
  BY <1>1, <1>2, <1>3, Greatest
<1>5. c \in 0 .. n /\ Offset(q, c) <= a /\ \A k \in 0 .. n : Offset(q, k) <= a => k <= c
  BY <1>4 DEF S
<1>6. c < n => a < Offset(q, c + 1)
  <2> SUFFICES ASSUME c < n PROVE a < Offset(q, c + 1)
    OBVIOUS
  <2>1. c + 1 \in 0 .. n /\ ~ (c + 1 <= c)
    BY <1>1, <1>5
  <2> DEFINE x == Offset(q, c + 1)
  <2>2. x \in Nat /\ ~ (x <= a)
    BY <1>1, <1>5, <2>1
  <2> HIDE DEF x
  <2>3. a < x
    BY <2>2
  <2> QED
    BY <2>3 DEF x
<1>7. Offset(q, n) <= a => c = n
  <2>1. n \in 0 .. n
    BY <1>1
  <2>2. Offset(q, n) <= a => n <= c
    BY <1>5, <2>1
  <2> QED
    BY <1>1, <1>5, <2>2
<1>8. a < Offset(q, n) => c < n
  <2>1. n \in 0 .. n
    BY <1>1
  <2>2. Offset(q, n) \in Nat
    BY <1>1, <2>1
  <2>3. c = n => ~ (a < Offset(q, n))
    BY <1>5, <2>2
  <2>4. c # n => c < n
    BY <1>1, <1>5
  <2> QED
    BY <2>3, <2>4
<1> QED
  BY <1>5, <1>6, <1>7, <1>8 DEF c, n

\* What has arrived behind the first k requests.
Rest(q, k, b) == SubSeq(Whole(q), Offset(q, k) + 1, b)

LEMMA RestIs ==
  ASSUME NEW q \in Sent, NEW b \in Nat, b <= Len(Whole(q)),
         NEW k \in 0 .. Len(q.requests), Offset(q, k) <= b
  PROVE  /\ Rest(q, k, b) \in Seq(Part) /\ Rest(q, k, b) \in Seq(Wide)
         /\ Len(Rest(q, k, b)) = b - Offset(q, k) /\ Offset(q, k) \in Nat
         /\ \A p \in 1 .. b - Offset(q, k) : Rest(q, k, b)[p] = Whole(q)[Offset(q, k) + p]
<1>1. Whole(q) \in Seq(Part) /\ Offset(q, k) \in Nat
  BY StreamParts
<1>2. /\ Rest(q, k, b) \in Seq(Part) /\ Len(Rest(q, k, b)) = b - Offset(q, k)
      /\ \A p \in 1 .. b - Offset(q, k) : Rest(q, k, b)[p] = Whole(q)[Offset(q, k) + p]
  BY <1>1, Cutting DEF Rest
<1>3. Seq(Part) \subseteq Seq(Wide)
  BY PartIsWide, SeqIn
<1> QED
  BY <1>1, <1>2, <1>3

LEMMA NextRequest ==
  ASSUME NEW q \in Sent, NEW b \in Nat, b <= Len(Whole(q)),
         NEW k \in 0 .. Len(q.requests) - 1, Offset(q, k) <= b
  PROVE  LET e == EncodeResp(q.requests[k + 1])
         IN /\ TryExtractResp(Rest(q, k, b)) = IF Offset(q, k + 1) <= b
                                               THEN Going(Len(e), q.requests[k + 1]) ELSE Waiting
            /\ Offset(q, k + 1) <= b => Erased(Rest(q, k, b), Len(e)) = Rest(q, k + 1, b)
<1> DEFINE n == Len(q.requests)
           r == q.requests[k + 1]
           e == EncodeResp(r)
           t == Rest(q, k, b)
           x == Offset(q, k)
           y == Offset(q, k + 1)
           st == Whole(q)
<1>1. k + 1 \in 1 .. n /\ k \in 0 .. n /\ k + 1 \in 0 .. n /\ (k + 1) - 1 = k
  <2>1. n \in Nat
    BY StreamParts
  <2> QED
    BY <2>1
<1>2. /\ r \in Seq(Seq(Wide)) /\ e \in Seq(Part) /\ Len(e) \in Nat /\ Len(e) < SizeLimit
      /\ y = x + Len(e) /\ Stands(st, x, e) /\ x \in Nat /\ y \in Nat
  BY <1>1, StreamParts
<1>3. /\ t \in Seq(Part) /\ t \in Seq(Wide) /\ Len(t) = b - x
      /\ \A p \in 1 .. b - x : t[p] = st[x + p]
  BY <1>1, RestIs
<1>4. x <= b
  OBVIOUS
<1> HIDE DEF x, t, r
<1>5. Agree(t, e)
  <2>1. \A p \in 1 .. Len(e) : st[x + p] = e[p]
    BY <1>2 DEF Stands
  <2>2. \A p \in 1 .. b - x : p <= Len(e) => p \in 1 .. Len(e)
    BY <1>2
  <2> QED
    BY <1>3, <2>1, <2>2 DEF Agree
<1>6. TryExtractResp(t) = IF Len(e) <= Len(t) THEN Going(Len(e), r) ELSE Waiting
  BY <1>2, <1>3, <1>5, WholeRequest
<1> HIDE DEF e
<1>7. Len(e) <= Len(t) <=> y <= b
  BY <1>2, <1>3, <1>4
<1>8. y <= b => Erased(t, Len(e)) = Rest(q, k + 1, b)
  <2> SUFFICES ASSUME y <= b PROVE Erased(t, Len(e)) = Rest(q, k + 1, b)
    OBVIOUS
  <2> DEFINE u == Erased(t, Len(e))
             w == Rest(q, k + 1, b)
  <2>1. /\ w \in Seq(Part) /\ Len(w) = b - y
        /\ \A p \in 1 .. b - y : w[p] = st[y + p]
    BY <1>1, RestIs
  <2>2. Len(e) <= Len(t)
    BY <1>7
  <2>3. /\ u \in Seq(Part) /\ Len(u) = Len(t) - Len(e)
        /\ \A p \in 1 .. Len(t) - Len(e) : u[p] = t[Len(e) + p]
    BY <1>2, <1>3, <2>2, ErasedBehind
  <2> HIDE DEF y, u, w
  <2>4. Len(t) - Len(e) = b - y
    BY <1>2, <1>3, <1>4
  <2>5. \A p \in 1 .. b - y : Len(e) + p \in 1 .. b - x /\ x + (Len(e) + p) = y + p
    BY <1>2, <1>4
  <2>6. \A p \in 1 .. b - y : u[p] = w[p]
    BY <1>3, <2>1, <2>3, <2>4, <2>5
  <2> HIDE DEF st
  <2>7. Len(u) = Len(w) /\ \A p \in 1 .. Len(u) : u[p] = w[p]
    BY <2>1, <2>3, <2>4, <2>6
  <2>8. u = w
    BY <2>1, <2>3, <2>7, SeqEqual
  <2> QED
    BY <2>8 DEF u, w
<1> HIDE DEF y
<1>9. /\ TryExtractResp(t) = IF y <= b THEN Going(Len(e), r) ELSE Waiting
      /\ y <= b => Erased(t, Len(e)) = Rest(q, k + 1, b)
  BY <1>6, <1>7, <1>8
<1> QED
  BY <1>9 DEF e, r, t, y

\* What follows the last request.
LEMMA LastRest ==
  ASSUME NEW q \in Sent, NEW b \in Nat, b <= Len(Whole(q)), Offset(q, Len(q.requests)) <= b,
         \/ b = Offset(q, Len(q.requests))
         \/ Unfinished(q.tail) \/ Malformed(q.tail)
  PROVE  LET verdict == TryExtractResp(Rest(q, Len(q.requests), b))
         IN /\ verdict \in {Waiting, Throwing}
            /\ verdict = Throwing => Offset(q, Len(q.requests)) < b /\ ~ Unfinished(q.tail)
            /\ Malformed(q.tail) /\ b = Len(Whole(q)) => verdict = Throwing
<1> DEFINE n == Len(q.requests)
           t == Rest(q, n, b)
           x == Offset(q, n)
           st == Whole(q)
           tail == q.tail
           verdict == TryExtractResp(t)
<1>1. /\ n \in 0 .. n /\ tail \in Seq(Part) /\ tail \in Seq(Wide) /\ Len(tail) \in Nat
      /\ Len(st) = x + Len(tail) /\ Stands(st, x, tail)
  <2>1. /\ n \in Nat /\ tail \in Seq(Part) /\ Len(tail) \in Nat
        /\ Len(st) = x + Len(tail) /\ Stands(st, x, tail)
    BY StreamParts
  <2>2. Seq(Part) \subseteq Seq(Wide)
    BY PartIsWide, SeqIn
  <2> QED
    BY <2>1, <2>2
<1>2. /\ t \in Seq(Wide) /\ Len(t) = b - x /\ x \in Nat
      /\ \A p \in 1 .. b - x : t[p] = st[x + p]
  BY <1>1, RestIs
<1>3. x <= b /\ b <= Len(st) /\ (b = x \/ Unfinished(tail) \/ Malformed(tail))
  OBVIOUS
<1> HIDE DEF x, n, t, st, tail
<1>4. Len(t) <= Len(tail) /\ (Len(t) = Len(tail) <=> b = Len(st))
  BY <1>1, <1>2, <1>3
<1>5. \A p \in 1 .. Len(t) : p \in 1 .. Len(tail) /\ t[p] = tail[p]
  <2>1. \A p \in 1 .. Len(t) : p \in 1 .. Len(tail) /\ p \in 1 .. b - x
    BY <1>1, <1>2, <1>4
  <2>2. \A p \in 1 .. Len(tail) : st[x + p] = tail[p]
    BY <1>1 DEF Stands
  <2> QED
    BY <1>2, <2>1, <2>2
<1>6. Agree(t, tail)
  BY <1>5 DEF Agree
<1>7. Malformed(tail) => /\ verdict \in {Waiting, Throwing}
                         /\ Len(t) = Len(tail) => verdict = Throwing
  BY <1>1, <1>2, <1>4, <1>6, NoRequest
<1>8. b = x => verdict = Waiting
  <2> SUFFICES ASSUME b = x PROVE verdict = Waiting
    OBVIOUS
  <2>1. 0 >= Len(t)
    BY <1>2
  <2>2. LineIncomplete(t, 0, "*")
    BY <2>1 DEF LineIncomplete
  <2> QED
    BY <2>2 DEF TryExtractResp
<1>9. Unfinished(tail) => verdict = Waiting
  <2> SUFFICES ASSUME Unfinished(tail) PROVE verdict = Waiting
    OBVIOUS
  <2>1. PICK r \in Seq(Seq(Part)) : /\ Len(EncodeResp(r)) < SizeLimit
                                    /\ Len(tail) < Len(EncodeResp(r)) /\ Agree(tail, EncodeResp(r))
    BY DEF Unfinished
  <2> DEFINE e == EncodeResp(r)
  <2>2. r \in Seq(Seq(Wide)) /\ Len(e) \in Nat
    BY <2>1, RequestParts
  <2>3. \A p \in 1 .. Len(tail) : p <= Len(e) => tail[p] = e[p]
    BY <2>1 DEF Agree
  <2>4. Agree(t, e)
    <3> HIDE DEF e
    <3> QED
      BY <1>5, <2>3 DEF Agree
  <2>5. ~ (Len(e) <= Len(t))
    <3>1. Len(tail) < Len(e) /\ Len(t) \in Int
      BY <1>2, <1>3, <2>1
    <3> HIDE DEF e
    <3> QED
      BY <1>1, <1>4, <2>2, <3>1
  <2>6. TryExtractResp(t) = IF Len(e) <= Len(t) THEN Going(Len(e), r) ELSE Waiting
    BY <1>2, <2>1, <2>2, <2>4, WholeRequest
  <2> HIDE DEF e
  <2> QED
    BY <2>5, <2>6
<1> HIDE DEF verdict
<1>10. Waiting # Throwing
  BY DEF Waiting, Throwing
<1>11. /\ verdict \in {Waiting, Throwing}
       /\ verdict = Throwing => x < b /\ ~ Unfinished(tail)
       /\ Malformed(tail) /\ b = Len(st) => verdict = Throwing
  <2>1. CASE Malformed(tail)
    <3>1. b # x => x < b
      BY <1>2, <1>3
    <3> QED
      BY <1>4, <1>7, <1>8, <1>9, <1>10, <2>1, <3>1
  <2>2. CASE ~ Malformed(tail)
    BY <1>3, <1>8, <1>9, <1>10, <2>2
  <2> QED
    BY <2>1, <2>2
<1> QED
  BY <1>11 DEF verdict, x, n, t, st, tail

\* All that ExtractRequests does with what has arrived when b parts have.
LEMMA Extracting ==
  ASSUME NEW q \in Sent, NEW a \in Nat, NEW b \in Nat, a < b, b <= Len(Whole(q)),
         \/ b <= Offset(q, Len(q.requests))
         \/ Unfinished(q.tail) \/ Malformed(q.tail)
  PROVE  \E verdict \in {Waiting, Throwing} :
           /\ ExtractRequests(Rest(q, Came(q, a), b))
                = Taken(verdict, Rest(q, Came(q, b), b),
                        SubSeq(q.requests, Came(q, a) + 1, Came(q, b)))
           /\ verdict = Throwing => Offset(q, Len(q.requests)) < b /\ ~ Unfinished(q.tail)
           /\ Malformed(q.tail) /\ b = Len(Whole(q)) => verdict = Throwing
<1> DEFINE n == Len(q.requests)
           c == Came(q, a)
           d == Came(q, b)
           m == d - c
           s == Rest(q, c, b)
           list == SubSeq(q.requests, c + 1, d)
           rest == [k \in 0 .. m |-> Rest(q, c + k, b)]
           Try(k) == TryExtractResp(rest[k])
<1>1. /\ n \in Nat /\ q.requests \in Seq(Seq(Seq(Part)))
      /\ \A k \in 0 .. n : Offset(q, k) \in Nat
  BY StreamParts
<1>2. /\ c \in 0 .. n /\ Offset(q, c) <= a
  BY CameIs
<1>3. /\ d \in 0 .. n /\ Offset(q, d) <= b /\ (d < n => b < Offset(q, d + 1))
      /\ \A k \in 0 .. n : Offset(q, k) <= b => k <= d
  BY CameIs
<1>4. a < b /\ b <= Len(Whole(q))
  OBVIOUS
<1> HIDE DEF n, c, d
<1>5. Offset(q, c) <= b /\ Offset(q, c) < b
  <2> DEFINE x == Offset(q, c)
  <2>1. x \in Nat /\ x <= a
    BY <1>1, <1>2
  <2> HIDE DEF x
  <2>2. x <= b /\ x < b
    BY <1>4, <2>1
  <2> QED
    BY <2>2 DEF x
<1>6. c <= d /\ m \in Nat
  BY <1>1, <1>2, <1>3, <1>5
<1>7. s \in Seq(Part) /\ Len(s) = b - Offset(q, c)
  BY <1>2, <1>4, <1>5, RestIs DEF n
<1>8. m < Len(s)
  <2> DEFINE x == Offset(q, c)
             y == Offset(q, d)
  <2>1. x + 2 * (d - c) <= y
    BY <1>2, <1>3, <1>6, OffsetsGrow DEF n
  <2>2. x \in Nat /\ y \in Nat /\ x < b /\ y <= b /\ Len(s) = b - x
    BY <1>1, <1>2, <1>3, <1>5, <1>7
  <2> HIDE DEF x, y, s
  <2> QED
    BY <1>1, <1>2, <1>3, <1>6, <2>1, <2>2
<1>9. /\ list \in Seq(Seq(Seq(Part))) /\ Len(list) = m
      /\ \A p \in 1 .. m : list[p] = q.requests[c + p]
  <2> DEFINE rs == q.requests
             S  == Seq(Seq(Part))
  <2>1. c \in Nat /\ d \in Nat /\ c <= d /\ d <= Len(rs) /\ rs \in Seq(S)
    BY <1>1, <1>2, <1>3, <1>6 DEF n
  <2> HIDE DEF rs, S
  <2>2. LET t == SubSeq(rs, c + 1, d)
        IN t \in Seq(S) /\ Len(t) = d - c /\ \A p \in 1 .. d - c : t[p] = rs[c + p]
    BY <2>1, Cutting, Zenon
  <2> QED
    BY <2>2, Zenon DEF rs, S
<1>10. rest[0] = s /\ rest[m] = Rest(q, d, b)
  <2>1. 0 \in 0 .. m /\ m \in 0 .. m /\ c + 0 = c /\ c + m = d
    BY <1>1, <1>2, <1>3, <1>6
  <2> QED
    BY <2>1
<1>11. ASSUME NEW k \in 0 .. m - 1
       PROVE  /\ ~ Done(Try(k)) /\ Try(k).tokens = list[k + 1]
              /\ Erased(rest[k], Try(k).cursor) = rest[k + 1]
  <2> DEFINE j == c + k
             t == Rest(q, j, b)
             e == EncodeResp(q.requests[j + 1])
  <2>1. /\ j \in 0 .. n - 1 /\ j + 1 = c + (k + 1) /\ j \in 0 .. n /\ j + 1 \in 0 .. n
        /\ k \in 0 .. m /\ k + 1 \in 0 .. m /\ k + 1 \in 1 .. m /\ j <= d /\ j + 1 <= d
    BY <1>1, <1>2, <1>3, <1>6
  <2>2. rest[k] = t /\ rest[k + 1] = Rest(q, j + 1, b) /\ list[k + 1] = q.requests[j + 1]
    BY <1>9, <2>1
  <2> HIDE DEF j, rest, list
  <2>3. \A i \in 0 .. n : i <= d => Offset(q, i) <= b
    <3>1. ASSUME NEW i \in 0 .. n, i <= d
          PROVE  Offset(q, i) <= b
      <4> DEFINE x == Offset(q, i)
                 y == Offset(q, d)
      <4>1. x + 2 * (d - i) <= y
        BY <1>3, <3>1, OffsetsGrow DEF n
      <4>2. x \in Nat /\ y \in Nat /\ y <= b
        BY <1>1, <1>3
      <4> HIDE DEF x, y
      <4>3. x <= b
        BY <1>1, <1>3, <3>1, <4>1, <4>2
      <4> QED
        BY <4>3 DEF x
    <3> QED
      BY <3>1
  <2>4. Offset(q, j) <= b /\ Offset(q, j + 1) <= b
    BY <2>1, <2>3
  <2>5. TryExtractResp(t) = Going(Len(e), q.requests[j + 1]) /\ Erased(t, Len(e)) = Rest(q, j + 1, b)
    BY <1>4, <2>1, <2>4, NextRequest DEF n
  <2> DEFINE v == TryExtractResp(t)
             r == q.requests[j + 1]
             l == Len(e)
  <2>6. v = Going(l, r)
    BY <2>5
  <2> HIDE DEF v, r, l
  <2>7. ~ Done(v) /\ v.cursor = l /\ v.tokens = r
    BY <2>6, Goes
  <2> QED
    BY <2>2, <2>5, <2>7 DEF v, r, l
<1> DEFINE verdict == TryExtractResp(Rest(q, d, b))
<1>12. /\ verdict \in {Waiting, Throwing}
       /\ verdict = Throwing => Offset(q, n) < b /\ ~ Unfinished(q.tail)
       /\ Malformed(q.tail) /\ b = Len(Whole(q)) => verdict = Throwing
  <2>1. CASE d = n
    <3>1. \/ b = Offset(q, n) \/ Unfinished(q.tail) \/ Malformed(q.tail)
      <4> DEFINE x == Offset(q, n)
      <4>1. x \in Nat /\ x <= b /\ (b <= x \/ Unfinished(q.tail) \/ Malformed(q.tail))
        BY <1>1, <1>3, <2>1 DEF n
      <4> HIDE DEF x
      <4>2. b = x \/ Unfinished(q.tail) \/ Malformed(q.tail)
        BY <4>1
      <4> QED
        BY <4>2 DEF x
    <3>2. Offset(q, n) <= b /\ Rest(q, d, b) = Rest(q, n, b)
      BY <1>3, <2>1
    <3>3. LET v == TryExtractResp(Rest(q, n, b))
          IN /\ v \in {Waiting, Throwing}
             /\ v = Throwing => Offset(q, n) < b /\ ~ Unfinished(q.tail)
             /\ Malformed(q.tail) /\ b = Len(Whole(q)) => v = Throwing
      BY <1>4, <3>1, <3>2, LastRest DEF n
    <3> QED
      BY <3>2, <3>3
  <2>2. CASE d # n
    <3> DEFINE y == Offset(q, d + 1)
    <3>1. d \in 0 .. n - 1 /\ d < n /\ d + 1 \in 0 .. n
      BY <1>1, <1>3, <2>2
    <3>2. b < y /\ y \in Nat
      BY <1>1, <1>3, <3>1
    <3>3. verdict = Waiting
      <4>1. verdict = IF y <= b THEN Going(Len(EncodeResp(q.requests[d + 1])), q.requests[d + 1])
                                ELSE Waiting
        BY <1>3, <1>4, <3>1, NextRequest DEF n
      <4> HIDE DEF y
      <4>2. ~ (y <= b)
        BY <3>2
      <4> QED
        BY <4>1, <4>2
    <3>4. b # Len(Whole(q))
      <4> DEFINE z == Offset(q, n)
                 w == Len(Whole(q))
      <4>1. z \in Nat /\ Len(q.tail) \in Nat /\ w = z + Len(q.tail)
        BY <1>1, StreamParts DEF n
      <4>2. y + 2 * (n - (d + 1)) <= z
        BY <1>1, <3>1, OffsetsGrow DEF n
      <4> HIDE DEF z, w, y
      <4>3. b < w
        BY <1>1, <1>3, <3>1, <3>2, <4>1, <4>2
      <4> QED
        BY <4>3 DEF w
    <3>5. Waiting # Throwing
      BY DEF Waiting, Throwing
    <3> HIDE DEF verdict
    <3> QED
      BY <3>3, <3>4, <3>5
  <2> QED
    BY <2>1, <2>2
<1>13. Done(verdict)
  <2> HIDE DEF verdict
  <2> QED
    BY <1>12, Goes
<1>14. ExtractRequests(s) = Taken(verdict, Rest(q, d, b), list)
  <2> HIDE DEF s, list, rest, m
  <2>1. TryExtractResp(rest[Len(list)]) = verdict
    BY <1>9, <1>10
  <2>2. ExtractRequests(s) = Taken(TryExtractResp(rest[Len(list)]), rest[Len(list)], list)
    <3>1. Len(list) < Len(s)
      BY <1>8, <1>9
    <3>2. Done(TryExtractResp(rest[Len(list)]))
      BY <1>13, <2>1
    <3>3. \A k \in 0 .. Len(list) - 1 :
            /\ ~ Done(TryExtractResp(rest[k]))
            /\ TryExtractResp(rest[k]).tokens = list[k + 1]
            /\ Erased(rest[k], TryExtractResp(rest[k]).cursor) = rest[k + 1]
      BY <1>9, <1>11
    <3>4. s \in Seq(Part) /\ list \in Seq(Seq(Seq(Part))) /\ rest[0] = s
      BY <1>7, <1>9, <1>10, Zenon
    <3> QED
      BY <3>1, <3>2, <3>3, <3>4, ExtractAll, Zenon
  <2> HIDE DEF verdict
  <2> QED
    BY <1>9, <1>10, <2>1, <2>2
<1> HIDE DEF verdict
<1> QED
  BY <1>12, <1>14 DEF s, list, n, c, d

-----------------------------------------------------------------------------
(* The types.                                                               *)

LEMMA Joined ==
  ASSUME NEW S, NEW s \in Seq(S), NEW i \in Nat, NEW j \in Nat, NEW k \in Nat,
         i <= j, j <= k, k <= Len(s)
  PROVE  SubSeq(s, i + 1, j) \o SubSeq(s, j + 1, k) = SubSeq(s, i + 1, k)
<1> DEFINE u == SubSeq(s, i + 1, j)
           w == SubSeq(s, j + 1, k)
           t == SubSeq(s, i + 1, k)
<1>1. Len(s) \in Nat /\ i <= k /\ j <= Len(s)
  BY LenProperties
<1>2. u \in Seq(S) /\ Len(u) = j - i /\ \A p \in 1 .. j - i : u[p] = s[i + p]
  BY <1>1, Cutting
<1>3. w \in Seq(S) /\ Len(w) = k - j /\ \A p \in 1 .. k - j : w[p] = s[j + p]
  BY <1>1, Cutting
<1>4. t \in Seq(S) /\ Len(t) = k - i /\ \A p \in 1 .. k - i : t[p] = s[i + p]
  BY <1>1, Cutting
<1> HIDE DEF u, w, t
<1>5. /\ u \o w \in Seq(S) /\ Len(u \o w) = Len(u) + Len(w)
      /\ \A p \in 1 .. Len(u) + Len(w) : (u \o w)[p] = IF p <= Len(u) THEN u[p] ELSE w[p - Len(u)]
  BY <1>2, <1>3, ConcatProperties
<1>6. Len(u) + Len(w) = k - i
  BY <1>2, <1>3
<1>7. ASSUME NEW p \in 1 .. k - i
      PROVE  (u \o w)[p] = t[p]
  <2>1. (u \o w)[p] = IF p <= j - i THEN u[p] ELSE w[p - (j - i)]
    BY <1>2, <1>5, <1>6
  <2>2. CASE p <= j - i
    <3>1. p \in 1 .. j - i
      BY <2>2
    <3> QED
      BY <1>2, <1>4, <2>1, <3>1
  <2>3. CASE ~ (p <= j - i)
    <3>1. p - (j - i) \in 1 .. k - j /\ j + (p - (j - i)) = i + p
      BY <2>3
    <3> QED
      BY <1>3, <1>4, <2>1, <2>3, <3>1
  <2> QED
    BY <2>2, <2>3
<1>8. u \o w = t
  <2> DEFINE v == u \o w
  <2>1. v \in Seq(S) /\ Len(v) = Len(t) /\ \A p \in 1 .. Len(v) : v[p] = t[p]
    BY <1>4, <1>5, <1>6, <1>7
  <2> HIDE DEF v
  <2>2. v = t
    BY <1>4, <2>1, SeqEqual
  <2> QED
    BY <2>2 DEF v
<1> QED
  BY <1>8 DEF u, w, t

\* A beginning of s, and more of it.
LEMMA JoinedFromFirst ==
  ASSUME NEW S, NEW s \in Seq(S), NEW j \in Nat, NEW k \in Nat, j <= k, k \in 0 .. Len(s)
  PROVE  SubSeq(s, 1, j) \o SubSeq(s, j + 1, k) = SubSeq(s, 1, k)
<1>1. 0 \in Nat /\ 0 <= j /\ 0 + 1 = 1
  OBVIOUS
<1>2. k <= Len(s)
  BY LenProperties
<1>3. SubSeq(s, 0 + 1, j) \o SubSeq(s, j + 1, k) = SubSeq(s, 0 + 1, k)
  BY <1>1, <1>2, Joined, Zenon
<1> QED
  BY <1>1, <1>3, Zenon

LEMMA Streams ==
  stream = Whole(sent) /\ Complete = Came(sent, arrived) /\ \A k : Ends(k) = Offset(sent, k)
<1>1. \A k : Ends(k) = Offset(sent, k)
  BY DEF Ends, Offset
<1>2. Complete = Came(sent, arrived)
  BY Zenon DEF Complete, Came, Ends, Offset
<1>3. stream = Whole(sent)
  BY DEF stream, Whole
<1> QED
  BY <1>1, <1>2, <1>3

\* With at most as much in the buffer as has arrived, the types are kept.
TypeInv ==
  /\ sent \in Sent /\ arrived \in 0 .. Len(stream)
  /\ buffer \in Seq(Part) /\ requests \in Seq(Seq(Seq(Part))) /\ open \in BOOLEAN
  /\ Len(buffer) <= arrived /\ (requests # <<>> => Len(buffer) < arrived)

LEMMA TypeInit == Init => TypeInv
<1> SUFFICES ASSUME Init PROVE TypeInv
  OBVIOUS
<1>1. sent \in Sent /\ arrived = 0 /\ buffer = <<>> /\ requests = <<>> /\ open = TRUE
  BY DEF Init
<1>2. Len(stream) \in Nat
  <2>1. Len(Whole(sent)) \in Nat
    BY <1>1, StreamParts
  <2> QED
    BY <2>1, Streams
<1>3. 0 \in 0 .. Len(stream)
  BY <1>2
<1>4. buffer \in Seq(Part) /\ requests \in Seq(Seq(Seq(Part))) /\ Len(buffer) = 0
  BY <1>1, EmptySeq
<1>5. Len(buffer) <= arrived
  BY <1>1, <1>4
<1> QED
  BY <1>1, <1>3, <1>4, <1>5 DEF TypeInv

LEMMA TypeStep == TypeInv /\ [Next]_vars => TypeInv'
<1> SUFFICES ASSUME TypeInv, [Next]_vars PROVE TypeInv'
  OBVIOUS
<1>1. /\ sent \in Sent /\ arrived \in 0 .. Len(stream)
      /\ buffer \in Seq(Part) /\ requests \in Seq(Seq(Seq(Part))) /\ open \in BOOLEAN
      /\ Len(buffer) <= arrived /\ (requests # <<>> => Len(buffer) < arrived)
  BY DEF TypeInv
<1>2. CASE UNCHANGED vars
  BY <1>1, <1>2 DEF vars, TypeInv, stream
<1>3. ASSUME NEW n \in 1 .. Len(stream), Read(n)
      PROVE  TypeInv'
  <2> DEFINE chunk == SubSeq(stream, arrived + 1, arrived + n)
             s == buffer \o chunk
             result == ExtractRequests(s)
  <2>1. /\ arrived + n <= Len(stream) /\ arrived' = arrived + n /\ sent' = sent
        /\ IF result.then = "throw"
           THEN open' = FALSE /\ buffer' = <<>> /\ UNCHANGED requests
           ELSE /\ buffer' = result.rest /\ requests' = requests \o result.requests
                /\ UNCHANGED open
    BY <1>3 DEF Read
  <2>2. stream \in Seq(Part) /\ Len(stream) \in Nat /\ arrived \in Nat /\ n \in Nat /\ 1 <= n
    <3>1. Whole(sent) \in Seq(Part) /\ Len(Whole(sent)) \in Nat
      BY <1>1, StreamParts
    <3>2. stream \in Seq(Part) /\ Len(stream) \in Nat
      BY <3>1, Streams
    <3> QED
      BY <1>1, <3>2
  <2>3. chunk \in Seq(Part) /\ Len(chunk) = n
    <3>1. arrived <= arrived + n /\ (arrived + n) - arrived = n /\ arrived + n \in Nat
      BY <2>2
    <3> QED
      BY <2>1, <2>2, <3>1, Cutting
  <2> HIDE DEF chunk
  <2>4. s \in Seq(Part) /\ Len(s) = Len(buffer) + n /\ Len(buffer) \in Nat
    BY <1>1, <2>3, ConcatProperties, LenProperties
  <2> HIDE DEF s
  <2>5. PICK verdict : \E rest \in Seq(Part), list \in Seq(Seq(Seq(Part))) :
                         result = Taken(verdict, rest, list) /\ Len(rest) + Len(list) <= Len(s)
    BY <2>4, ExtractTypes
  <2>6. PICK rest \in Seq(Part), list \in Seq(Seq(Seq(Part))) :
          result = Taken(verdict, rest, list) /\ Len(rest) + Len(list) <= Len(s)
    BY <2>5
  <2> HIDE DEF result
  <2>7. result.rest = rest /\ result.requests = list
    <3> DEFINE then == verdict.then
    <3>1. result = [then |-> then, rest |-> rest, requests |-> list]
      BY <2>6, Zenon DEF Taken
    <3> HIDE DEF then
    <3> QED
      BY <3>1
  <2>8. sent' \in Sent /\ stream' = stream /\ arrived' \in 0 .. Len(stream)
    <3>1. stream' = stream
      BY <2>1 DEF stream
    <3>2. arrived' \in 0 .. Len(stream)
      BY <2>1, <2>2
    <3> QED
      BY <1>1, <2>1, <3>1, <3>2
  <2>9. CASE result.then = "throw"
    <3>1. open' = FALSE /\ buffer' = <<>> /\ requests' = requests
      BY <2>1, <2>9
    <3>2. buffer' \in Seq(Part) /\ Len(buffer') = 0
      BY <3>1, EmptySeq
    <3>3. Len(buffer') <= arrived' /\ Len(buffer') < arrived'
      BY <2>1, <2>2, <3>2
    <3> QED
      BY <1>1, <2>8, <3>1, <3>2, <3>3 DEF TypeInv
  <2>10. CASE result.then # "throw"
    <3>1. buffer' = rest /\ requests' = requests \o list /\ open' = open
      BY <2>1, <2>7, <2>10
    <3>2. /\ requests' \in Seq(Seq(Seq(Part))) /\ Len(rest) \in Nat /\ Len(list) \in Nat
          /\ Len(requests) \in Nat /\ Len(requests') = Len(requests) + Len(list)
      BY <1>1, <3>1, ConcatProperties, LenProperties
    <3>3. /\ requests' # <<>> <=> Len(requests') # 0
          /\ requests # <<>> <=> Len(requests) # 0
      BY <1>1, <3>2, EmptySeq
    <3>4. Len(rest) <= arrived' /\ (requests' # <<>> => Len(rest) < arrived')
      <4>1. Len(rest) + Len(list) <= Len(buffer) + n /\ arrived' = arrived + n
            /\ Len(buffer) <= arrived /\ (Len(requests) # 0 => Len(buffer) < arrived)
        BY <1>1, <2>1, <2>4, <2>6, <3>3
      <4>2. Len(requests') # 0 => Len(requests) # 0 \/ Len(list) # 0
        BY <3>2
      <4>3. Len(requests) # 0 \/ Len(list) # 0 => Len(rest) < arrived'
        BY <2>2, <2>4, <3>2, <4>1
      <4>4. Len(rest) <= arrived'
        BY <2>2, <2>4, <3>2, <4>1
      <4> QED
        BY <3>3, <4>2, <4>3, <4>4
    <3> QED
      BY <1>1, <2>8, <3>1, <3>2, <3>4 DEF TypeInv
  <2> QED
    BY <2>9, <2>10
<1> QED
  BY <1>2, <1>3 DEF Next

\* A request is only taken out with the parts it consists of, and what the buffer
\* holds is part of what was read (RequestCodec::ExtractRequests), whatever the clients
\* send.
THEOREM CodecTypeCorrect == Spec => []TypeOK
<1>1. TypeInv => TypeOK
  BY DEF TypeInv, TypeOK
<1> QED
  BY <1>1, TypeInit, TypeStep, PTL DEF Spec

-----------------------------------------------------------------------------
(* The requests.                                                            *)

\* Up to here the parser only sees requests, one that is not finished, or nonsense.
Predictable(q, a) == a <= Offset(q, Len(q.requests)) \/ Unfinished(q.tail) \/ Malformed(q.tail)

Exact == /\ requests = SubSeq(sent.requests, 1, Came(sent, arrived))
         /\ buffer = Rest(sent, Came(sent, arrived), arrived)

\* As long as that is so, an open connection has handed over what has arrived, and a
\* closed one a part of it.
Follows ==
  Predictable(sent, arrived) =>
    /\ open => Exact
    /\ ~ open => /\ Offset(sent, Len(sent.requests)) < arrived /\ ~ Unfinished(sent.tail)
                 /\ \E c \in 0 .. Len(sent.requests) : requests = SubSeq(sent.requests, 1, c)
    /\ Malformed(sent.tail) /\ arrived = Len(stream) => ~ open

LEMMA FollowsInit == Init => Follows
<1> SUFFICES ASSUME Init PROVE Follows
  OBVIOUS
<1> DEFINE n == Len(sent.requests)
           c == Came(sent, 0)
<1>1. sent \in Sent /\ arrived = 0 /\ buffer = <<>> /\ requests = <<>> /\ open = TRUE
  BY DEF Init
<1>2. /\ n \in Nat /\ sent.requests \in Seq(Seq(Seq(Part))) /\ Offset(sent, 0) = 0
      /\ Len(Whole(sent)) \in Nat /\ \A k \in 0 .. n : Offset(sent, k) \in Nat
      /\ Len(Whole(sent)) = Offset(sent, n) + Len(sent.tail) /\ Len(sent.tail) \in Nat
  BY <1>1, StreamParts
<1>3. c \in 0 .. n /\ Offset(sent, c) <= 0
  BY <1>1, CameIs
<1>4. c = 0
  <2> DEFINE x == Offset(sent, c)
  <2>1. 0 + 2 * (c - 0) <= x
    BY <1>1, <1>2, <1>3, OffsetsGrow
  <2>2. x \in Nat /\ x <= 0
    BY <1>2, <1>3
  <2> HIDE DEF x, c, n
  <2> QED
    BY <1>2, <1>3, <2>1, <2>2
<1>5. Exact
  <2>1. SubSeq(sent.requests, 1, 0) = <<>>
    BY SubSeqEmpty
  <2>2. Rest(sent, 0, 0) = <<>>
    <3>1. Rest(sent, 0, 0) = SubSeq(Whole(sent), 1, 0)
      BY <1>2 DEF Rest
    <3> QED
      BY <3>1, SubSeqEmpty
  <2> QED
    BY <1>1, <1>4, <2>1, <2>2 DEF Exact
<1>6. ~ (Malformed(sent.tail) /\ arrived = Len(stream))
  <2> SUFFICES ASSUME Malformed(sent.tail), arrived = Len(stream) PROVE FALSE
    OBVIOUS
  <2> DEFINE x == Offset(sent, n)
  <2>1. Len(Whole(sent)) = 0
    BY <1>1, Streams
  <2>2. x \in Nat /\ x + Len(sent.tail) = 0
    <3>1. n \in 0 .. n
      BY <1>2
    <3> QED
      BY <1>2, <2>1, <3>1
  <2>3. x = 0
    <3> HIDE DEF x
    <3> QED
      BY <1>2, <2>2
  <2>4. 0 <= Len(Whole(sent)) /\ x <= 0 /\ 0 = x
    BY <2>1, <2>3
  <2>5. LET v == TryExtractResp(Rest(sent, n, 0))
        IN /\ v = Throwing => x < 0
           /\ Malformed(sent.tail) /\ 0 = Len(Whole(sent)) => v = Throwing
    BY <1>1, <2>4, LastRest
  <2> QED
    BY <2>1, <2>3, <2>5
<1> QED
  BY <1>1, <1>5, <1>6 DEF Follows

LEMMA FollowsStep == TypeInv /\ Follows /\ [Next]_vars => Follows'
<1> SUFFICES ASSUME TypeInv, Follows, [Next]_vars PROVE Follows'
  OBVIOUS
<1>1. sent \in Sent /\ arrived \in 0 .. Len(stream) /\ open \in BOOLEAN
  BY DEF TypeInv
<1>2. CASE UNCHANGED vars
  BY <1>2 DEF vars, Follows, Exact, stream
<1>3. ASSUME NEW n \in 1 .. Len(stream), Read(n)
      PROVE  Follows'
  <2> DEFINE q == sent
             a == arrived
             b == arrived + n
             st == Whole(q)
             N == Len(q.requests)
             result == ExtractRequests(buffer \o SubSeq(stream, arrived + 1, arrived + n))
  <2>1. /\ open /\ b <= Len(stream) /\ arrived' = b /\ sent' = sent
        /\ IF result.then = "throw"
           THEN open' = FALSE /\ buffer' = <<>> /\ UNCHANGED requests
           ELSE /\ buffer' = result.rest /\ requests' = requests \o result.requests
                /\ UNCHANGED open
    BY <1>3 DEF Read
  <2>2. stream = st /\ stream' = st
    <3>1. stream' = stream
      BY <2>1 DEF stream
    <3> QED
      BY <3>1, Streams
  <2>3. /\ st \in Seq(Part) /\ Len(st) \in Nat /\ N \in Nat
        /\ q.requests \in Seq(Seq(Seq(Part))) /\ \A k \in 0 .. N : Offset(q, k) \in Nat
    BY <1>1, StreamParts
  <2>4. a \in Nat /\ b \in Nat /\ a < b /\ b <= Len(st)
    BY <1>1, <2>1, <2>2, <2>3
  <2> SUFFICES ASSUME Predictable(q, b)
               PROVE  /\ open' => Exact'
                      /\ ~ open' => /\ Offset(q, N) < b /\ ~ Unfinished(q.tail)
                                    /\ \E c \in 0 .. N : requests' = SubSeq(q.requests, 1, c)
                      /\ Malformed(q.tail) /\ b = Len(st) => ~ open'
    <3>1. Follows' <=>
            (Predictable(q, b) =>
               /\ open' => Exact'
               /\ ~ open' => /\ Offset(q, N) < b /\ ~ Unfinished(q.tail)
                             /\ \E c \in 0 .. N : requests' = SubSeq(q.requests, 1, c)
               /\ Malformed(q.tail) /\ b = Len(st) => ~ open')
      BY <2>1, <2>2 DEF Follows
    <3> QED
      BY <3>1
  <2>5. Predictable(q, a)
    <3> DEFINE x == Offset(q, N)
    <3>1. x \in Nat /\ (b <= x \/ Unfinished(q.tail) \/ Malformed(q.tail))
      BY <2>3 DEF Predictable
    <3> HIDE DEF x
    <3>2. a <= x \/ Unfinished(q.tail) \/ Malformed(q.tail)
      BY <2>4, <3>1
    <3> QED
      BY <3>2 DEF Predictable, x
  <2> DEFINE c == Came(q, a)
             d == Came(q, b)
             s == buffer \o SubSeq(stream, arrived + 1, arrived + n)
  <2>6. requests = SubSeq(q.requests, 1, c) /\ buffer = Rest(q, c, a)
    BY <2>1, <2>5 DEF Follows, Exact
  <2>7. /\ c \in 0 .. N /\ Offset(q, c) <= a /\ c \in Nat /\ Offset(q, c) \in Nat
        /\ d \in 0 .. N /\ Offset(q, d) <= b /\ d \in Nat
        /\ c <= d
    <3>1. c \in 0 .. N /\ Offset(q, c) <= a /\ c \in Nat /\ Offset(q, c) \in Nat
      <4>1. c \in 0 .. N /\ Offset(q, c) <= a
        BY <1>1, <2>4, CameIs
      <4> HIDE DEF c
      <4>2. c \in Nat
        BY <2>3, <4>1
      <4> QED
        BY <2>3, <4>1, <4>2
    <3>2. d \in 0 .. N /\ Offset(q, d) <= b /\ \A k \in 0 .. N : Offset(q, k) <= b => k <= d
      BY <1>1, <2>4, CameIs
    <3>3. Offset(q, c) <= b
      <4> DEFINE x == Offset(q, c)
      <4>1. x \in Nat /\ x <= a
        BY <3>1
      <4> HIDE DEF x
      <4>2. x <= b
        BY <2>4, <4>1
      <4> QED
        BY <4>2 DEF x
    <3> QED
      BY <3>1, <3>2, <3>3
  <2>8. s = Rest(q, c, b)
    <3>1. SubSeq(st, Offset(q, c) + 1, a) \o SubSeq(st, a + 1, b) = SubSeq(st, Offset(q, c) + 1, b)
      <4> DEFINE x == Offset(q, c)
      <4>1. x \in Nat /\ x <= a
        BY <2>7
      <4>2. a <= b
        BY <2>4
      <4> HIDE DEF x, a, b, st
      <4>3. SubSeq(st, x + 1, a) \o SubSeq(st, a + 1, b) = SubSeq(st, x + 1, b)
        BY <2>3, <2>4, <4>1, <4>2, Joined
      <4> QED
        BY <4>3 DEF x
    <3> QED
      BY <2>2, <2>6, <3>1 DEF Rest
  <2> DEFINE list == SubSeq(q.requests, c + 1, d)
  <2>9. PICK verdict \in {Waiting, Throwing} :
          /\ ExtractRequests(Rest(q, c, b)) = Taken(verdict, Rest(q, d, b), list)
          /\ verdict = Throwing => Offset(q, N) < b /\ ~ Unfinished(q.tail)
          /\ Malformed(q.tail) /\ b = Len(st) => verdict = Throwing
    <3>1. b <= Offset(q, N) \/ Unfinished(q.tail) \/ Malformed(q.tail)
      BY DEF Predictable
    <3> QED
      BY <1>1, <2>4, <3>1, Extracting
  <2>10. result = Taken(verdict, Rest(q, d, b), list)
    BY <2>8, <2>9
  <2>11. SubSeq(q.requests, 1, c) \o list = SubSeq(q.requests, 1, d)
    <3> DEFINE rs == q.requests
    <3>1. /\ rs \in Seq(Seq(Seq(Part))) /\ c \in Nat /\ d \in Nat
          /\ c <= d /\ d \in 0 .. Len(rs)
      BY <2>3, <2>7, Zenon
    <3> HIDE DEF c, d, rs
    <3>2. SubSeq(rs, 1, c) \o SubSeq(rs, c + 1, d) = SubSeq(rs, 1, d)
      BY <3>1, JoinedFromFirst, Zenon
    <3> QED
      BY <3>2, Zenon DEF rs
  <2> HIDE DEF result
  <2>12. /\ result.then = verdict.then /\ result.rest = Rest(q, d, b) /\ result.requests = list
    <3> DEFINE then == verdict.then
               rest == Rest(q, d, b)
    <3>1. result = [then |-> then, rest |-> rest, requests |-> list]
      BY <2>10, Zenon DEF Taken
    <3> HIDE DEF then, rest, list
    <3>2. result.then = then /\ result.rest = rest /\ result.requests = list
      BY <3>1
    <3> QED
      BY <3>2 DEF then, rest
  <2>13. CASE verdict = Throwing
    <3>1. result.then = "throw"
      BY <2>12, <2>13, Verdicts
    <3>2. open' = FALSE /\ requests' = SubSeq(q.requests, 1, c)
      BY <2>1, <2>6, <3>1
    <3> QED
      BY <2>7, <2>9, <2>13, <3>2
  <2>14. CASE verdict = Waiting
    <3>1. result.then # "throw"
      BY <2>12, <2>14, Verdicts
    <3>2. open' /\ buffer' = Rest(q, d, b) /\ requests' = SubSeq(q.requests, 1, d)
      BY <2>1, <2>6, <2>11, <2>12, <3>1
    <3>3. Exact'
      BY <2>1, <3>2 DEF Exact
    <3>4. Waiting # Throwing
      BY DEF Waiting, Throwing
    <3> QED
      BY <2>9, <2>14, <3>2, <3>3, <3>4
  <2> QED
    BY <2>9, <2>13, <2>14
<1> QED
  BY <1>2, <1>3 DEF Next

\* What holds of every reachable state: the types, and that the requests follow the stream
\* as long as it consists of requests, one that is not finished, or nonsense.
CodecInv == TypeInv /\ Follows

LEMMA CodecInvariant == Spec => []CodecInv
<1>1. Init => CodecInv
  BY TypeInit, FollowsInit DEF CodecInv
<1>2. CodecInv /\ [Next]_vars => CodecInv'
  BY TypeStep, FollowsStep DEF CodecInv
<1> QED
  BY <1>1, <1>2, PTL DEF Spec

\* What Foreseen says of a stream and of how much of it has arrived.
LEMMA ForeseenIs ==
  ASSUME CodecInv, Foreseen
  PROVE  /\ sent \in Sent /\ arrived \in Nat /\ Ends(Len(sent.requests)) \in Nat
         /\ Len(sent.requests) \in Nat /\ sent.requests \in Seq(Seq(Seq(Part)))
         /\ Complete \in 0 .. Len(sent.requests)
         /\ Ends(Len(sent.requests)) < arrived => Complete = Len(sent.requests)
         /\ ~ Predictable(sent, arrived) => WrapsToLineEnd /\ Ends(Len(sent.requests)) < arrived
<1> DEFINE n == Len(sent.requests)
           x == Offset(sent, n)
           c == Came(sent, arrived)
<1>1. sent \in Sent /\ arrived \in 0 .. Len(stream)
  BY DEF CodecInv, TypeInv
<1>2. n \in Nat /\ x \in Nat /\ sent.requests \in Seq(Seq(Seq(Part))) /\ arrived \in Nat
  <2>1. /\ n \in Nat /\ sent.requests \in Seq(Seq(Seq(Part)))
        /\ \A k \in 0 .. n : Offset(sent, k) \in Nat
    BY <1>1, StreamParts
  <2>2. n \in 0 .. n
    BY <2>1
  <2> QED
    BY <1>1, <2>1, <2>2
<1>3. c \in 0 .. n /\ (x <= arrived => c = n)
  BY <1>1, <1>2, CameIs
<1>4. Ends(n) = x /\ Complete = c
  BY Streams
<1> HIDE DEF x, c, n
<1>5. x < arrived => c = n
  BY <1>2, <1>3
<1>6. \/ arrived <= x \/ Unfinished(sent.tail) \/ Malformed(sent.tail)
      \/ WrapsToLineEnd /\ x < arrived
  <2>1. arrived <= x \/ x < arrived
    BY <1>2
  <2> QED
    BY <2>1 DEF Foreseen
<1>7. ~ Predictable(sent, arrived) => WrapsToLineEnd /\ x < arrived
  <2>1. Predictable(sent, arrived)
          <=> arrived <= x \/ Unfinished(sent.tail) \/ Malformed(sent.tail)
    BY Zenon DEF Predictable, x, n
  <2> QED
    BY <1>6, <2>1
<1> QED
  BY <1>1, <1>2, <1>3, <1>4, <1>5, <1>7 DEF n

\* Wherever the stream is cut into reads, the connection hands over exactly the requests
\* that have arrived as a whole and buffers what has arrived of the next one, and hands
\* over a part of them when it throws (ExtractRequests).
THEOREM RequestsFollowStreamHolds == Spec => [](Foreseen => RequestsFollowStream)
<1>1. CodecInv => (Foreseen => RequestsFollowStream)
  <2> SUFFICES ASSUME CodecInv, Foreseen PROVE RequestsFollowStream
    OBVIOUS
  <2> DEFINE n == Len(sent.requests)
  <2>1. /\ sent \in Sent /\ arrived \in Nat /\ Ends(n) \in Nat
        /\ n \in Nat /\ sent.requests \in Seq(Seq(Seq(Part)))
        /\ ~ Predictable(sent, arrived) => WrapsToLineEnd /\ Ends(n) < arrived
    BY ForeseenIs
  <2>2. CASE ~ Predictable(sent, arrived)
    <3>1. WrapsToLineEnd /\ arrived > Ends(n)
      BY <2>1, <2>2
    <3> QED
      BY <3>1 DEF RequestsFollowStream
  <2>3. CASE Predictable(sent, arrived)
    <3>1. CASE open
      <4>1. Exact
        BY <2>3, <3>1 DEF CodecInv, Follows
      <4>2. /\ requests = SubSeq(sent.requests, 1, Complete)
            /\ buffer = SubSeq(stream, Ends(Complete) + 1, arrived)
        BY <4>1, Streams DEF Exact, Rest
      <4> QED
        BY <3>1, <4>2 DEF RequestsFollowStream
    <3>2. CASE ~ open
      <4>1. PICK c \in 0 .. n : requests = SubSeq(sent.requests, 1, c)
        BY <2>3, <3>2 DEF CodecInv, Follows
      <4>2. IsPrefix(requests, sent.requests)
        <5>1. 0 \in Nat /\ c \in Nat /\ 0 <= c /\ c <= n /\ 0 + 1 = 1 /\ c - 0 = c
          BY <2>1
        <5>2. Len(requests) = c
          BY <2>1, <4>1, <5>1, Cutting
        <5>3. requests \in Seq(Seq(Seq(Part)))
          BY DEF CodecInv, TypeInv
        <5>4. SubSeq(requests, 1, Len(requests)) = requests
          BY <5>3, SubSeqFull
        <5> QED
          BY <4>1, <5>1, <5>2, <5>4 DEF IsPrefix
      <4> QED
        BY <3>2, <4>2 DEF RequestsFollowStream
    <3> QED
      BY <3>1, <3>2
  <2> QED
    BY <2>2, <2>3
<1> QED
  BY <1>1, CodecInvariant, PTL

\* No cut of a stream makes the codec throw at a request or a part of one: when it
\* throws, nonsense has begun to arrive, or a length that wraps (TryExtractResp).
THEOREM OnlyNonsenseThrowsHolds == Spec => [](Foreseen => OnlyNonsenseThrows)
<1>1. CodecInv => (Foreseen => OnlyNonsenseThrows)
  <2> SUFFICES ASSUME CodecInv, Foreseen, ~ open
               PROVE  /\ sent.tail \in Nonsense \/ WrapsToLineEnd
                      /\ arrived > Ends(Len(sent.requests))
    BY DEF OnlyNonsenseThrows
  <2> DEFINE x == Ends(Len(sent.requests))
  <2>1. /\ arrived \in Nat /\ x \in Nat
        /\ ~ Predictable(sent, arrived) => WrapsToLineEnd /\ x < arrived
    BY ForeseenIs
  <2>2. Predictable(sent, arrived) => x < arrived /\ ~ Unfinished(sent.tail)
    BY Streams DEF CodecInv, Follows
  <2>3. x < arrived
    BY <2>1, <2>2
  <2> HIDE DEF x
  <2>4. arrived > x
    BY <2>1, <2>3
  <2>5. sent.tail \in Nonsense \/ WrapsToLineEnd
    BY <2>1, <2>2 DEF Foreseen
  <2> QED
    BY <2>4, <2>5 DEF x
<1> QED
  BY <1>1, CodecInvariant, PTL

\* Nonsense is not waited upon for ever: when all of it has arrived the codec has thrown
\* (TryExtractResp).
THEOREM NonsenseThrowsHolds == Spec => [](Foreseen => NonsenseThrows)
<1>1. CodecInv => (Foreseen => NonsenseThrows)
  <2> SUFFICES ASSUME CodecInv, Foreseen, arrived = Len(stream), sent.tail \in Nonsense
               PROVE  ~ open
    BY DEF NonsenseThrows
  <2>1. Malformed(sent.tail)
    BY DEF Foreseen
  <2>2. Predictable(sent, arrived)
    BY <2>1 DEF Predictable
  <2> QED
    BY <2>1, <2>2 DEF CodecInv, Follows
<1> QED
  BY <1>1, CodecInvariant, PTL

=============================================================================
