----------------------------- MODULE RequestsProofs -----------------------------
(***************************************************************************)
(* What the keys are worth, and what is answered for them.                 *)
(*                                                                         *)
(* Whatever the parameters, two calls of GenerateCacheKey return the same  *)
(* key only for the same metric and instance, and for the same filters if  *)
(* their values are plain (KeysTellApart); and the pattern for a metric at *)
(* an instance reaches the keys of both and no others                      *)
(* (PatternsReachTheirKeys).                                               *)
(*                                                                         *)
(* Join is undone from the end: what follows the last delimiter is the     *)
(* last text.  The glob is followed token by token: StepsExist says that   *)
(* the recursive function of its definition exists, and what it returns    *)
(* after n tokens is an invariant of n (GlobPrefix).  A key is reached by  *)
(* a pattern if and only if it has the five colons of the pattern, where   *)
(* the pattern has them (KeyPlaces).  The library's induction theorems     *)
(* cannot be instantiated by the provers: induction is by the least        *)
(* element of a set of numbers (UpTo, FromZeroTo).                         *)
(*                                                                         *)
(* Whatever the clients ask, and however their requests, the cache's       *)
(* expiry, invalidations and Redis interleave: what a client gets was      *)
(* computed for his own question, and his question was one that he may     *)
(* ask, as far as his key tells his question from others.  A hit looks at  *)
(* nothing but the key.  The argument is therefore that every entry, in    *)
(* the cache or in a request's hands, was computed for admitted questions  *)
(* with that very key, one of which was validated (EntryFor), and that a   *)
(* key of plain values stands for one question (KeysTellApart): what was   *)
(* validated when the entry was made need not be validated again.          *)
(***************************************************************************)
EXTENDS Requests, SequenceTheorems, FiniteSetTheorems, WellFoundedInduction, TLAPS

-----------------------------------------------------------------------------
(* Induction.                                                              *)

(* A nonempty set of numbers has a least one.                              *)
LEMMA Least ==
    ASSUME NEW S \in SUBSET Nat, S # {}
    PROVE  \E n \in S : \A m \in S : n <= m
<1> DEFINE R == OpToRel(<, Nat)
<1>1. \A m, n \in Nat : <<m, n>> \in R <=> m < n
    BY DEF OpToRel
<1>2. IsWellFoundedOn(R, Nat)
    BY NatLessThanWellFounded
<1> HIDE DEF R
<1>3. PICK n \in S : \A m \in S : ~(<<m, n>> \in R)
    BY <1>2, WFMin
<1>4. ASSUME NEW m \in S PROVE n <= m
    <2>1. m \in Nat /\ n \in Nat
        OBVIOUS
    <2>2. ~(m < n)
        BY <1>1, <1>3, <2>1
    <2> QED
        BY <2>1, <2>2
<1> QED
    BY <1>4

(* Induction up to n, over a set instead of a predicate.                   *)
LEMMA UpTo ==
    ASSUME NEW n \in Nat, NEW S,
           1 \in S, \A i \in 1..(n - 1) : i \in S => i + 1 \in S
    PROVE  1..n \subseteq S
<1> SUFFICES ASSUME ~(1..n \subseteq S) PROVE FALSE
    OBVIOUS
<1> DEFINE T == {i \in 1..n : i \notin S}
<1>1. T \in SUBSET Nat /\ T # {}
    OBVIOUS
<1>2. PICK i \in T : \A j \in T : i <= j
    BY <1>1, Least
<1>3. i \in 1..n /\ i \notin S /\ i # 1
    BY <1>2
<1>4. i - 1 \in 1..(n - 1) /\ i - 1 \notin T
    BY <1>2, <1>3
<1>5. i - 1 \in S
    BY <1>3, <1>4
<1> QED
    BY <1>3, <1>4, <1>5

-----------------------------------------------------------------------------
(* Concatenation of texts.                                                 *)

(* FlattenSeq is what its recursive definition says: the texts are         *)
(* appended one by one.                                                    *)
LEMMA FlattenSteps ==
    ASSUME NEW texts \in Seq(Text), texts # <<>>
    PROVE  \E f : /\ f[1] = texts[1]
                  /\ \A i \in 2..Len(texts) : f[i] = f[i - 1] \o texts[i]
                  /\ \A i \in 1..Len(texts) : f[i] \in Text
                  /\ FlattenSeq(texts) = f[Len(texts)]
<1> DEFINE N == Len(texts)
           IsFlatten(f, n) ==
               f = [i \in 1..n |-> IF i = 1 THEN texts[i] ELSE f[i - 1] \o texts[i]]
           S == {n \in Nat : \E f : IsFlatten(f, n)}
<1>1. N \in Nat \ {0} /\ \A i \in 1..N : texts[i] \in Text
    BY EmptySeq, LenProperties
<1>2. 1 \in S
    <2> DEFINE f == [i \in 1..1 |-> texts[1]]
    <2>1. IsFlatten(f, 1)
        OBVIOUS
    <2> QED
        BY <2>1
<1>3. ASSUME NEW n \in 1..(N - 1), n \in S PROVE n + 1 \in S
    <2>1. PICK f : IsFlatten(f, n)
        BY <1>3
    <2>2. \A i \in 1..n : f[i] = IF i = 1 THEN texts[i] ELSE f[i - 1] \o texts[i]
        BY ONLY <2>1
    <2> DEFINE g == [i \in 1..(n + 1) |->
                        IF i = n + 1 THEN f[n] \o texts[n + 1] ELSE f[i]]
    <2>3. n \in Nat \ {0} /\ n \in 1..(n + 1) /\ n + 1 \in 1..(n + 1)
        BY <1>1
    <2>4. g[n + 1] = f[n] \o texts[n + 1] /\ \A i \in 1..n : g[i] = f[i]
        <3>1. g[n + 1] = f[n] \o texts[n + 1]
            BY ONLY <2>3
        <3>2. \A i \in 1..n : i \in 1..(n + 1) /\ i # n + 1
            BY <2>3
        <3> QED
            BY ONLY <3>1, <3>2
    <2>5. \A i \in 1..(n + 1) :
             g[i] = IF i = 1 THEN texts[i] ELSE g[i - 1] \o texts[i]
        <3> SUFFICES ASSUME NEW i \in 1..(n + 1)
                     PROVE  g[i] = IF i = 1 THEN texts[i] ELSE g[i - 1] \o texts[i]
            OBVIOUS
        <3> HIDE DEF g
        <3>1. CASE i = n + 1
            <4>1. i # 1 /\ i - 1 = n /\ n \in 1..n
                BY <2>3, <3>1
            <4> QED
                BY <2>4, <3>1, <4>1
        <3>2. CASE i \in 1..n
            <4>1. i = 1 \/ i - 1 \in 1..n
                BY <2>3, <3>2
            <4> QED
                BY <2>2, <2>4, <3>2, <4>1
        <3> QED
            BY <2>3, <3>1, <3>2
    <2>6. IsFlatten(g, n + 1)
        BY <2>5
    <2> HIDE DEF g, IsFlatten
    <2> QED
        BY <2>3, <2>6
<1>4. 1..N \subseteq S
    <2> HIDE DEF S, N
    <2> QED
        BY <1>1, <1>2, <1>3, UpTo
<1>5. N \in S
    <2> HIDE DEF S, N
    <2> QED
        BY <1>1, <1>4
<1>6. \E f : IsFlatten(f, N)
    BY <1>5
<1>7. PICK f : IsFlatten(f, N) /\ FlattenSeq(texts) = f[N]
    BY <1>1, <1>6 DEF FlattenSeq
<1>8. \A i \in 1..N : f[i] = IF i = 1 THEN texts[i] ELSE f[i - 1] \o texts[i]
    BY ONLY <1>7
<1> HIDE DEF N
<1>9. /\ f[1] = texts[1]
      /\ \A i \in 2..N : f[i] = f[i - 1] \o texts[i]
    <2>1. 1 \in 1..N /\ \A i \in 2..N : i \in 1..N /\ i # 1
        BY <1>1
    <2> QED
        BY ONLY <1>8, <2>1
<1>10. \A i \in 1..N : f[i] \in Text
    <2> DEFINE T == {i \in 1..N : f[i] \in Text}
    <2>1. 1 \in T
        BY <1>1, <1>9
    <2>2. ASSUME NEW i \in 1..(N - 1), i \in T PROVE i + 1 \in T
        <3>1. i + 1 \in 2..N /\ f[i] \in Text /\ texts[i + 1] \in Text
            BY <1>1, <2>2
        <3>2. f[i + 1] = f[i] \o texts[i + 1]
            <4>1. (i + 1) - 1 = i
                BY <1>1
            <4> QED
                BY <1>9, <3>1, <4>1
        <3>3. f[i + 1] \in Text
            BY <3>1, <3>2 DEF Text
        <3> QED
            BY <3>1, <3>3
    <2> HIDE DEF T
    <2>3. 1..N \subseteq T
        BY <1>1, <2>1, <2>2, UpTo
    <2> QED
        BY <2>3 DEF T
<1> QED
    BY <1>7, <1>9, <1>10 DEF N

(* The tokens of a concatenation are those of its texts.                   *)
LEMMA FlattenTokens ==
    ASSUME NEW texts \in Seq(Text), texts # <<>>
    PROVE  /\ FlattenSeq(texts) \in Text
           /\ \A token :
                 (\E k \in 1..Len(FlattenSeq(texts)) : FlattenSeq(texts)[k] = token)
                    <=> \E i \in 1..Len(texts) :
                           \E k \in 1..Len(texts[i]) : texts[i][k] = token
<1> DEFINE N == Len(texts)
<1>1. N \in Nat \ {0} /\ \A i \in 1..N : texts[i] \in Text
    BY EmptySeq, LenProperties
<1>2. PICK f : /\ f[1] = texts[1]
               /\ \A i \in 2..N : f[i] = f[i - 1] \o texts[i]
               /\ \A i \in 1..N : f[i] \in Text
               /\ FlattenSeq(texts) = f[N]
    BY FlattenSteps
<1> HIDE DEF N
<1> DEFINE In(text, token) == \E k \in 1..Len(text) : text[k] = token
           Q == {n \in 1..N : \A token : In(f[n], token)
                                 <=> \E i \in 1..n : In(texts[i], token)}
<1>3. 1 \in Q
    <2>1. 1..1 = {1}
        OBVIOUS
    <2> QED
        BY <1>1, <1>2, <2>1
<1>4. ASSUME NEW n \in 1..(N - 1), n \in Q PROVE n + 1 \in Q
    <2>1. /\ n + 1 \in 2..N /\ n \in 1..N /\ (n + 1) - 1 = n
          /\ 1..(n + 1) = (1..n) \cup {n + 1}
        BY <1>1
    <2>2. /\ f[n + 1] = f[n] \o texts[n + 1]
          /\ f[n] \in Text /\ texts[n + 1] \in Text
        <3>1. f[n + 1] = f[(n + 1) - 1] \o texts[n + 1]
            BY <1>2, <2>1
        <3>2. n + 1 \in 1..N
            BY <1>1
        <3> QED
            BY <1>1, <1>2, <2>1, <3>1, <3>2
    <2>3. \A token : In(f[n + 1], token) <=> In(f[n], token) \/ In(texts[n + 1], token)
        <3> DEFINE a == f[n]  b == texts[n + 1]
        <3> HIDE DEF a, b
        <3>1. ASSUME NEW u \in Text, NEW v \in Text, NEW token
              PROVE  In(u \o v, token) <=> In(u, token) \/ In(v, token)
            <4>1. /\ Len(u) \in Nat /\ Len(v) \in Nat
                  /\ Len(u \o v) = Len(u) + Len(v)
                  /\ \A k \in 1..Len(u) : (u \o v)[k] = u[k]
                  /\ \A k \in 1..(Len(u) + Len(v)) : k > Len(u) => (u \o v)[k] = v[k - Len(u)]
                BY ConcatProperties, LenProperties DEF Text
            <4>2. ASSUME NEW k \in 1..Len(u) PROVE k \in 1..Len(u \o v)
                BY <4>1
            <4>3. ASSUME NEW k \in 1..Len(v)
                  PROVE  /\ k + Len(u) \in 1..Len(u \o v)
                         /\ (u \o v)[k + Len(u)] = v[k]
                BY <4>1
            <4>4. ASSUME NEW k \in 1..Len(u \o v)
                  PROVE  \/ k \in 1..Len(u)
                         \/ k > Len(u) /\ k - Len(u) \in 1..Len(v)
                BY <4>1
            <4> QED
                BY <4>1, <4>2, <4>3, <4>4
        <3> HIDE DEF In
        <3> QED
            BY <2>2, <3>1
    <2> HIDE DEF In
    <2>4. \A token : In(f[n], token) <=> \E i \in 1..n : In(texts[i], token)
        BY <1>4
    <2> QED
        BY <2>1, <2>3, <2>4
<1>5. 1..N \subseteq Q
    <2> HIDE DEF Q
    <2> QED
        BY <1>1, <1>3, <1>4, UpTo
<1>6. \A token : In(f[N], token) <=> \E i \in 1..N : In(texts[i], token)
    BY <1>1, <1>5
<1> QED
    BY <1>1, <1>2, <1>6 DEF N

(* Join as a sequence of appendings.                                       *)
LEMMA JoinedSteps ==
    ASSUME NEW texts \in Seq(Text), texts # <<>>, NEW d \in Tokens
    PROVE  \E f : /\ f[1] = texts[1]
                  /\ \A i \in 2..Len(texts) : f[i] = f[i - 1] \o (<<d>> \o texts[i])
                  /\ \A i \in 1..Len(texts) : f[i] \in Text
                  /\ Joined(texts, d) = f[Len(texts)]
<1> DEFINE N == Len(texts)
           parts == [i \in 1..N |-> IF i = 1 THEN texts[i] ELSE <<d>> \o texts[i]]
<1>1. /\ N \in Nat \ {0} /\ DOMAIN texts = 1..N
      /\ \A i \in 1..N : texts[i] \in Text
    BY EmptySeq, LenProperties
<1>2. \A i \in 1..N : <<d>> \o texts[i] \in Text
    <2>1. <<d>> \in Seq(Tokens)
        OBVIOUS
    <2> QED
        BY <1>1, <2>1, ConcatProperties DEF Text
<1>3. \A i \in 1..N : parts[i] \in Text
    BY <1>1, <1>2
<1>4. parts \in Seq(Text) /\ Len(parts) = N
    <2>1. parts \in [1..N -> Text]
        BY <1>3
    <2> HIDE DEF parts, N
    <2>2. parts \in Seq(Text) /\ DOMAIN parts = 1..N
        BY <1>1, <2>1, SeqDef
    <2> QED
        BY <1>1, <2>2, LenProperties
<1>5. parts # <<>>
    BY <1>1, <1>4
<1>6. Joined(texts, d) = FlattenSeq(parts)
    BY <1>1 DEF Joined
<1>7. /\ parts[1] = texts[1]
      /\ \A i \in 2..N : parts[i] = <<d>> \o texts[i]
    BY <1>1
<1> HIDE DEF parts, N
<1>8. PICK f : /\ f[1] = parts[1]
               /\ \A i \in 2..N : f[i] = f[i - 1] \o parts[i]
               /\ \A i \in 1..N : f[i] \in Text
               /\ FlattenSeq(parts) = f[N]
    BY <1>4, <1>5, FlattenSteps
<1> QED
    BY <1>6, <1>7, <1>8 DEF N

-----------------------------------------------------------------------------
(* Splitting.                                                              *)

(* A text that ends in the text u after a delimiter.                       *)
Splits(t, a, d, u) == t = a \o (<<d>> \o u)

(* A text that is split at a delimiter: what is where.                     *)
LEMMA AfterDelimiter ==
    ASSUME NEW d \in Tokens, NEW a \in Text, NEW u \in Text,
           NEW t, Splits(t, a, d, u)
    PROVE  /\ t \in Text
           /\ Len(t) = Len(a) + 1 + Len(u)
           /\ t[Len(a) + 1] = d
           /\ \A k \in 1..Len(a) : t[k] = a[k]
           /\ \A k \in 1..Len(u) : t[Len(a) + 1 + k] = u[k]
<1> DEFINE du == <<d>> \o u
<1>0. t = a \o du
    BY DEF Splits
<1>1. <<d>> \in Seq(Tokens) /\ Len(<<d>>) = 1 /\ <<d>>[1] = d
    OBVIOUS
<1>2. Len(a) \in Nat /\ Len(u) \in Nat
    BY LenProperties DEF Text
<1>3. /\ du \in Seq(Tokens) /\ Len(du) = 1 + Len(u)
      /\ \A k \in 1..(1 + Len(u)) : du[k] = IF k <= 1 THEN <<d>>[k] ELSE u[k - 1]
    BY <1>1, ConcatProperties DEF Text
<1> HIDE DEF du
<1>4. /\ t \in Seq(Tokens) /\ Len(t) = Len(a) + Len(du)
      /\ \A k \in 1..(Len(a) + Len(du)) :
            t[k] = IF k <= Len(a) THEN a[k] ELSE du[k - Len(a)]
    BY <1>0, <1>3, ConcatProperties DEF Text
<1>5. du[1] = d /\ \A k \in 1..Len(u) : du[1 + k] = u[k]
    <2>1. ASSUME NEW k \in 1..Len(u) PROVE du[1 + k] = u[k]
        <3>1. 1 + k \in 1..(1 + Len(u)) /\ ~(1 + k <= 1) /\ (1 + k) - 1 = k
            BY <1>2
        <3> QED
            BY <1>3, <3>1
    <2> QED
        BY <1>1, <1>2, <1>3, <2>1
<1>6. t[Len(a) + 1] = d
    <2>1. /\ Len(a) + 1 \in 1..(Len(a) + Len(du)) /\ ~(Len(a) + 1 <= Len(a))
          /\ (Len(a) + 1) - Len(a) = 1
        BY <1>2, <1>3
    <2> QED
        BY <1>4, <1>5, <2>1
<1>7. ASSUME NEW k \in 1..Len(a) PROVE t[k] = a[k]
    BY <1>2, <1>3, <1>4
<1>8. ASSUME NEW k \in 1..Len(u) PROVE t[Len(a) + 1 + k] = u[k]
    <2>1. /\ Len(a) + 1 + k \in 1..(Len(a) + Len(du)) /\ ~(Len(a) + 1 + k <= Len(a))
          /\ (Len(a) + 1 + k) - Len(a) = 1 + k
        BY <1>2, <1>3
    <2>2. t[Len(a) + 1 + k] = du[1 + k]
        BY <1>4, <2>1
    <2> QED
        BY <1>5, <2>2
<1> QED
    BY <1>2, <1>3, <1>4, <1>6, <1>7, <1>8 DEF Text

(* What follows the last delimiter can be told, and so can what precedes   *)
(* it.                                                                     *)
LEMMA LastSegment ==
    ASSUME NEW d \in Tokens, NEW a \in Text, NEW u \in Text,
           NEW b \in Text, NEW v \in Text, Free(u, d), Free(v, d),
           NEW t, Splits(t, a, d, u), Splits(t, b, d, v)
    PROVE  a = b /\ u = v
<1>1. /\ Len(a) \in Nat /\ Len(b) \in Nat /\ Len(u) \in Nat /\ Len(v) \in Nat
    BY LenProperties DEF Text
<1>2. /\ Len(t) = Len(a) + 1 + Len(u)
      /\ t[Len(a) + 1] = d
      /\ \A k \in 1..Len(a) : t[k] = a[k]
      /\ \A k \in 1..Len(u) : t[Len(a) + 1 + k] = u[k]
    BY AfterDelimiter
<1>3. /\ Len(t) = Len(b) + 1 + Len(v)
      /\ t[Len(b) + 1] = d
      /\ \A k \in 1..Len(b) : t[k] = b[k]
      /\ \A k \in 1..Len(v) : t[Len(b) + 1 + k] = v[k]
    BY AfterDelimiter
<1>4. ~(Len(a) < Len(b))
    <2> SUFFICES ASSUME Len(a) < Len(b) PROVE FALSE
        OBVIOUS
    <2> DEFINE k == Len(b) - Len(a)
    <2>1. k \in 1..Len(u) /\ Len(a) + 1 + k = Len(b) + 1
        BY <1>1, <1>2, <1>3
    <2> HIDE DEF k
    <2>2. u[k] = d
        BY <1>2, <1>3, <2>1
    <2> QED
        BY <2>1, <2>2 DEF Free
<1>5. ~(Len(b) < Len(a))
    <2> SUFFICES ASSUME Len(b) < Len(a) PROVE FALSE
        OBVIOUS
    <2> DEFINE k == Len(a) - Len(b)
    <2>1. k \in 1..Len(v) /\ Len(b) + 1 + k = Len(a) + 1
        BY <1>1, <1>2, <1>3
    <2> HIDE DEF k
    <2>2. v[k] = d
        BY <1>2, <1>3, <2>1
    <2> QED
        BY <2>1, <2>2 DEF Free
<1>6. Len(a) = Len(b) /\ Len(u) = Len(v)
    BY <1>1, <1>2, <1>3, <1>4, <1>5
<1>7. a = b
    BY <1>2, <1>3, <1>6, SeqEqual DEF Text
<1>8. u = v
    BY <1>2, <1>3, <1>6, SeqEqual DEF Text
<1> QED
    BY <1>7, <1>8

(* A text without the delimiter is not split by it.                        *)
LEMMA NoDelimiter ==
    ASSUME NEW d \in Tokens, NEW u \in Text, Free(u, d),
           NEW a \in Text, NEW v \in Text, Splits(u, a, d, v)
    PROVE  FALSE
<1>1. Len(u) = Len(a) + 1 + Len(v) /\ u[Len(a) + 1] = d
    BY AfterDelimiter
<1>2. Len(a) \in Nat /\ Len(v) \in Nat
    BY LenProperties DEF Text
<1>3. Len(a) + 1 \in 1..Len(u)
    BY <1>1, <1>2
<1> QED
    BY <1>1, <1>3 DEF Free

(* Join can be undone if no text contains the delimiter.                   *)
LEMMA JoinedInjective ==
    ASSUME NEW d \in Tokens,
           NEW s \in Seq(Text), s # <<>>, \A i \in 1..Len(s) : Free(s[i], d),
           NEW t \in Seq(Text), t # <<>>, \A i \in 1..Len(t) : Free(t[i], d),
           Joined(s, d) = Joined(t, d)
    PROVE  s = t
<1> DEFINE M == Len(s)
           N == Len(t)
<1>1. /\ M \in Nat \ {0} /\ \A i \in 1..M : s[i] \in Text
      /\ N \in Nat \ {0} /\ \A i \in 1..N : t[i] \in Text
    BY EmptySeq, LenProperties
<1>2. PICK f : /\ f[1] = s[1]
               /\ \A i \in 2..M : f[i] = f[i - 1] \o (<<d>> \o s[i])
               /\ \A i \in 1..M : f[i] \in Text
               /\ Joined(s, d) = f[M]
    BY JoinedSteps
<1>3. PICK g : /\ g[1] = t[1]
               /\ \A i \in 2..N : g[i] = g[i - 1] \o (<<d>> \o t[i])
               /\ \A i \in 1..N : g[i] \in Text
               /\ Joined(t, d) = g[N]
    BY JoinedSteps
<1>4. /\ \A i \in 1..M : Free(s[i], d)
      /\ \A i \in 1..N : Free(t[i], d)
    OBVIOUS
<1> HIDE DEF M, N
<1> DEFINE Same(i, j) == i = j /\ \A k \in 1..i : s[k] = t[k]
           Q == {i \in 1..M : \A j \in 1..N : f[i] = g[j] => Same(i, j)}
<1>5. ASSUME NEW j \in 1..N, j # 1
      PROVE  /\ j \in 2..N /\ j - 1 \in 1..N
             /\ Splits(g[j], g[j - 1], d, t[j])
             /\ g[j - 1] \in Text /\ t[j] \in Text
    <2>1. j \in 2..N /\ j - 1 \in 1..N
        BY <1>1, <1>5
    <2> QED
        BY <1>1, <1>3, <2>1 DEF Splits
<1>6. 1 \in Q
    <2>1. ASSUME NEW j \in 1..N, f[1] = g[j] PROVE Same(1, j)
        <3>1. CASE j = 1
            <4>1. s[1] = t[1]
                BY <1>2, <1>3, <2>1, <3>1
            <4>2. \A k \in 1..1 : k = 1
                OBVIOUS
            <4> QED
                BY <3>1, <4>1, <4>2
        <3>2. CASE j # 1
            <4>1. Splits(s[1], g[j - 1], d, t[j])
                BY <1>2, <1>5, <2>1, <3>2
            <4>2. 1 \in 1..M
                BY <1>1
            <4>3. s[1] \in Text /\ Free(s[1], d)
                BY <1>1, <1>4, <4>2
            <4>4. g[j - 1] \in Text /\ t[j] \in Text
                BY <1>5, <3>2
            <4> QED
                BY <4>1, <4>3, <4>4, NoDelimiter
        <3> QED
            BY <3>1, <3>2
    <2> HIDE DEF Same
    <2> QED
        BY <1>1, <2>1
<1>7. ASSUME NEW i \in 1..(M - 1), i \in Q PROVE i + 1 \in Q
    <2>1. /\ i + 1 \in 2..M /\ i + 1 \in 1..M /\ i \in 1..M /\ (i + 1) - 1 = i
        BY <1>1
    <2>2. Splits(f[i + 1], f[i], d, s[i + 1])
        <3>1. f[i + 1] = f[(i + 1) - 1] \o (<<d>> \o s[i + 1])
            BY <1>2, <2>1
        <3> QED
            BY <2>1, <3>1 DEF Splits
    <2>3. /\ f[i] \in Text /\ s[i + 1] \in Text /\ Free(s[i + 1], d)
        BY <1>1, <1>2, <1>4, <2>1
    <2>4. ASSUME NEW j \in 1..N, f[i + 1] = g[j] PROVE Same(i + 1, j)
        <3>1. CASE j = 1
            <4>1. Splits(t[1], f[i], d, s[i + 1])
                BY <1>3, <2>2, <2>4, <3>1
            <4>2. t[1] \in Text /\ Free(t[1], d)
                BY <1>1, <1>4, <3>1
            <4> QED
                BY <2>3, <4>1, <4>2, NoDelimiter
        <3>2. CASE j # 1
            <4>0. j \in Nat
                BY <1>1
            <4>1. /\ j - 1 \in 1..N
                  /\ Splits(g[j], g[j - 1], d, t[j])
                  /\ g[j - 1] \in Text /\ t[j] \in Text
                BY <1>5, <3>2
            <4>2. Free(t[j], d)
                BY <1>4
            <4>3. Splits(g[j], f[i], d, s[i + 1])
                BY <2>2, <2>4
            <4>4. f[i] = g[j - 1] /\ s[i + 1] = t[j]
                BY <2>3, <4>1, <4>2, <4>3, LastSegment
            <4>5. i = j - 1 /\ \A k \in 1..i : s[k] = t[k]
                BY <1>7, <4>0, <4>1, <4>4
            <4>6. i + 1 = j /\ \A k \in 1..(i + 1) : k \in 1..i \/ k = i + 1
                BY <2>1, <4>0, <4>5
            <4> QED
                BY <4>4, <4>5, <4>6
        <3> QED
            BY <3>1, <3>2
    <2> HIDE DEF Same
    <2> QED
        BY <2>1, <2>4
<1>8. 1..M \subseteq Q
    <2> HIDE DEF Q
    <2> QED
        BY <1>1, <1>6, <1>7, UpTo
<1>9. M = N /\ \A k \in 1..M : s[k] = t[k]
    <2>1. M \in Q /\ N \in 1..N /\ f[M] = g[N]
        <3> HIDE DEF Q
        <3>1. M \in 1..M /\ N \in 1..N
            BY <1>1
        <3>2. f[M] = g[N]
            BY <1>2, <1>3
        <3> QED
            BY <1>8, <3>1, <3>2
    <2> QED
        BY <2>1
<1> QED
    BY <1>9, SeqEqual DEF M, N

(* A joined text has the delimiter and the tokens of its texts.            *)
LEMMA JoinedTokens ==
    ASSUME NEW texts \in Seq(Text), texts # <<>>, NEW d \in Tokens
    PROVE  /\ Joined(texts, d) \in Text
           /\ texts[1] # <<>> => Joined(texts, d) # <<>>
           /\ \A token : token # d /\ (\A i \in 1..Len(texts) : Free(texts[i], token))
                            => Free(Joined(texts, d), token)
<1> DEFINE N == Len(texts)
           parts == [i \in 1..N |-> IF i = 1 THEN texts[i] ELSE <<d>> \o texts[i]]
           In(text, token) == \E k \in 1..Len(text) : text[k] = token
<1>1. /\ N \in Nat \ {0} /\ DOMAIN texts = 1..N
      /\ \A i \in 1..N : texts[i] \in Text
    BY EmptySeq, LenProperties
<1>2. <<d>> \in Seq(Tokens) /\ Len(<<d>>) = 1 /\ <<d>>[1] = d
    OBVIOUS
<1>3. ASSUME NEW text \in Text
      PROVE  /\ <<d>> \o text \in Text
             /\ \A token : token # d /\ Free(text, token) => Free(<<d>> \o text, token)
    <2>1. /\ <<d>> \o text \in Seq(Tokens)
          /\ Len(<<d>> \o text) = 1 + Len(text)
          /\ \A k \in 1..(1 + Len(text)) :
                (<<d>> \o text)[k] = IF k <= 1 THEN <<d>>[k] ELSE text[k - 1]
        BY <1>2, ConcatProperties DEF Text
    <2>2. ASSUME NEW token, token # d, Free(text, token),
                 NEW k \in 1..Len(<<d>> \o text)
          PROVE  (<<d>> \o text)[k] # token
        <3>1. Len(text) \in Nat
            BY LenProperties DEF Text
        <3>2. CASE k = 1
            BY <1>2, <2>1, <2>2, <3>1, <3>2
        <3>3. CASE k # 1
            <4>1. ~(k <= 1) /\ k \in 1..(1 + Len(text)) /\ k - 1 \in 1..Len(text)
                BY <2>1, <3>1, <3>3
            <4>2. (<<d>> \o text)[k] = text[k - 1]
                BY <2>1, <4>1
            <4> QED
                BY <2>2, <4>1, <4>2 DEF Free
        <3> QED
            BY <3>2, <3>3
    <2> QED
        BY <2>1, <2>2 DEF Free, Text
<1>4. \A i \in 1..N : parts[i] = IF i = 1 THEN texts[i] ELSE <<d>> \o texts[i]
    OBVIOUS
<1>5. Joined(texts, d) = FlattenSeq(parts)
    BY <1>1 DEF Joined
<1>6. parts \in [1..N -> Text]
    BY <1>1, <1>3
<1> HIDE DEF parts, N
<1>7. parts \in Seq(Text) /\ Len(parts) = N /\ parts # <<>>
    <2>1. parts \in Seq(Text) /\ DOMAIN parts = 1..N
        BY <1>1, <1>6, SeqDef
    <2> QED
        BY <1>1, <2>1, LenProperties
<1>8. /\ FlattenSeq(parts) \in Text
      /\ \A token : In(FlattenSeq(parts), token) <=> \E i \in 1..N : In(parts[i], token)
    BY <1>7, FlattenTokens
<1>9. ASSUME texts[1] # <<>> PROVE Joined(texts, d) # <<>>
    <2>1. texts[1] \in Text /\ 1 \in 1..N /\ parts[1] = texts[1]
        BY <1>1, <1>4
    <2>2. 1 \in 1..Len(texts[1])
        BY <1>9, <2>1, EmptySeq DEF Text
    <2>3. In(parts[1], texts[1][1])
        BY <2>1, <2>2
    <2> HIDE DEF In
    <2>4. In(FlattenSeq(parts), texts[1][1])
        BY <1>8, <2>1, <2>3
    <2> QED
        BY <1>5, <2>4 DEF In
<1>10. ASSUME NEW token, token # d, \A i \in 1..Len(texts) : Free(texts[i], token)
       PROVE  Free(Joined(texts, d), token)
    <2>1. \A i \in 1..N : Free(parts[i], token)
        BY <1>1, <1>3, <1>4, <1>10 DEF N
    <2>2. \A text : Free(text, token) <=> ~In(text, token)
        BY DEF Free
    <2> HIDE DEF In
    <2> QED
        BY <1>5, <1>8, <2>1, <2>2
<1> QED
    BY <1>5, <1>8, <1>9, <1>10

-----------------------------------------------------------------------------
(* Values.                                                                 *)

(* An encoded value has as many tokens, and no colon; only one that is not *)
(* encoded can have a comma.                                               *)
LEMMA EncodedTells ==
    ASSUME NEW v \in Values
    PROVE  /\ EncodedValue(v) \in Text
           /\ Len(EncodedValue(v)) = Len(v)
           /\ Free(EncodedValue(v), Colon)
           /\ Plain(v) => Free(EncodedValue(v), Comma)
           /\ \A i \in 1..Len(v) :
                 EncodedValue(v)[i] = IF Contains(v, Colon) THEN Escape[v[i]] ELSE v[i]
<1>1. /\ Len(v) \in Nat /\ DOMAIN v = 1..Len(v)
      /\ \A i \in 1..Len(v) : v[i] \in DOMAIN Escape
    BY LenProperties DEF Values
<1>2. \A t \in DOMAIN Escape :
         t \in Tokens /\ Escape[t] \in Tokens /\ Escape[t] # Colon /\ Escape[t] # Comma
    BY CacheKeysAssumption
<1>3. CASE Contains(v, Colon)
    <2>1. EncodedValue(v) = [i \in 1..Len(v) |-> Escape[v[i]]]
        BY <1>1, <1>3 DEF EncodedValue, Encoded
    <2>2. [i \in 1..Len(v) |-> Escape[v[i]]] \in [1..Len(v) -> Tokens]
        BY <1>1, <1>2
    <2>3. EncodedValue(v) \in Seq(Tokens) /\ DOMAIN EncodedValue(v) = 1..Len(v)
        BY <1>1, <2>1, <2>2, SeqDef
    <2>4. Len(EncodedValue(v)) = Len(v)
        BY <1>1, <2>3, LenProperties
    <2>5. \A i \in 1..Len(v) : EncodedValue(v)[i] = Escape[v[i]]
        BY <2>1
    <2> QED
        BY <1>1, <1>2, <1>3, <2>3, <2>4, <2>5 DEF Text, Free
<1>4. CASE ~Contains(v, Colon)
    <2>1. EncodedValue(v) = v
        BY <1>4 DEF EncodedValue
    <2>2. Free(v, Colon) /\ (Plain(v) => Free(v, Comma))
        BY <1>4 DEF Contains, Free, Plain
    <2>3. v \in [1..Len(v) -> Tokens]
        BY <1>1, <1>2, v \in Seq(DOMAIN Escape) DEF Values
    <2>4. v \in Seq(Tokens)
        BY <1>1, <2>3, SeqDef
    <2> QED
        BY <1>1, <1>4, <2>1, <2>2, <2>4 DEF Text
<1> QED
    BY <1>3, <1>4

(* Encoding loses nothing, and what is encoded differs from plain values   *)
(* that are not.                                                           *)
LEMMA EncodedInjective ==
    ASSUME NEW v \in Values, Plain(v), NEW w \in Values, Plain(w),
           EncodedValue(v) = EncodedValue(w)
    PROVE  v = w
<1>1. /\ Len(v) = Len(w)
      /\ \A i \in 1..Len(v) :
            EncodedValue(v)[i] = IF Contains(v, Colon) THEN Escape[v[i]] ELSE v[i]
      /\ \A i \in 1..Len(v) :
            EncodedValue(w)[i] = IF Contains(w, Colon) THEN Escape[w[i]] ELSE w[i]
    BY EncodedTells
<1>2. \A i \in 1..Len(v) : v[i] \in DOMAIN Escape /\ w[i] \in DOMAIN Escape
    BY <1>1, ElementOfSeq DEF Values
<1>3. ~(Contains(v, Colon) /\ ~Contains(w, Colon))
    <2> SUFFICES ASSUME Contains(v, Colon), ~Contains(w, Colon) PROVE FALSE
        OBVIOUS
    <2>1. PICK i \in 1..Len(v) : v[i] = Colon
        BY DEF Contains
    <2>2. w[i] = Escape[Colon]
        BY <1>1, <2>1
    <2> QED
        BY <1>1, <2>2 DEF Plain, Contains
<1>4. ~(Contains(w, Colon) /\ ~Contains(v, Colon))
    <2> SUFFICES ASSUME Contains(w, Colon), ~Contains(v, Colon) PROVE FALSE
        OBVIOUS
    <2>1. PICK i \in 1..Len(v) : w[i] = Colon
        BY <1>1 DEF Contains
    <2>2. v[i] = Escape[Colon]
        BY <1>1, <2>1
    <2> QED
        BY <1>1, <2>2 DEF Plain, Contains
<1>5. ASSUME NEW i \in 1..Len(v) PROVE v[i] = w[i]
    <2>1. CASE Contains(v, Colon)
        <3>1. Escape[v[i]] = Escape[w[i]]
            BY <1>1, <1>3, <2>1
        <3> QED
            BY <1>2, <3>1, CacheKeysAssumption
    <2>2. CASE ~Contains(v, Colon)
        BY <1>1, <1>4, <2>2
    <2> QED
        BY <2>1, <2>2
<1> QED
    BY <1>1, <1>5, SeqEqual DEF Values

-----------------------------------------------------------------------------
(* Keys.                                                                   *)

(* The parameters of a query as the DTO lets them in: texts, with an       *)
(* instanceId without a colon.                                             *)
Typed(p) ==
    /\ \A name \in ParamNames : p[name] \in Values
    /\ p.instanceId \in Text /\ Free(p.instanceId, Colon)

(* The names of the filters.                                               *)
LEMMA NamesKnown ==
    /\ DOMAIN FilterNames = 1..7
    /\ ParamNames =
         {"courseId", "elementId", "groupId", "since", "topicId", "until", "userId"}
    /\ \A i \in 1..7 : /\ FilterNames[i] \in Tokens
                       /\ FilterNames[i] # Colon /\ FilterNames[i] # Comma
<1>1. /\ FilterNames[1] = "courseId" /\ FilterNames[2] = "elementId"
      /\ FilterNames[3] = "groupId" /\ FilterNames[4] = "since"
      /\ FilterNames[5] = "topicId" /\ FilterNames[6] = "until"
      /\ FilterNames[7] = "userId"
      /\ DOMAIN FilterNames = 1..7
    BY DEF FilterNames
<1>2. ASSUME NEW i \in 1..7
      PROVE  i = 1 \/ i = 2 \/ i = 3 \/ i = 4 \/ i = 5 \/ i = 6 \/ i = 7
    OBVIOUS
<1>3. \A i \in 1..7 : FilterNames[i] \in
         {"courseId", "elementId", "groupId", "since", "topicId", "until", "userId"}
    BY <1>1, <1>2
<1>4. ParamNames =
         {"courseId", "elementId", "groupId", "since", "topicId", "until", "userId"}
    <2>1. /\ 1 \in 1..7 /\ 2 \in 1..7 /\ 3 \in 1..7 /\ 4 \in 1..7
          /\ 5 \in 1..7 /\ 6 \in 1..7 /\ 7 \in 1..7
        OBVIOUS
    <2>2. \A name \in {"courseId", "elementId", "groupId", "since", "topicId",
                       "until", "userId"} : \E i \in 1..7 : FilterNames[i] = name
        BY <1>1, <2>1
    <2> QED
        BY <1>3, <2>2 DEF ParamNames
<1> QED
    BY <1>1, <1>3, <1>4, CacheKeysAssumption DEF Colon, Comma

(* The filters of a key are the parameters that are given.                 *)
LEMMA KeyFiltersGiven ==
    ASSUME NEW p
    PROVE  /\ KeyFilters(p) \in Text
           /\ \A i \in 1..Len(KeyFilters(p)) :
                 KeyFilters(p)[i] \in ParamNames /\ p[KeyFilters(p)[i]] # Empty
           /\ \A name \in ParamNames : p[name] # Empty =>
                 \E i \in 1..Len(KeyFilters(p)) : KeyFilters(p)[i] = name
<1> DEFINE parts == [i \in 1..7 |-> IF p[FilterNames[i]] # Empty
                                    THEN <<FilterNames[i]>> ELSE <<>>]
<1>1. DOMAIN FilterNames = 1..7 /\ \A i \in 1..7 : FilterNames[i] \in Tokens
    BY NamesKnown
<1>2. KeyFilters(p) = FlattenSeq(parts)
    BY <1>1 DEF KeyFilters
<1>3. ASSUME NEW token \in Tokens
      PROVE  <<token>> \in Text /\ Len(<<token>>) = 1 /\ <<token>>[1] = token
    BY DEF Text
<1>4. <<>> \in Text /\ Len(<<>>) = 0
    BY DEF Text
<1>5. parts \in [1..7 -> Text]
    BY <1>1, <1>3, <1>4
<1>6. \A i \in 1..7 :
         /\ p[FilterNames[i]] # Empty => parts[i] = <<FilterNames[i]>>
         /\ p[FilterNames[i]] = Empty => parts[i] = <<>>
    OBVIOUS
<1> HIDE DEF parts
<1>7. parts \in Seq(Text) /\ Len(parts) = 7 /\ parts # <<>>
    <2>1. 7 \in Nat
        OBVIOUS
    <2>2. parts \in Seq(Text) /\ DOMAIN parts = 1..7
        BY <1>5, <2>1, SeqDef
    <2> QED
        BY <2>2, LenProperties
<1> DEFINE In(text, token) == \E k \in 1..Len(text) : text[k] = token
<1>8. /\ KeyFilters(p) \in Text
      /\ \A token : In(KeyFilters(p), token) <=> \E i \in 1..7 : In(parts[i], token)
    <2>1. /\ FlattenSeq(parts) \in Text
          /\ \A token :
                (\E k \in 1..Len(FlattenSeq(parts)) : FlattenSeq(parts)[k] = token)
                   <=> \E i \in 1..Len(parts) :
                          \E k \in 1..Len(parts[i]) : parts[i][k] = token
        BY ONLY <1>7, FlattenTokens
    <2> QED
        BY <1>2, <1>7, <2>1
<1>9. \A i \in 1..7 : \A token :
         In(parts[i], token) <=> p[FilterNames[i]] # Empty /\ token = FilterNames[i]
    <2> SUFFICES ASSUME NEW i \in 1..7, NEW token
                 PROVE  In(parts[i], token)
                          <=> p[FilterNames[i]] # Empty /\ token = FilterNames[i]
        OBVIOUS
    <2>1. CASE p[FilterNames[i]] # Empty
        <3>1. parts[i] = <<FilterNames[i]>>
            BY ONLY <1>6, <2>1, i \in 1..7
        <3>2. FilterNames[i] \in Tokens
            BY ONLY <1>1, i \in 1..7
        <3>3. Len(parts[i]) = 1 /\ parts[i][1] = FilterNames[i]
            BY ONLY <1>3, <3>1, <3>2
        <3> QED
            BY ONLY <2>1, <3>3
    <2>2. CASE p[FilterNames[i]] = Empty
        BY <1>4, <1>6, <2>2
    <2> QED
        BY <2>1, <2>2
<1>10. ASSUME NEW i \in 1..Len(KeyFilters(p))
       PROVE  KeyFilters(p)[i] \in ParamNames /\ p[KeyFilters(p)[i]] # Empty
    <2>1. In(KeyFilters(p), KeyFilters(p)[i])
        OBVIOUS
    <2> HIDE DEF In
    <2> QED
        BY <1>8, <1>9, <2>1 DEF ParamNames
<1>11. ASSUME NEW name \in ParamNames, p[name] # Empty
       PROVE  In(KeyFilters(p), name)
    <2>1. PICK i \in 1..7 : name = FilterNames[i]
        BY DEF ParamNames
    <2> HIDE DEF In
    <2> QED
        BY <1>8, <1>9, <1>11, <2>1
<1> QED
    BY <1>8, <1>10, <1>11

(* The texts that FilterSegment joins.                                     *)
Pairs(p) ==
    [i \in 1..Len(KeyFilters(p)) |->
        <<KeyFilters(p)[i], Equals>> \o EncodedValue(p[KeyFilters(p)[i]])]

(* A pair of a filter starts with its name; the rest is the encoded value. *)
LEMMA PairTells ==
    ASSUME NEW name \in ParamNames, NEW v \in Values
    PROVE  LET pair == <<name, Equals>> \o EncodedValue(v)
           IN  /\ pair \in Text /\ pair # <<>> /\ pair[1] = name
               /\ Free(pair, Colon) /\ (Plain(v) => Free(pair, Comma))
               /\ Len(pair) = 2 + Len(EncodedValue(v))
               /\ \A k \in 1..Len(EncodedValue(v)) : pair[2 + k] = EncodedValue(v)[k]
<1> DEFINE e == EncodedValue(v)
           head == <<name, Equals>>
           pair == head \o e
<1>1. name \in Tokens /\ name # Colon /\ name # Comma
    BY NamesKnown DEF ParamNames
<1>2. Equals \in Tokens /\ Equals # Colon /\ Equals # Comma
    BY CacheKeysAssumption DEF Equals, Colon, Comma
<1>3. /\ head \in Seq(Tokens) /\ Len(head) = 2
      /\ head[1] = name /\ head[2] = Equals
    BY <1>1, <1>2
<1>4. /\ e \in Seq(Tokens) /\ Len(e) \in Nat
      /\ Free(e, Colon) /\ (Plain(v) => Free(e, Comma))
    BY EncodedTells, LenProperties DEF Text
<1> HIDE DEF head, e
<1>5. /\ pair \in Seq(Tokens) /\ Len(pair) = 2 + Len(e)
      /\ \A k \in 1..(2 + Len(e)) : pair[k] = IF k <= 2 THEN head[k] ELSE e[k - 2]
    <2>1. /\ pair \in Seq(Tokens) /\ Len(pair) = Len(head) + Len(e)
          /\ \A k \in 1..(Len(head) + Len(e)) :
                pair[k] = IF k <= Len(head) THEN head[k] ELSE e[k - Len(head)]
        BY ONLY <1>3, <1>4, ConcatProperties
    <2> QED
        BY <1>3, <2>1
<1> HIDE DEF pair
<1>6. pair[1] = name /\ pair[2] = Equals
    BY <1>3, <1>4, <1>5
<1>7. ASSUME NEW k \in 1..Len(e) PROVE pair[2 + k] = e[k]
    <2>1. 2 + k \in 1..(2 + Len(e)) /\ ~(2 + k <= 2) /\ (2 + k) - 2 = k
        BY <1>4
    <2> QED
        BY <1>5, <2>1
<1>8. ASSUME NEW token, Free(e, token), token # name, token # Equals
      PROVE  Free(pair, token)
    <2> SUFFICES ASSUME NEW k \in 1..Len(pair) PROVE pair[k] # token
        BY DEF Free
    <2>1. CASE k = 1 \/ k = 2
        BY <1>6, <1>8, <2>1
    <2>2. CASE ~(k = 1 \/ k = 2)
        <3>1. k - 2 \in 1..Len(e) /\ 2 + (k - 2) = k
            BY <1>4, <1>5, <2>2
        <3>2. pair[k] = e[k - 2]
            BY <1>7, <3>1
        <3> QED
            BY <1>8, <3>1, <3>2 DEF Free
    <2> QED
        BY <2>1, <2>2
<1>9. pair # <<>>
    BY <1>4, <1>5
<1> QED
    BY <1>1, <1>2, <1>4, <1>5, <1>6, <1>7, <1>8, <1>9 DEF pair, head, e, Text

(* The segment of the filters joins their pairs and has no colon.          *)
LEMMA SegmentTells ==
    ASSUME NEW p, Typed(p)
    PROVE  /\ Pairs(p) \in Seq(Text) /\ Len(Pairs(p)) = Len(KeyFilters(p))
           /\ PlainParams(p) => \A i \in 1..Len(Pairs(p)) : Free(Pairs(p)[i], Comma)
           /\ FilterSegment(p) = Joined(Pairs(p), Comma)
           /\ FilterSegment(p) \in Text /\ Free(FilterSegment(p), Colon)
           /\ FilterSegment(p) = Empty <=> Pairs(p) = <<>>
<1> DEFINE N == Len(KeyFilters(p))
           name(i) == KeyFilters(p)[i]
<1>1. /\ N \in Nat /\ DOMAIN KeyFilters(p) = 1..N
      /\ \A i \in 1..N : /\ name(i) \in ParamNames /\ p[name(i)] \in Values
                         /\ PlainParams(p) => Plain(p[name(i)])
    BY KeyFiltersGiven, LenProperties DEF Text, Typed, PlainParams
<1>2. FilterSegment(p) = Joined(Pairs(p), Comma)
    BY <1>1 DEF FilterSegment, Pairs
<1>3. ASSUME NEW i \in 1..N
      PROVE  /\ Pairs(p)[i] \in Text /\ Pairs(p)[i] # <<>>
             /\ Free(Pairs(p)[i], Colon)
             /\ PlainParams(p) => Free(Pairs(p)[i], Comma)
    <2>1. Pairs(p)[i] = <<name(i), Equals>> \o EncodedValue(p[name(i)])
        BY DEF Pairs
    <2>2. /\ name(i) \in ParamNames /\ p[name(i)] \in Values
          /\ PlainParams(p) => Plain(p[name(i)])
        BY <1>1
    <2> QED
        BY <2>1, <2>2, PairTells
<1>4. Pairs(p) \in [1..N -> Text]
    BY <1>3 DEF Pairs
<1> HIDE DEF N
<1>5. Pairs(p) \in Seq(Text) /\ Len(Pairs(p)) = N
    <2>1. Pairs(p) \in Seq(Text) /\ DOMAIN Pairs(p) = 1..N
        BY <1>1, <1>4, SeqDef
    <2> QED
        BY <1>1, <2>1, LenProperties
<1>6. Comma \in Tokens /\ Comma # Colon
    BY CacheKeysAssumption DEF Comma, Colon
<1>7. CASE Pairs(p) = <<>>
    <2>1. Joined(Pairs(p), Comma) = <<>>
        BY <1>7 DEF Joined, FlattenSeq
    <2>2. <<>> \in Text /\ Free(<<>>, Colon)
        BY DEF Text, Free
    <2> QED
        BY <1>2, <1>3, <1>5, <1>7, <2>1, <2>2 DEF N, Empty
<1>8. CASE Pairs(p) # <<>>
    <2>1. 1 \in 1..N
        BY <1>5, <1>8, EmptySeq
    <2>2. /\ Joined(Pairs(p), Comma) \in Text
          /\ Joined(Pairs(p), Comma) # <<>>
          /\ Free(Joined(Pairs(p), Comma), Colon)
        BY <1>3, <1>5, <1>6, <1>8, <2>1, JoinedTokens
    <2> QED
        BY <1>2, <1>3, <1>5, <1>8, <2>2 DEF N, Empty
<1> QED
    BY <1>7, <1>8

(* The filter segment of a key tells which parameters were given, and what *)
(* each of them was.                                                       *)
LEMMA SegmentInjective ==
    ASSUME NEW p, Typed(p), PlainParams(p), NEW q, Typed(q), PlainParams(q),
           FilterSegment(p) = FilterSegment(q)
    PROVE  \A name \in ParamNames : p[name] = q[name]
<1>1. Pairs(p) = Pairs(q)
    <2>1. Comma \in Tokens
        BY CacheKeysAssumption DEF Comma
    <2>2. Pairs(p) = <<>> <=> Pairs(q) = <<>>
        BY SegmentTells
    <2>3. CASE Pairs(p) # <<>>
        <3>1. Joined(Pairs(p), Comma) = Joined(Pairs(q), Comma)
            BY SegmentTells
        <3> QED
            BY <2>1, <2>2, <2>3, <3>1, SegmentTells, JoinedInjective
    <2> QED
        BY <2>2, <2>3
<1>2. Len(KeyFilters(p)) = Len(KeyFilters(q))
    BY <1>1, SegmentTells
<1>3. ASSUME NEW i \in 1..Len(KeyFilters(p))
      PROVE  /\ KeyFilters(p)[i] = KeyFilters(q)[i]
             /\ p[KeyFilters(p)[i]] = q[KeyFilters(p)[i]]
    <2> DEFINE m == KeyFilters(p)[i]    v == p[m]
               n == KeyFilters(q)[i]    w == q[n]
               a == <<m, Equals>> \o EncodedValue(v)
               b == <<n, Equals>> \o EncodedValue(w)
    <2>1. a = b
        BY <1>1, <1>2 DEF Pairs
    <2>2. /\ m \in ParamNames /\ v \in Values /\ Plain(v)
          /\ n \in ParamNames /\ w \in Values /\ Plain(w)
        BY <1>2, KeyFiltersGiven DEF PlainParams, Typed
    <2> HIDE DEF m, n, v, w
    <2>3. /\ a[1] = m /\ Len(a) = 2 + Len(EncodedValue(v))
          /\ \A k \in 1..Len(EncodedValue(v)) : a[2 + k] = EncodedValue(v)[k]
        BY <2>2, PairTells
    <2>4. /\ b[1] = n /\ Len(b) = 2 + Len(EncodedValue(w))
          /\ \A k \in 1..Len(EncodedValue(w)) : b[2 + k] = EncodedValue(w)[k]
        BY <2>2, PairTells
    <2>5. /\ EncodedValue(v) \in Text /\ Len(EncodedValue(v)) \in Nat
          /\ EncodedValue(w) \in Text /\ Len(EncodedValue(w)) \in Nat
        BY <2>2, EncodedTells, LenProperties DEF Text
    <2> HIDE DEF a, b
    <2>6. m = n /\ Len(EncodedValue(v)) = Len(EncodedValue(w))
        BY <2>1, <2>3, <2>4, <2>5
    <2>7. EncodedValue(v) = EncodedValue(w)
        BY <2>1, <2>3, <2>4, <2>5, <2>6, SeqEqual DEF Text
    <2>8. v = w
        BY <2>2, <2>7, EncodedInjective
    <2> QED
        BY <2>6, <2>8 DEF m, n, v, w
<1>4. ASSUME NEW name \in ParamNames PROVE p[name] = q[name]
    <2>1. CASE p[name] # Empty
        <3>1. PICK i \in 1..Len(KeyFilters(p)) : KeyFilters(p)[i] = name
            BY <2>1, KeyFiltersGiven
        <3> QED
            BY <1>3, <3>1
    <2>2. CASE q[name] # Empty
        <3>1. PICK i \in 1..Len(KeyFilters(p)) : KeyFilters(q)[i] = name
            BY <1>2, <2>2, KeyFiltersGiven
        <3> QED
            BY <1>3, <3>1
    <2>3. CASE p[name] = Empty /\ q[name] = Empty
        BY <2>3
    <2> QED
        BY <2>1, <2>2, <2>3
<1> QED
    BY <1>4

(* The texts that GenerateCacheKey joins.                                  *)
Segments(metricId, p) ==
    << <<"cache">>, <<metricId>>, InstanceOf(p), <<Scope(p)>> >>
        \o (IF FilterSegment(p) = Empty THEN <<>> ELSE <<FilterSegment(p)>>)
        \o << <<"v1">> >>

(* A single token as a text.                                               *)
LEMMA TokenText ==
    ASSUME NEW token \in Tokens, token # Colon
    PROVE  /\ <<token>> \in Text /\ Free(<<token>>, Colon)
           /\ Len(<<token>>) = 1 /\ <<token>>[1] = token
BY DEF Text, Free

(* The segments of a key, with and without filters.                        *)
LEMMA Inserted ==
    ASSUME NEW S, NEW a \in S, NEW b \in S, NEW c \in S, NEW d \in S, NEW e \in S,
           NEW z \in S
    PROVE  /\ <<a, b, c, d>> \o <<>> \o <<z>> = <<a, b, c, d, z>>
           /\ <<a, b, c, d>> \o <<e>> \o <<z>> = <<a, b, c, d, e, z>>
<1>1. <<a, b, c, d>> \o <<>> = <<a, b, c, d>>
    BY ConcatEmptySeq
<1>2. <<a, b, c, d>> \o <<z>> = <<a, b, c, d, z>>
    <2> DEFINE s == <<a, b, c, d>> \o <<z>>
               t == <<a, b, c, d, z>>
    <2>1. /\ s \in Seq(S) /\ Len(s) = 5
          /\ s[1] = a /\ s[2] = b /\ s[3] = c /\ s[4] = d /\ s[5] = z
        OBVIOUS
    <2>2. /\ t \in Seq(S) /\ Len(t) = 5
          /\ t[1] = a /\ t[2] = b /\ t[3] = c /\ t[4] = d /\ t[5] = z
        OBVIOUS
    <2> HIDE DEF s, t
    <2>3. \A i \in 1..5 : i = 1 \/ i = 2 \/ i = 3 \/ i = 4 \/ i = 5
        OBVIOUS
    <2>4. \A i \in 1..5 : s[i] = t[i]
        BY <2>1, <2>2, <2>3
    <2>5. s = t
        BY <2>1, <2>2, <2>4, SeqEqual
    <2> QED
        BY <2>5 DEF s, t
<1>3. <<a, b, c, d>> \o <<e>> \o <<z>> = <<a, b, c, d, e, z>>
    <2> DEFINE s == <<a, b, c, d>> \o <<e>> \o <<z>>
               t == <<a, b, c, d, e, z>>
    <2>1. /\ s \in Seq(S) /\ Len(s) = 6
          /\ s[1] = a /\ s[2] = b /\ s[3] = c /\ s[4] = d /\ s[5] = e /\ s[6] = z
        OBVIOUS
    <2>2. /\ t \in Seq(S) /\ Len(t) = 6
          /\ t[1] = a /\ t[2] = b /\ t[3] = c /\ t[4] = d /\ t[5] = e /\ t[6] = z
        OBVIOUS
    <2> HIDE DEF s, t
    <2>3. \A i \in 1..6 : i = 1 \/ i = 2 \/ i = 3 \/ i = 4 \/ i = 5 \/ i = 6
        OBVIOUS
    <2>4. \A i \in 1..6 : s[i] = t[i]
        BY <2>1, <2>2, <2>3
    <2>5. s = t
        BY <2>1, <2>2, <2>4, SeqEqual
    <2> QED
        BY <2>5 DEF s, t
<1> QED
    BY <1>1, <1>2, <1>3

(* Where metric, instance and filters are among the segments.              *)
LEMMA SegmentsTell ==
    ASSUME NEW metricId \in Tokens, metricId # Colon, NEW p, Typed(p)
    PROVE  LET s == Segments(metricId, p)
           IN  /\ s \in Seq(Text) /\ s # <<>>
               /\ \A i \in 1..Len(s) : Free(s[i], Colon)
               /\ s[1] = <<"cache">> /\ s[2] = <<metricId>> /\ s[3] = InstanceOf(p)
               /\ s[4] = <<Scope(p)>> /\ s[Len(s)] = <<"v1">>
               /\ FilterSegment(p) = Empty => Len(s) = 5
               /\ FilterSegment(p) # Empty => Len(s) = 6 /\ s[5] = FilterSegment(p)
<1> DEFINE s == Segments(metricId, p)
           F == FilterSegment(p)
           a == <<"cache">>    b == <<metricId>>    c == InstanceOf(p)
           d == <<Scope(p)>>   z == <<"v1">>
<1>1. /\ "cache" \in Tokens /\ "cache" # Colon /\ "v1" \in Tokens /\ "v1" # Colon
      /\ "default" \in Tokens /\ "default" # Colon
      /\ Scope(p) \in Tokens /\ Scope(p) # Colon
    BY CacheKeysAssumption DEF Colon, Scope
<1>2. /\ a \in Text /\ Free(a, Colon) /\ b \in Text /\ Free(b, Colon)
      /\ d \in Text /\ Free(d, Colon) /\ z \in Text /\ Free(z, Colon)
    BY <1>1, TokenText
<1>3. c \in Text /\ Free(c, Colon)
    <2>1. DefaultInstance \in Text /\ Free(DefaultInstance, Colon)
        BY <1>1, TokenText DEF DefaultInstance
    <2> QED
        BY <2>1 DEF InstanceOf, Typed
<1>4. F \in Text /\ Free(F, Colon)
    BY SegmentTells
<1>5. s = <<a, b, c, d>> \o (IF F = Empty THEN <<>> ELSE <<F>>) \o <<z>>
    BY DEF Segments
<1> HIDE DEF a, b, c, d, z, F, s
<1>6. CASE F = Empty
    <2>1. s = <<a, b, c, d, z>>
        BY <1>2, <1>3, <1>4, <1>5, <1>6, Inserted
    <2>2. /\ s \in Seq(Text) /\ Len(s) = 5
          /\ s[1] = a /\ s[2] = b /\ s[3] = c /\ s[4] = d /\ s[5] = z
        BY <1>2, <1>3, <2>1
    <2>3. ASSUME NEW i \in 1..Len(s) PROVE Free(s[i], Colon)
        <3>1. i = 1 \/ i = 2 \/ i = 3 \/ i = 4 \/ i = 5
            BY <2>2
        <3> QED
            BY <1>2, <1>3, <2>2, <3>1
    <2>4. s # <<>>
        <3>1. Len(s) # 0
            BY <2>2
        <3> QED
            BY <3>1, EmptySeq
    <2> QED
        BY <1>6, <2>2, <2>3, <2>4 DEF s, F, a, b, c, d, z
<1>7. CASE F # Empty
    <2>1. s = <<a, b, c, d, F, z>>
        BY <1>2, <1>3, <1>4, <1>5, <1>7, Inserted
    <2>2. /\ s \in Seq(Text) /\ Len(s) = 6
          /\ s[1] = a /\ s[2] = b /\ s[3] = c /\ s[4] = d /\ s[5] = F /\ s[6] = z
        BY <1>2, <1>3, <1>4, <2>1
    <2>3. ASSUME NEW i \in 1..Len(s) PROVE Free(s[i], Colon)
        <3>1. i = 1 \/ i = 2 \/ i = 3 \/ i = 4 \/ i = 5 \/ i = 6
            BY <2>2
        <3> QED
            BY <1>2, <1>3, <1>4, <2>2, <3>1
    <2>4. s # <<>>
        <3>1. Len(s) # 0
            BY <2>2
        <3> QED
            BY <3>1, EmptySeq
    <2> QED
        BY <1>7, <2>2, <2>3, <2>4 DEF s, F, a, b, c, d, z
<1> QED
    BY <1>6, <1>7

(* Whatever the values, two calls of generateCacheKey return the same key  *)
(* only for the same metric, instance and filter segment.                  *)
LEMMA SameSegments ==
    ASSUME NEW m \in Tokens, m # Colon, NEW p, Typed(p),
           NEW n \in Tokens, n # Colon, NEW q, Typed(q),
           GenerateCacheKey(m, p) = GenerateCacheKey(n, q)
    PROVE  /\ m = n /\ InstanceOf(p) = InstanceOf(q)
           /\ FilterSegment(p) = FilterSegment(q)
<1> DEFINE s == Segments(m, p)
           t == Segments(n, q)
<1>1. Colon \in Tokens
    BY CacheKeysAssumption DEF Colon
<1>2. /\ s \in Seq(Text) /\ s # <<>>
      /\ \A i \in 1..Len(s) : Free(s[i], Colon)
      /\ s[2] = <<m>> /\ s[3] = InstanceOf(p)
      /\ FilterSegment(p) = Empty => Len(s) = 5
      /\ FilterSegment(p) # Empty => Len(s) = 6 /\ s[5] = FilterSegment(p)
    BY SegmentsTell
<1>3. /\ t \in Seq(Text) /\ t # <<>>
      /\ \A i \in 1..Len(t) : Free(t[i], Colon)
      /\ t[2] = <<n>> /\ t[3] = InstanceOf(q)
      /\ FilterSegment(q) = Empty => Len(t) = 5
      /\ FilterSegment(q) # Empty => Len(t) = 6 /\ t[5] = FilterSegment(q)
    BY SegmentsTell
<1>4. Joined(s, Colon) = Joined(t, Colon)
    BY DEF GenerateCacheKey, Segments
<1> HIDE DEF s, t
<1>5. s = t
    BY <1>1, <1>2, <1>3, <1>4, JoinedInjective
<1>6. m = n
    BY <1>2, <1>3, <1>5, TokenText
<1>7. FilterSegment(p) = FilterSegment(q)
    <2>1. CASE FilterSegment(p) = Empty
        <3>1. Len(t) = 5
            BY <1>2, <1>5, <2>1
        <3> QED
            BY <1>3, <2>1, <3>1
    <2>2. CASE FilterSegment(p) # Empty
        <3>1. Len(t) = 6 /\ t[5] = FilterSegment(p)
            BY <1>2, <1>5, <2>2
        <3>2. FilterSegment(q) # Empty
            BY <1>3, <3>1
        <3> QED
            BY <1>3, <3>1, <3>2
    <2> QED
        BY <2>1, <2>2
<1> QED
    BY <1>2, <1>3, <1>5, <1>6, <1>7

(* Two calls of generateCacheKey return the same key only for the same     *)
(* metric and instance and, if their values are plain, only for the same   *)
(* parameters, however many of these are given and whichever of them are   *)
(* encoded.  Values with a comma and no colon, which are written as they   *)
(* are and read as several filters, are not plain, nor are those that only *)
(* look encoded: for these it is not true.                                 *)
THEOREM KeysTellApart ==
    ASSUME NEW m \in Tokens, m # Colon, NEW p, Typed(p),
           NEW n \in Tokens, n # Colon, NEW q, Typed(q),
           GenerateCacheKey(m, p) = GenerateCacheKey(n, q)
    PROVE  /\ m = n /\ InstanceOf(p) = InstanceOf(q)
           /\ PlainParams(p) /\ PlainParams(q) =>
                 \A name \in ParamNames : p[name] = q[name]
BY SameSegments, SegmentInjective

-----------------------------------------------------------------------------
(* Induction from zero, and recursive functions.                           *)

(* Induction from 0 to n.                                                  *)
LEMMA FromZeroTo ==
    ASSUME NEW n \in Nat, NEW Q, 0 \in Q,
           \A i \in 0..(n - 1) : i \in Q => i + 1 \in Q
    PROVE  \A i \in 0..n : i \in Q
<1> DEFINE T == {i \in 1..(n + 1) : i - 1 \in Q}
<1>1. n + 1 \in Nat /\ 1 \in T
    OBVIOUS
<1>2. ASSUME NEW i \in 1..((n + 1) - 1), i \in T PROVE i + 1 \in T
    <2>1. i - 1 \in 0..(n - 1) /\ (i - 1) + 1 = i /\ (i + 1) - 1 = i /\ i + 1 \in 1..(n + 1)
        OBVIOUS
    <2>2. i \in Q
        BY <1>2, <2>1
    <2> QED
        BY <2>1, <2>2
<1>3. 1..(n + 1) \subseteq T
    <2> HIDE DEF T
    <2> QED
        BY <1>1, <1>2, UpTo
<1>4. ASSUME NEW i \in 0..n PROVE i \in Q
    <2>1. i + 1 \in 1..(n + 1) /\ (i + 1) - 1 = i
        OBVIOUS
    <2> QED
        BY <1>3, <2>1
<1> QED
    BY <1>4

(* A function that is defined from its value for the number before exists. *)
LEMMA StepsExist ==
    ASSUME NEW n \in Nat, NEW S, NEW b \in S, NEW F \in [1..n -> [S -> S]]
    PROVE  \E f : /\ f[0] = b /\ \A i \in 1..n : f[i] = F[i][f[i - 1]]
                  /\ \A i \in 0..n : f[i] \in S
<1> DEFINE Is(f, m) ==
               /\ f[0] = b
               /\ \A i \in 1..m : f[i] = F[i][f[i - 1]]
           Q == {m \in 0..n : \E f \in [0..m -> S] : Is(f, m)}
<1>1. 0 \in Q
    <2> DEFINE f == [i \in 0..0 |-> b]
    <2>1. 0 \in 0..n /\ 1..0 = {} /\ 0 \in 0..0
        OBVIOUS
    <2>2. f \in [0..0 -> S] /\ f[0] = b
        BY <2>1
    <2> HIDE DEF f
    <2> QED
        BY <2>1, <2>2
<1>2. ASSUME NEW m \in 0..(n - 1), m \in Q PROVE m + 1 \in Q
    <2>1. PICK f \in [0..m -> S] : Is(f, m)
        BY <1>2
    <2>2. /\ m \in Nat /\ m + 1 \in 1..n /\ m + 1 \in 0..(m + 1) /\ (m + 1) - 1 = m
          /\ m \in 0..m /\ 0 \in 0..m
          /\ \A i \in 0..(m + 1) : i \in 0..m \/ i = m + 1
          /\ \A i \in 0..m : i \in 0..(m + 1) /\ i # m + 1
          /\ \A i \in 1..(m + 1) : i \in 1..m \/ i = m + 1
          /\ \A i \in 1..m : i \in 0..m /\ i - 1 \in 0..m
        OBVIOUS
    <2> DEFINE v == F[m + 1][f[m]]
               g == [i \in 0..(m + 1) |-> IF i = m + 1 THEN v ELSE f[i]]
    <2>3. v \in S
        <3>1. f[m] \in S
            BY <2>2
        <3> QED
            BY <2>2, <3>1
    <2> HIDE DEF v
    <2>4. g[m + 1] = v /\ \A i \in 0..m : g[i] = f[i]
        BY <2>2
    <2>5. g \in [0..(m + 1) -> S]
        <3>1. \A i \in 0..m : f[i] \in S
            OBVIOUS
        <3> QED
            BY <2>2, <2>3, <3>1
    <2> HIDE DEF g
    <2>6. Is(g, m + 1)
        <3>1. g[0] = b
            BY <2>1, <2>2, <2>4
        <3>2. ASSUME NEW i \in 1..(m + 1) PROVE g[i] = F[i][g[i - 1]]
            <4>1. CASE i = m + 1
                <5>1. g[i - 1] = f[m]
                    BY <2>2, <2>4, <4>1
                <5> QED
                    BY <2>4, <4>1, <5>1 DEF v
            <4>2. CASE i \in 1..m
                <5>1. g[i] = f[i] /\ g[i - 1] = f[i - 1]
                    BY <2>2, <2>4, <4>2
                <5> QED
                    BY <2>1, <4>2, <5>1
            <4> QED
                BY <2>2, <4>1, <4>2
        <3> QED
            BY <3>1, <3>2
    <2> HIDE DEF Is
    <2> QED
        BY <2>2, <2>5, <2>6
<1>3. n \in Q
    <2> HIDE DEF Q
    <2>1. \A i \in 0..n : i \in Q
        BY <1>1, <1>2, FromZeroTo
    <2> QED
        BY <2>1
<1> QED
    BY <1>3

-----------------------------------------------------------------------------
(* The glob, token by token.                                               *)

(* One text at least.                                                      *)
Lists == Seq(Text) \ {<<>>}

(* What a token of a pattern reaches.                                      *)
ReachedBy(token, known, text) ==
    IF token = Star THEN UNION {i..Len(text) : i \in known}
    ELSE {i \in 1..Len(text) : i - 1 \in known /\ text[i] = token}

(* f[i] is what the first i tokens of the pattern reach.                   *)
Reaching(f, pattern, text, n) ==
    /\ f[0] = {0}
    /\ \A i \in 1..n : f[i] = ReachedBy(pattern[i], f[i - 1], text)

(* Glob matching, token by token.                                          *)
LEMMA GlobSteps ==
    ASSUME NEW pattern \in Text, NEW text \in Text
    PROVE  \E f :
              /\ Reaching(f, pattern, text, Len(pattern))
              /\ GlobMatches(pattern, text) <=> Len(text) \in f[Len(pattern)]
<1> DEFINE n == Len(pattern)
           S == SUBSET (0..Len(text))
           Step(i, known) == ReachedBy(pattern[i], known, text)
           F == [i \in 1..n |-> [known \in S |-> Step(i, known)]]
           b == {0}
<1>1. n \in Nat /\ Len(text) \in Nat
    BY LenProperties DEF Text
<1>2. b \in S
    BY <1>1
<1>3. ASSUME NEW i \in 1..n, NEW known \in S PROVE Step(i, known) \in S
    BY <1>1 DEF ReachedBy
<1> HIDE DEF b, n, Step, S
<1>4. F \in [1..n -> [S -> S]]
    BY <1>3
<1>5. \A i \in 1..n, known \in S : F[i][known] = Step(i, known)
    OBVIOUS
<1> HIDE DEF F
<1>6. PICK f : /\ f[0] = b /\ \A i \in 1..n : f[i] = F[i][f[i - 1]]
               /\ \A i \in 0..n : f[i] \in S
    <2>1. n \in Nat /\ b \in S
        BY <1>1, <1>2
    <2> QED
        BY ONLY <1>4, <2>1, StepsExist
<1>7. \A i \in 0..n : i # 0 => i \in 1..n /\ i - 1 \in 0..n
    BY <1>1
<1>8. \E h : h = [i \in 0..n |-> IF i = 0 THEN b ELSE Step(i, h[i - 1])]
    <2> DEFINE h == [i \in 0..n |-> f[i]]
    <2>1. \A i \in 0..n : h[i] = IF i = 0 THEN b ELSE Step(i, h[i - 1])
        BY <1>5, <1>6, <1>7
    <2>2. h = [i \in 0..n |-> h[i]]
        OBVIOUS
    <2> HIDE DEF h
    <2> QED
        BY <2>1, <2>2
<1>9. \E g : /\ g = [i \in 0..n |-> IF i = 0 THEN b ELSE Step(i, g[i - 1])]
             /\ GlobMatches(pattern, text) <=> Len(text) \in g[n]
    BY <1>8 DEF GlobMatches, Step, ReachedBy, n, b
<1>10. PICK g : /\ g = [i \in 0..n |-> IF i = 0 THEN b ELSE Step(i, g[i - 1])]
                /\ GlobMatches(pattern, text) <=> Len(text) \in g[n]
    BY <1>9
<1>11. g[0] = b /\ \A i \in 1..n : g[i] = Step(i, g[i - 1])
    <2>1. 0 \in 0..n /\ \A i \in 1..n : i \in 0..n /\ i # 0
        BY <1>1
    <2>2. \A i \in 0..n : g[i] = IF i = 0 THEN b ELSE Step(i, g[i - 1])
        BY ONLY <1>10
    <2> QED
        BY <2>1, <2>2
<1> QED
    BY <1>10, <1>11 DEF b, Step, n, Reaching

(* A pattern without a star reaches only its own end, in the texts that    *)
(* start with it.                                                          *)
LEMMA GlobPrefix ==
    ASSUME NEW pattern \in Text, NEW text \in Text, NEW m \in Nat, NEW f,
           Reaching(f, pattern, text, m),
           \A i \in 1..m : pattern[i] # Star
    PROVE  f[m] = {j \in {m} : m <= Len(text) /\ \A k \in 1..m : text[k] = pattern[k]}
<1> DEFINE Starts(i) == i <= Len(text) /\ \A k \in 1..i : text[k] = pattern[k]
           Q == {i \in 0..m : f[i] = {j \in {i} : Starts(i)}}
<1>1. Len(text) \in Nat
    BY LenProperties DEF Text
<1>2. 0 \in Q
    <2>1. Starts(0)
        BY <1>1
    <2> HIDE DEF Starts
    <2> QED
        BY <2>1 DEF Reaching
<1>3. ASSUME NEW i \in 0..(m - 1), i \in Q PROVE i + 1 \in Q
    <2>1. /\ i + 1 \in 1..m /\ i + 1 \in 0..m /\ (i + 1) - 1 = i
          /\ \A k \in 1..(i + 1) : k \in 1..i \/ k = i + 1
          /\ \A k \in 1..i : k \in 1..(i + 1)
          /\ i + 1 \in 1..(i + 1)
        OBVIOUS
    <2>2. f[i + 1] = {j \in 1..Len(text) : j - 1 \in f[i] /\ text[j] = pattern[i + 1]}
        BY <2>1 DEF ReachedBy, Reaching
    <2>3. Starts(i + 1) <=> Starts(i) /\ i + 1 \in 1..Len(text) /\ text[i + 1] = pattern[i + 1]
        BY <1>1, <2>1
    <2>4. f[i] = {j \in {i} : Starts(i)}
        BY <1>3
    <2> HIDE DEF Starts
    <2>5. ASSUME NEW j
          PROVE  j \in f[i + 1] <=> j = i + 1 /\ Starts(i + 1)
        BY <1>1, <2>2, <2>3, <2>4
    <2> QED
        BY <2>1, <2>5
<1>4. m \in Q
    <2> HIDE DEF Q
    <2>1. \A i \in 0..m : i \in Q
        BY <1>2, <1>3, FromZeroTo
    <2> QED
        BY <2>1
<1> QED
    BY <1>4

-----------------------------------------------------------------------------
(* What is where in a joined text.                                         *)

(* Numbers of which none is greater than the next.                         *)
LEMMA Ascending ==
    ASSUME NEW n \in Nat, NEW e, \A i \in 1..n : e[i] \in Int,
           \A i \in 1..(n - 1) : e[i] <= e[i + 1],
           NEW i \in 1..n, NEW j \in 1..n, i <= j
    PROVE  e[i] <= e[j]
<1> DEFINE Q == {k \in 1..n : i <= k => e[i] <= e[k]}
<1>1. 1 \in Q
    <2>1. 1 \in 1..n /\ (i <= 1 => i = 1)
        OBVIOUS
    <2> QED
        BY <2>1
<1>2. ASSUME NEW k \in 1..(n - 1), k \in Q PROVE k + 1 \in Q
    <2>1. k \in 1..n /\ k + 1 \in 1..n /\ (i <= k + 1 => i <= k \/ i = k + 1)
        OBVIOUS
    <2>2. e[k] <= e[k + 1] /\ e[k] \in Int /\ e[k + 1] \in Int /\ e[i] \in Int
        BY <2>1
    <2>3. i <= k => e[i] <= e[k]
        BY <1>2
    <2>4. i <= k + 1 => e[i] <= e[k + 1]
        BY <2>1, <2>2, <2>3
    <2> QED
        BY <2>1, <2>4
<1>3. 1..n \subseteq Q
    <2> HIDE DEF Q
    <2> QED
        BY <1>1, <1>2, UpTo
<1> QED
    BY <1>3

(* at[i] is where, in the text t, the delimiter before the i-th of the     *)
(* first n texts of s is.                                                  *)
Placed(t, s, n, d, at) ==
    /\ at[1] = 0
    /\ \A i \in 1..n :
          /\ at[i] \in Nat
          /\ i # 1 => t[at[i]] = d /\ at[i] = at[i - 1] + Len(s[i - 1]) + 1
          /\ \A k \in 1..Len(s[i]) : t[at[i] + k] = s[i][k]
    /\ Len(t) = at[n] + Len(s[n])

(* Where the texts are after they have been joined.                        *)
LEMMA JoinedPlaces ==
    ASSUME NEW s \in Lists, NEW d \in Tokens
    PROVE  \E at : Placed(Joined(s, d), s, Len(s), d, at)
<1> DEFINE n == Len(s)
<1>1. /\ n \in Nat \ {0} /\ s \in Seq(Text) /\ s # <<>>
      /\ \A i \in 1..n : s[i] \in Text /\ Len(s[i]) \in Nat
    BY EmptySeq, LenProperties DEF Lists, Text
<1>2. PICK f : /\ f[1] = s[1]
               /\ \A i \in 2..n : f[i] = f[i - 1] \o (<<d>> \o s[i])
               /\ \A i \in 1..n : f[i] \in Text
               /\ Joined(s, d) = f[n]
    BY <1>1, JoinedSteps
<1>3. \A i \in 1..n : Len(f[i]) \in Nat
    BY <1>2, LenProperties DEF Text
<1> HIDE DEF n
<1> DEFINE at == [i \in 1..n |-> IF i = 1 THEN 0 ELSE Len(f[i - 1]) + 1]
           Q == {i \in 1..n : Placed(f[i], s, i, d, at)}
<1>4. \A i \in 1..n : at[i] = IF i = 1 THEN 0 ELSE Len(f[i - 1]) + 1
    OBVIOUS
<1> HIDE DEF at
<1>5. 1 \in Q
    <2>1. 1 \in 1..n /\ at[1] = 0
        BY <1>1, <1>4
    <2>2. \A i \in 1..1 : i = 1
        OBVIOUS
    <2>3. /\ Len(s[1]) \in Nat /\ \A k \in 1..Len(s[1]) : f[1][0 + k] = s[1][k]
          /\ Len(f[1]) = 0 + Len(s[1])
        BY <1>1, <1>2, <2>1
    <2>4. Placed(f[1], s, 1, d, at)
        BY ONLY <2>1, <2>2, <2>3 DEF Placed
    <2> QED
        BY <2>1, <2>4
<1>6. ASSUME NEW i \in 1..(n - 1), i \in Q PROVE i + 1 \in Q
    <2> DEFINE j == i + 1
               t == f[i]
               u == f[j]
    <2>1. /\ j \in 2..n /\ j \in 1..n /\ i \in 1..n /\ j - 1 = i /\ j # 1 /\ i \in Nat
          /\ \A k \in 1..j : k \in 1..i \/ k = j
          /\ 1 \in 1..n
        BY <1>1
    <2>2. /\ u = t \o (<<d>> \o s[j]) /\ t \in Text /\ s[j] \in Text
          /\ Len(t) \in Nat /\ Len(s[j]) \in Nat
          /\ at[j] = Len(t) + 1
        <3>1. f[j] = f[j - 1] \o (<<d>> \o s[j])
            BY <1>2, <2>1
        <3>2. at[j] = Len(f[j - 1]) + 1
            BY <1>4, <2>1
        <3> QED
            BY <1>1, <1>2, <1>3, <2>1, <3>1, <3>2
    <2>3. Placed(t, s, i, d, at)
        BY <1>6
    <2> HIDE DEF j, t, u
    <2>4. /\ Len(u) = Len(t) + 1 + Len(s[j])
          /\ u[Len(t) + 1] = d
          /\ \A k \in 1..Len(t) : u[k] = t[k]
          /\ \A k \in 1..Len(s[j]) : u[Len(t) + 1 + k] = s[j][k]
        <3>1. Splits(u, t, d, s[j])
            BY <2>2 DEF Splits
        <3>2. t \in Text /\ s[j] \in Text /\ d \in Tokens
            BY <2>2
        <3> DEFINE v == s[j]
        <3> HIDE DEF v
        <3>3. Splits(u, t, d, v) /\ v \in Text
            BY <3>1, <3>2 DEF v
        <3>4. /\ Len(u) = Len(t) + 1 + Len(v)
              /\ u[Len(t) + 1] = d
              /\ \A k \in 1..Len(t) : u[k] = t[k]
              /\ \A k \in 1..Len(v) : u[Len(t) + 1 + k] = v[k]
            BY ONLY <3>2, <3>3, AfterDelimiter
        <3> QED
            BY <3>4 DEF v
    <2>5. Len(t) = at[i] + Len(s[i]) /\ at[i] \in Nat
        BY <2>1, <2>3 DEF Placed
    <2>6. at[j] = at[i] + Len(s[i]) + 1
        BY <2>2, <2>5
    <2>7. ASSUME NEW k \in 1..i
          PROVE  /\ at[k] \in Nat
                 /\ k # 1 => u[at[k]] = d /\ at[k] = at[k - 1] + Len(s[k - 1]) + 1
                 /\ \A l \in 1..Len(s[k]) : u[at[k] + l] = s[k][l]
        <3>1. at[k] + Len(s[k]) <= Len(t)
            <4> DEFINE e == [m \in 1..i |-> at[m] + Len(s[m])]
            <4>1. \A m \in 1..i : at[m] \in Nat /\ Len(s[m]) \in Nat
                BY <1>1, <2>1, <2>3 DEF Placed
            <4>2. \A m \in 1..i : e[m] = at[m] + Len(s[m])
                OBVIOUS
            <4>3. \A m \in 1..i : e[m] \in Int
                BY <4>1, <4>2
            <4> HIDE DEF e
            <4>4. ASSUME NEW m \in 1..(i - 1) PROVE e[m] <= e[m + 1]
                <5>1. m + 1 \in 1..i /\ m \in 1..i /\ (m + 1) - 1 = m /\ m + 1 # 1
                    BY <1>1
                <5> DEFINE l == m + 1
                <5>2. l \in 1..i /\ l - 1 = m /\ l # 1
                    BY <5>1
                <5> HIDE DEF l
                <5>3. at[l] = at[m] + Len(s[m]) + 1
                    BY <2>3, <5>2 DEF Placed
                <5>4. e[l] = at[l] + Len(s[l]) /\ e[m] = at[m] + Len(s[m])
                    BY <4>2, <5>1, <5>2
                <5>5. e[m] <= e[l]
                    BY <4>1, <5>1, <5>2, <5>3, <5>4
                <5> QED
                    BY <5>5 DEF l
            <4>5. e[k] <= e[i]
                <5>1. i \in Nat /\ k \in 1..i /\ i \in 1..i /\ k <= i
                    BY <2>1
                <5> QED
                    BY ONLY <4>3, <4>4, <5>1, Ascending
            <4> QED
                BY <2>1, <2>5, <4>2, <4>5
        <3>2. /\ at[k] \in Nat
              /\ k # 1 => t[at[k]] = d /\ at[k] = at[k - 1] + Len(s[k - 1]) + 1
              /\ \A l \in 1..Len(s[k]) : t[at[k] + l] = s[k][l]
            BY <2>3 DEF Placed
        <3>3. k \in 1..n /\ Len(s[k]) \in Nat
            BY <1>1, <2>1
        <3>4. ASSUME k # 1 PROVE u[at[k]] = d
            <4>1. at[k - 1] \in Nat /\ Len(s[k - 1]) \in Nat
                <5>1. k - 1 \in 1..i /\ k - 1 \in 1..n
                    BY <1>1, <3>4
                <5> QED
                    BY <1>1, <2>3, <5>1 DEF Placed
            <4>2. at[k] \in 1..Len(t)
                <5>1. at[k] = at[k - 1] + Len(s[k - 1]) + 1
                    BY <3>2, <3>4
                <5>2. Len(t) \in Nat /\ Len(s[k]) \in Nat
                    BY <2>2, <3>3
                <5> QED
                    BY ONLY <3>1, <4>1, <5>1, <5>2
            <4> QED
                BY <2>4, <3>2, <3>4, <4>2
        <3>5. ASSUME NEW l \in 1..Len(s[k]) PROVE u[at[k] + l] = s[k][l]
            <4>1. at[k] + l \in 1..Len(t)
                BY <2>2, <3>1, <3>2, <3>3
            <4> QED
                BY <2>4, <3>2, <4>1
        <3> QED
            BY <3>2, <3>4, <3>5
    <2>8. /\ at[j] \in Nat
          /\ u[at[j]] = d
          /\ \A l \in 1..Len(s[j]) : u[at[j] + l] = s[j][l]
        BY <2>2, <2>4
    <2>9. Len(u) = at[j] + Len(s[j])
        BY <2>2, <2>4
    <2>10. at[1] = 0
        BY <1>4, <2>1
    <2>11. Placed(u, s, j, d, at)
        BY <2>1, <2>6, <2>7, <2>8, <2>9, <2>10 DEF Placed
    <2> QED
        BY <2>1, <2>11 DEF j, u
<1>7. n \in Q
    <2> HIDE DEF Q
    <2>1. 1..n \subseteq Q
        BY <1>1, <1>5, <1>6, UpTo
    <2> QED
        BY <1>1, <2>1
<1> QED
    BY <1>2, <1>7 DEF n

(* The join of six texts of which all but the third and the fifth are      *)
(* single tokens.                                                          *)
LEMMA SixPlaces ==
    ASSUME NEW s \in Lists, NEW d \in Tokens, Len(s) = 6,
           Len(s[1]) = 1, Len(s[2]) = 1, Len(s[4]) = 1, Len(s[6]) = 1
    PROVE  LET t == Joined(s, d)
               a == 5 + Len(s[3])
               b == a + 3 + Len(s[5])
           IN  /\ Len(s[3]) \in Nat /\ Len(s[5]) \in Nat
               /\ t \in Text /\ Len(t) = b + 1
               /\ t[1] = s[1][1] /\ t[2] = d /\ t[3] = s[2][1] /\ t[4] = d
               /\ \A k \in 1..Len(s[3]) : t[4 + k] = s[3][k]
               /\ t[a] = d /\ t[a + 1] = s[4][1] /\ t[a + 2] = d
               /\ \A k \in 1..Len(s[5]) : t[a + 2 + k] = s[5][k]
               /\ t[b] = d /\ t[b + 1] = s[6][1]
<1> DEFINE t == Joined(s, d)
           a == 5 + Len(s[3])
           b == a + 3 + Len(s[5])
<1>1. /\ Len(s[3]) \in Nat /\ Len(s[5]) \in Nat /\ s \in Seq(Text) /\ s # <<>>
    BY LenProperties DEF Lists, Text
<1>2. PICK at : Placed(t, s, 6, d, at)
    BY JoinedPlaces
<1>3. t \in Text
    BY <1>1, JoinedTokens
<1> HIDE DEF t
<1>4. /\ at[1] = 0
      /\ t[at[2]] = d /\ at[2] = at[1] + Len(s[1]) + 1
      /\ t[at[3]] = d /\ at[3] = at[2] + Len(s[2]) + 1
      /\ t[at[4]] = d /\ at[4] = at[3] + Len(s[3]) + 1
      /\ t[at[5]] = d /\ at[5] = at[4] + Len(s[4]) + 1
      /\ t[at[6]] = d /\ at[6] = at[5] + Len(s[5]) + 1
      /\ Len(t) = at[6] + Len(s[6])
    <2>1. /\ at[1] = 0 /\ Len(t) = at[6] + Len(s[6])
          /\ \A i \in 1..6 : i # 1 => t[at[i]] = d /\ at[i] = at[i - 1] + Len(s[i - 1]) + 1
        BY ONLY <1>2 DEF Placed
    <2>2. t[at[2]] = d /\ at[2] = at[2 - 1] + Len(s[2 - 1]) + 1
        BY ONLY <2>1
    <2>3. t[at[3]] = d /\ at[3] = at[3 - 1] + Len(s[3 - 1]) + 1
        BY ONLY <2>1
    <2>4. t[at[4]] = d /\ at[4] = at[4 - 1] + Len(s[4 - 1]) + 1
        BY ONLY <2>1
    <2>5. t[at[5]] = d /\ at[5] = at[5 - 1] + Len(s[5 - 1]) + 1
        BY ONLY <2>1
    <2>6. t[at[6]] = d /\ at[6] = at[6 - 1] + Len(s[6 - 1]) + 1
        BY ONLY <2>1
    <2> QED
        BY ONLY <2>1, <2>2, <2>3, <2>4, <2>5, <2>6
<1>5. at[1] = 0 /\ at[2] = 2 /\ at[3] = 4 /\ at[4] = a /\ at[5] = a + 2 /\ at[6] = b
    <2>1. at[2] = 2 /\ at[3] = 4
        BY <1>4
    <2>2. at[4] = a
        BY <1>1, <1>4, <2>1
    <2>3. at[5] = a + 2
        BY <1>1, <1>4, <2>2
    <2>4. at[6] = b
        BY <1>1, <1>4, <2>3
    <2> QED
        BY <1>4, <2>1, <2>2, <2>3, <2>4
<1>6. /\ \A k \in 1..Len(s[1]) : t[at[1] + k] = s[1][k]
      /\ \A k \in 1..Len(s[2]) : t[at[2] + k] = s[2][k]
      /\ \A k \in 1..Len(s[3]) : t[at[3] + k] = s[3][k]
      /\ \A k \in 1..Len(s[4]) : t[at[4] + k] = s[4][k]
      /\ \A k \in 1..Len(s[5]) : t[at[5] + k] = s[5][k]
      /\ \A k \in 1..Len(s[6]) : t[at[6] + k] = s[6][k]
    <2>1. /\ 1 \in 1..6 /\ 2 \in 1..6 /\ 3 \in 1..6 /\ 4 \in 1..6 /\ 5 \in 1..6 /\ 6 \in 1..6
        OBVIOUS
    <2> QED
        BY <1>2, <2>1 DEF Placed
<1> HIDE DEF a, b
<1>7. /\ t[1] = s[1][1] /\ t[3] = s[2][1] /\ t[a + 1] = s[4][1] /\ t[b + 1] = s[6][1]
    <2>1. 1 \in 1..1 /\ 0 + 1 = 1 /\ 2 + 1 = 3
        OBVIOUS
    <2> QED
        BY <1>5, <1>6, <2>1
<1>8. Len(t) = b + 1
    BY <1>4, <1>5
<1> QED
    BY <1>1, <1>3, <1>4, <1>5, <1>6, <1>7, <1>8 DEF t, a, b

(* A key with filters, and where what is in it.                            *)
LEMMA KeyPlaces ==
    ASSUME NEW m \in Tokens, m # Colon, NEW p, Typed(p), FilterSegment(p) # Empty
    PROVE  LET t == GenerateCacheKey(m, p)
               a == 5 + Len(InstanceOf(p))
               b == a + 3 + Len(FilterSegment(p))
           IN  /\ Len(InstanceOf(p)) \in Nat /\ Len(FilterSegment(p)) \in Nat
               /\ t \in Text /\ Len(t) = b + 1
               /\ t[1] = "cache" /\ t[2] = Colon /\ t[3] = m /\ t[4] = Colon
               /\ \A k \in 1..Len(InstanceOf(p)) : t[4 + k] = InstanceOf(p)[k]
               /\ t[a] = Colon /\ t[a + 1] = Scope(p) /\ t[a + 2] = Colon
               /\ \A k \in 1..Len(FilterSegment(p)) : t[a + 2 + k] = FilterSegment(p)[k]
               /\ t[b] = Colon /\ t[b + 1] = "v1"
<1> DEFINE s == Segments(m, p)
<1>1. /\ s \in Lists /\ Len(s) = 6
      /\ s[1] = <<"cache">> /\ s[2] = <<m>> /\ s[3] = InstanceOf(p)
      /\ s[4] = <<Scope(p)>> /\ s[5] = FilterSegment(p) /\ s[6] = <<"v1">>
    BY SegmentsTell DEF Lists
<1>2. GenerateCacheKey(m, p) = Joined(s, Colon)
    BY DEF GenerateCacheKey, Segments
<1> HIDE DEF s
<1>3. /\ Len(s[1]) = 1 /\ Len(s[2]) = 1 /\ Len(s[4]) = 1 /\ Len(s[6]) = 1
      /\ s[1][1] = "cache" /\ s[2][1] = m /\ s[4][1] = Scope(p) /\ s[6][1] = "v1"
    BY <1>1
<1>4. Colon \in Tokens
    BY CacheKeysAssumption
<1> DEFINE t == Joined(s, Colon)
           a == 5 + Len(s[3])
           b == a + 3 + Len(s[5])
<1>5. /\ Len(s[3]) \in Nat /\ Len(s[5]) \in Nat
      /\ t \in Text /\ Len(t) = b + 1
      /\ t[1] = s[1][1] /\ t[2] = Colon /\ t[3] = s[2][1] /\ t[4] = Colon
      /\ \A k \in 1..Len(s[3]) : t[4 + k] = s[3][k]
      /\ t[a] = Colon /\ t[a + 1] = s[4][1] /\ t[a + 2] = Colon
      /\ \A k \in 1..Len(s[5]) : t[a + 2 + k] = s[5][k]
      /\ t[b] = Colon /\ t[b + 1] = s[6][1]
    BY <1>1, <1>3, <1>4, SixPlaces
<1>6. a = 5 + Len(InstanceOf(p)) /\ b = a + 3 + Len(FilterSegment(p))
    BY <1>1
<1> HIDE DEF t, a, b
<1> QED
    BY <1>1, <1>2, <1>3, <1>5, <1>6 DEF t

(* The pattern for a metric at an instance.                                *)
LEMMA PatternPlaces ==
    ASSUME NEW m \in Tokens, NEW instance \in Text
    PROVE  LET t == GenerateCacheKeyPattern(m, instance)
               a == 5 + Len(instance)
           IN  /\ Len(instance) \in Nat /\ t \in Text /\ Len(t) = a + 5
               /\ t[1] = "cache" /\ t[2] = Colon /\ t[3] = m /\ t[4] = Colon
               /\ \A k \in 1..Len(instance) : t[4 + k] = instance[k]
               /\ t[a] = Colon /\ t[a + 1] = Star /\ t[a + 2] = Colon
               /\ t[a + 3] = Star /\ t[a + 4] = Colon /\ t[a + 5] = Star
<1> DEFINE s == << <<"cache">>, <<m>>, instance, <<Star>>, <<Star>>, <<Star>> >>
<1>1. "cache" \in Tokens /\ Star \in Tokens /\ Colon \in Tokens
    BY CacheKeysAssumption
<1>2. <<"cache">> \in Text /\ <<m>> \in Text /\ <<Star>> \in Text
    BY <1>1 DEF Text
<1>3. /\ s \in Seq(Text) /\ Len(s) = 6
      /\ s[1] = <<"cache">> /\ s[2] = <<m>> /\ s[3] = instance
      /\ s[4] = <<Star>> /\ s[5] = <<Star>> /\ s[6] = <<Star>>
    BY <1>2
<1>4. GenerateCacheKeyPattern(m, instance) = Joined(s, Colon)
    BY DEF GenerateCacheKeyPattern
<1> HIDE DEF s
<1>5. s \in Lists
    <2>1. Len(s) # 0
        BY <1>3
    <2> QED
        BY <1>3, <2>1, EmptySeq DEF Lists
<1>6. /\ Len(s[1]) = 1 /\ Len(s[2]) = 1 /\ Len(s[4]) = 1 /\ Len(s[5]) = 1 /\ Len(s[6]) = 1
      /\ s[1][1] = "cache" /\ s[2][1] = m
      /\ s[4][1] = Star /\ s[5][1] = Star /\ s[6][1] = Star
    BY <1>3
<1> DEFINE t == Joined(s, Colon)
           a == 5 + Len(instance)
           b == a + 3 + 1
<1>7. /\ Len(s[3]) \in Nat /\ t \in Text /\ Len(t) = b + 1
      /\ t[1] = s[1][1] /\ t[2] = Colon /\ t[3] = s[2][1] /\ t[4] = Colon
      /\ \A k \in 1..Len(s[3]) : t[4 + k] = s[3][k]
      /\ t[a] = Colon /\ t[a + 1] = s[4][1] /\ t[a + 2] = Colon
      /\ \A k \in 1..1 : t[a + 2 + k] = s[5][k]
      /\ t[b] = Colon /\ t[b + 1] = s[6][1]
    <2>1. /\ s \in Lists /\ Colon \in Tokens /\ Len(s) = 6
          /\ Len(s[1]) = 1 /\ Len(s[2]) = 1 /\ Len(s[4]) = 1 /\ Len(s[6]) = 1
        BY <1>1, <1>3, <1>5, <1>6
    <2> DEFINE five == Len(s[5])
               c == 5 + Len(s[3])
               e == c + 3 + five
    <2>2. /\ Len(s[3]) \in Nat /\ t \in Text /\ Len(t) = e + 1
          /\ t[1] = s[1][1] /\ t[2] = Colon /\ t[3] = s[2][1] /\ t[4] = Colon
          /\ \A k \in 1..Len(s[3]) : t[4 + k] = s[3][k]
          /\ t[c] = Colon /\ t[c + 1] = s[4][1] /\ t[c + 2] = Colon
          /\ \A k \in 1..five : t[c + 2 + k] = s[5][k]
          /\ t[e] = Colon /\ t[e + 1] = s[6][1]
        BY ONLY <2>1, SixPlaces, ZenonT(30)
    <2>3. five = 1 /\ c = a
        BY <1>3, <1>6
    <2>4. e = b
        BY ONLY <2>3
    <2> HIDE DEF t, a, b, five, c, e
    <2> QED
        BY <2>2, <2>3, <2>4
<1>8. Len(instance) \in Nat /\ b = a + 4 /\ b + 1 = a + 5 /\ a + 2 + 1 = a + 3 /\ 1 \in 1..1
    BY <1>3, <1>7
<1> HIDE DEF t, a, b
<1> QED
    BY <1>3, <1>4, <1>6, <1>7, <1>8 DEF t, a

-----------------------------------------------------------------------------
(* Patterns.                                                               *)

(* Of five different things there are five.                                *)
LEMMA FiveElements ==
    ASSUME NEW v, NEW w, NEW x, NEW y, NEW z,
           w # v, x \notin {v, w}, y \notin {v, w, x}, z \notin {v, w, x, y}
    PROVE  Cardinality({v, w, x, y, z}) = 5
<1> DEFINE A == {v}
           B == A \cup {w}
           C == B \cup {x}
           D == C \cup {y}
           E == D \cup {z}
<1>1. IsFiniteSet(A) /\ Cardinality(A) = 1
    BY FS_Singleton
<1>2. w \notin A /\ x \notin B /\ y \notin C /\ z \notin D /\ {v, w, x, y, z} = E
    OBVIOUS
<1> HIDE DEF A
<1>3. IsFiniteSet(B) /\ Cardinality(B) = 2
    BY <1>1, <1>2, FS_AddElement
<1> HIDE DEF B
<1>4. IsFiniteSet(C) /\ Cardinality(C) = 3
    BY <1>2, <1>3, FS_AddElement
<1> HIDE DEF C
<1>5. IsFiniteSet(D) /\ Cardinality(D) = 4
    BY <1>2, <1>4, FS_AddElement
<1> HIDE DEF D
<1>6. IsFiniteSet(E) /\ Cardinality(E) = 5
    BY <1>2, <1>5, FS_AddElement
<1> QED
    BY <1>2, <1>6

(* The number of colons in a key with filters: nothing that is joined has  *)
(* one.                                                                    *)
LEMMA KeyColons ==
    ASSUME NEW m \in Tokens, m # Colon, NEW p, Typed(p), FilterSegment(p) # Empty
    PROVE  LET t == GenerateCacheKey(m, p)
           IN  Cardinality({i \in DOMAIN t : t[i] = Colon}) = 5
<1> DEFINE t == GenerateCacheKey(m, p)
           I == InstanceOf(p)
           F == FilterSegment(p)
           a == 5 + Len(I)
           b == a + 3 + Len(F)
           C == {i \in DOMAIN t : t[i] = Colon}
<1>1. /\ Len(I) \in Nat /\ Len(F) \in Nat
      /\ t \in Text /\ Len(t) = b + 1
      /\ t[1] = "cache" /\ t[2] = Colon /\ t[3] = m /\ t[4] = Colon
      /\ \A k \in 1..Len(I) : t[4 + k] = I[k]
      /\ t[a] = Colon /\ t[a + 1] = Scope(p) /\ t[a + 2] = Colon
      /\ \A k \in 1..Len(F) : t[a + 2 + k] = F[k]
      /\ t[b] = Colon /\ t[b + 1] = "v1"
    BY KeyPlaces
<1>2. /\ "cache" # Colon /\ "v1" # Colon /\ Scope(p) # Colon
      /\ \A k \in 1..Len(I) : I[k] # Colon
      /\ \A k \in 1..Len(F) : F[k] # Colon
    <2>1. Free(F, Colon)
        BY SegmentTells
    <2>2. Free(I, Colon)
        BY DEF InstanceOf, DefaultInstance, Typed, Free, Colon
    <2> QED
        BY <2>1, <2>2 DEF Free, Colon, Scope
<1>3. DOMAIN t = 1..(b + 1)
    BY <1>1, LenProperties DEF Text
<1> HIDE DEF t, I, F
<1>4. C = {2, 4, a, a + 2, b}
    <2>1. ASSUME NEW i \in 1..(b + 1), t[i] = Colon PROVE i \in {2, 4, a, a + 2, b}
        <3>1. \/ i \in {1, 2, 3, 4, a, a + 1, a + 2, b, b + 1}
              \/ i \in 5..(a - 1) \/ i \in (a + 3)..(b - 1)
            <4>1. a \in Nat /\ b \in Nat /\ i \in Nat /\ 5 <= a /\ a + 3 <= b /\ 1 <= i /\ i <= b + 1
                BY <1>1
            <4> HIDE DEF a, b
            <4> QED
                BY ONLY <4>1
        <3>2. CASE i \in 5..(a - 1)
            <4>1. i - 4 \in 1..Len(I) /\ 4 + (i - 4) = i
                BY <1>1, <3>2
            <4> DEFINE k == i - 4
            <4>2. k \in 1..Len(I) /\ 4 + k = i
                BY <4>1
            <4> HIDE DEF k
            <4>3. t[4 + k] = I[k] /\ I[k] # Colon
                BY <1>1, <1>2, <4>2
            <4> QED
                BY ONLY <2>1, <4>2, <4>3
        <3>3. CASE i \in (a + 3)..(b - 1)
            <4>1. i - (a + 2) \in 1..Len(F) /\ a + 2 + (i - (a + 2)) = i
                BY <1>1, <3>3
            <4> DEFINE k == i - (a + 2)
            <4>2. k \in 1..Len(F) /\ a + 2 + k = i
                BY <4>1
            <4> HIDE DEF k, a
            <4>3. t[a + 2 + k] = F[k] /\ F[k] # Colon
                BY <1>1, <1>2, <4>2
            <4> QED
                BY ONLY <2>1, <4>2, <4>3
        <3> HIDE DEF a, b
        <3> QED
            BY <1>1, <1>2, <2>1, <3>1, <3>2, <3>3
    <2>2. /\ 2 \in 1..(b + 1) /\ 4 \in 1..(b + 1) /\ a \in 1..(b + 1)
          /\ a + 2 \in 1..(b + 1) /\ b \in 1..(b + 1)
        BY <1>1
    <2> HIDE DEF a, b
    <2> QED
        BY <1>1, <1>3, <2>1, <2>2
<1>5. /\ a \notin {2, 4} /\ a + 2 \notin {2, 4, a} /\ b \notin {2, 4, a, a + 2}
    BY <1>1
<1> HIDE DEF a, b, C
<1>6. Cardinality({2, 4, a, a + 2, b}) = 5
    <2> DEFINE v == 2
               w == 4
               y == a + 2
    <2>1. w # v /\ a \notin {v, w} /\ y \notin {v, w, a} /\ b \notin {v, w, a, y}
        BY <1>5
    <2> HIDE DEF v, w, y
    <2>2. Cardinality({v, w, a, y, b}) = 5
        BY ONLY <2>1, FiveElements
    <2> QED
        BY <2>2 DEF v, w, y
<1> QED
    BY <1>4, <1>6 DEF C, t

(* The pattern that an administrator builds for a metric at an instance    *)
(* reaches the keys of both and no others, of those that have filters: a   *)
(* key without has a segment less than the pattern.                        *)
THEOREM PatternsReachTheirKeys ==
    ASSUME NEW named \in Tokens, named \notin {Colon, Star},
           NEW instance \in Text, Free(instance, Colon), Free(instance, Star),
           NEW m \in Tokens, m # Colon, NEW p, Typed(p), FilterSegment(p) # Empty
    PROVE  GlobMatches(GenerateCacheKeyPattern(named, instance), GenerateCacheKey(m, p))
             <=> named = m /\ instance = InstanceOf(p)
<1> DEFINE g == GenerateCacheKeyPattern(named, instance)
           e == 5 + Len(instance)
           t == GenerateCacheKey(m, p)
           I == InstanceOf(p)
           F == FilterSegment(p)
           a == 5 + Len(I)
           b == a + 3 + Len(F)
<1>1. /\ Len(I) \in Nat /\ Len(F) \in Nat
      /\ t \in Text /\ Len(t) = b + 1
      /\ t[1] = "cache" /\ t[2] = Colon /\ t[3] = m /\ t[4] = Colon
      /\ \A k \in 1..Len(I) : t[4 + k] = I[k]
      /\ t[a] = Colon /\ t[a + 2] = Colon /\ t[b] = Colon
    BY KeyPlaces
<1>2. /\ Len(instance) \in Nat /\ g \in Text /\ Len(g) = e + 5
      /\ g[1] = "cache" /\ g[2] = Colon /\ g[3] = named /\ g[4] = Colon
      /\ \A k \in 1..Len(instance) : g[4 + k] = instance[k]
      /\ g[e] = Colon /\ g[e + 1] = Star /\ g[e + 2] = Colon
      /\ g[e + 3] = Star /\ g[e + 4] = Colon /\ g[e + 5] = Star
    BY PatternPlaces
<1>3. /\ I \in Seq(Tokens) /\ \A k \in 1..Len(I) : I[k] # Colon
      /\ instance \in Seq(Tokens) /\ \A k \in 1..Len(instance) : instance[k] # Colon /\ instance[k] # Star
    <2>1. I \in Text /\ Free(I, Colon)
        <3>1. DefaultInstance \in Text /\ Free(DefaultInstance, Colon)
            BY CacheKeysAssumption DEF DefaultInstance, Text, Free, Colon
        <3> QED
            BY <3>1 DEF InstanceOf, Typed
    <2> QED
        BY <2>1 DEF Text, Free
<1>4. PICK f : /\ Reaching(f, g, t, Len(g))
               /\ GlobMatches(g, t) <=> Len(t) \in f[Len(g)]
    BY <1>1, <1>2, GlobSteps
<1> HIDE DEF g, t, I, F
<1> DEFINE Starts == e <= Len(t) /\ \A k \in 1..e : t[k] = g[k]
(* Up to the third colon.                                                  *)
<1>5. f[e] = {j \in {e} : Starts}
    <2>1. e \in Nat /\ \A i \in 1..e : i \in 1..Len(g)
        BY <1>2
    <2>2. ASSUME NEW i \in 1..e PROVE g[i] # Star
        <3>1. i \in {1, 2, 3, 4, e} \/ i \in 5..(e - 1)
            BY <1>2
        <3>2. CASE i \in 5..(e - 1)
            <4>1. i - 4 \in 1..Len(instance) /\ 4 + (i - 4) = i
                BY <1>2, <3>2
            <4> QED
                BY <1>2, <1>3, <4>1
        <3>3. "cache" # Star /\ Colon # Star /\ named # Star
            BY DEF Star, Colon
        <3> HIDE DEF e
        <3> QED
            BY <1>2, <3>1, <3>2, <3>3
    <2> HIDE DEF e
    <2>3. Reaching(f, g, t, e)
        BY <1>4, <2>1 DEF Reaching
    <2>4. /\ g \in Text /\ t \in Text /\ e \in Nat
        BY <1>1, <1>2, <2>1
    <2> QED
        BY ONLY <2>2, <2>3, <2>4, GlobPrefix
(* The stars and the colons after it.                                      *)
<1>6. Colon # Star
    BY DEF Star, Colon
<1>7. /\ e + 1 \in 1..Len(g) /\ (e + 1) - 1 = e
      /\ e + 2 \in 1..Len(g) /\ (e + 2) - 1 = e + 1
      /\ e + 3 \in 1..Len(g) /\ (e + 3) - 1 = e + 2
      /\ e + 4 \in 1..Len(g) /\ (e + 4) - 1 = e + 3
      /\ e + 5 \in 1..Len(g) /\ (e + 5) - 1 = e + 4
    BY <1>2
<1>8. /\ f[e + 1] = UNION {i..Len(t) : i \in f[e]}
      /\ f[e + 2] = {i \in 1..Len(t) : i - 1 \in f[e + 1] /\ t[i] = Colon}
      /\ f[e + 3] = UNION {i..Len(t) : i \in f[e + 2]}
      /\ f[e + 4] = {i \in 1..Len(t) : i - 1 \in f[e + 3] /\ t[i] = Colon}
      /\ f[e + 5] = UNION {i..Len(t) : i \in f[e + 4]}
    <2>1. /\ f[e + 1] = ReachedBy(Star, f[e], t)
          /\ f[e + 2] = ReachedBy(Colon, f[e + 1], t)
          /\ f[e + 3] = ReachedBy(Star, f[e + 2], t)
          /\ f[e + 4] = ReachedBy(Colon, f[e + 3], t)
          /\ f[e + 5] = ReachedBy(Star, f[e + 4], t)
        BY <1>2, <1>4, <1>7 DEF Reaching
    <2> QED
        BY <1>6, <2>1 DEF ReachedBy
<1>9. GlobMatches(g, t) <=> Len(t) \in f[e + 5]
    BY <1>2, <1>4
<1>10. ASSUME GlobMatches(g, t) PROVE Starts
    <2> HIDE DEF e, Starts
    <2> QED
        BY <1>5, <1>8, <1>9, <1>10
<1>11. Starts <=> named = m /\ instance = I
    <2>1. ASSUME Starts PROVE named = m /\ instance = I
        <3>1. t[3] = g[3] /\ t[e] = Colon /\ \A k \in 1..Len(instance) : t[4 + k] = instance[k]
            <4>1. 3 \in 1..e /\ e \in 1..e /\ \A k \in 1..Len(instance) : 4 + k \in 1..e
                BY <1>2
            <4> HIDE DEF e
            <4> QED
                BY <1>2, <2>1, <4>1
        <3>2. Len(instance) = Len(I)
            <4>1. ASSUME Len(instance) < Len(I) PROVE FALSE
                <5>1. e - 4 \in 1..Len(I) /\ 4 + (e - 4) = e
                    BY <1>1, <1>2, <4>1
                <5> DEFINE k == e - 4
                <5>2. k \in 1..Len(I) /\ 4 + k = e
                    BY <5>1
                <5> HIDE DEF e, k
                <5>3. t[4 + k] = I[k] /\ I[k] # Colon
                    BY <1>1, <1>3, <5>2
                <5> QED
                    BY ONLY <3>1, <5>2, <5>3
            <4>2. ASSUME Len(I) < Len(instance) PROVE FALSE
                <5>1. a - 4 \in 1..Len(instance) /\ 4 + (a - 4) = a
                    BY <1>1, <1>2, <4>2
                <5> DEFINE k == a - 4
                <5>2. k \in 1..Len(instance) /\ 4 + k = a
                    BY <5>1
                <5> HIDE DEF a, k
                <5>3. t[4 + k] = instance[k] /\ instance[k] # Colon
                    BY <1>3, <3>1, <5>2
                <5>4. t[a] = Colon
                    BY <1>1
                <5> QED
                    BY ONLY <5>2, <5>3, <5>4
            <4> QED
                BY <1>1, <1>2, <4>1, <4>2
        <3>3. \A k \in 1..Len(I) : instance[k] = I[k]
            BY <1>1, <3>1, <3>2
        <3>4. instance = I
            BY <1>3, <3>2, <3>3, SeqEqual
        <3> QED
            BY <1>1, <1>2, <3>1, <3>4
    <2>2. ASSUME named = m, instance = I PROVE Starts
        <3>1. e = a /\ e <= Len(t)
            BY <1>1, <2>2
        <3>2. ASSUME NEW k \in 1..e PROVE t[k] = g[k]
            <4>1. k \in {1, 2, 3, 4, e} \/ k \in 5..(e - 1)
                BY <1>2
            <4>2. CASE k \in 5..(e - 1)
                <5>1. k - 4 \in 1..Len(I) /\ 4 + (k - 4) = k
                    BY <1>2, <2>2, <4>2
                <5> DEFINE i == k - 4
                <5>2. i \in 1..Len(I) /\ i \in 1..Len(instance) /\ 4 + i = k
                    BY <2>2, <5>1
                <5> HIDE DEF i
                <5>3. t[4 + i] = I[i] /\ g[4 + i] = instance[i]
                    BY <1>1, <1>2, <5>2
                <5> QED
                    BY ONLY <2>2, <5>2, <5>3
            <4> HIDE DEF e, a
            <4> QED
                BY <1>1, <1>2, <2>2, <3>1, <4>1, <4>2
        <3> QED
            BY <3>1, <3>2
    <2> QED
        BY <2>1, <2>2
<1>12. ASSUME Starts, named = m, instance = I PROVE GlobMatches(g, t)
    <2>1. e = a /\ a \in Nat /\ b \in Nat /\ Len(t) = b + 1 /\ a + 3 <= b
        BY <1>1, <1>12
    <2> HIDE DEF e, a, b, Starts
    <2>2. f[e] = {a}
        BY <1>5, <1>12, <2>1
    <2>3. (a + 2) - 1 \in f[e + 1]
        BY <1>8, <2>1, <2>2
    <2>4. a + 2 \in f[e + 2]
        BY <1>1, <1>8, <2>1, <2>3
    <2>5. b - 1 \in f[e + 3]
        BY <1>8, <2>1, <2>4
    <2>6. b \in f[e + 4]
        BY <1>1, <1>8, <2>1, <2>5
    <2>7. Len(t) \in f[e + 5]
        <3>1. f[e + 5] = UNION {i..Len(t) : i \in f[e + 4]}
            BY ONLY <1>8
        <3>2. Len(t) \in b..Len(t)
            BY ONLY <2>1
        <3> QED
            BY ONLY <2>6, <3>1, <3>2
    <2> QED
        BY <1>9, <2>7
<1> QED
    BY <1>10, <1>11, <1>12 DEF g, t, I

-----------------------------------------------------------------------------
(* What a miss is checked for, beyond the guards.                          *)
Answerable(r) ==
    KnownMetric(r.metric) /\ Accepts(r.metric, r.params) /\ FiltersValid(r.params)

-----------------------------------------------------------------------------
(* What the questions of one key have in common.                           *)

(* The table of keys has what generateCacheKey returns.                    *)
LEMMA KeyIs ==
    ASSUME NEW r, Admitted(r)
    PROVE  Key(r) = GenerateCacheKey(r.metric, r.params)
<1>1. Asked(r) \in Questions
    BY DEF Admitted, Questions
<1> QED
    BY <1>1 DEF Key, Keys, Asked

(* What is asked for has the types that the keys need.                     *)
LEMMA AdmittedTyped ==
    ASSUME NEW r, Admitted(r)
    PROVE  r.metric \in Tokens /\ r.metric # Colon /\ Typed(r.params)
<1>1. /\ r.metric \in Tokens /\ r.metric # Colon
      /\ r.params \in [ParamNames \cup {"instanceId"} -> Text]
      /\ \A name \in ParamNames : r.params[name] \in Values
    BY RequestsAssumption DEF Admitted
<1>2. ValidQuery(r.params)
    <2>1. \A i \in DOMAIN Guards(r) : Guards(r)[i].passes
        <3> DEFINE refusing == {i \in DOMAIN Guards(r) : ~Guards(r)[i].passes}
                   first == CHOOSE i \in refusing : \A j \in refusing : i <= j
        <3>1. /\ DOMAIN Guards(r) = 1..3
              /\ Guards(r)[1].status # 200 /\ Guards(r)[2].status # 200
              /\ Guards(r)[3].status # 200
            BY DEF Guards
        <3>2. ASSUME refusing # {} PROVE FALSE
            <4>1. \E i \in refusing : \A j \in refusing : i <= j
                BY <3>1, <3>2, Least
            <4>2. first \in 1..3
                BY <3>1, <4>1
            <4>3. GuardStatus(r) = Guards(r)[first].status
                BY <3>2 DEF GuardStatus
            <4> HIDE DEF first
            <4>4. first = 1 \/ first = 2 \/ first = 3
                BY <4>2
            <4> QED
                BY <3>1, <4>3, <4>4 DEF Admitted
        <3> QED
            BY <3>2
    <2>2. Guards(r)[3].passes
        <3>1. 3 \in DOMAIN Guards(r)
            BY DEF Guards
        <3> QED
            BY ONLY <2>1, <3>1
    <2> QED
        BY <2>2 DEF Guards, Admitted
<1>3. Free(r.params.instanceId, Colon)
    <2>1. Free(Empty, Colon)
        BY DEF Free, Empty
    <2> QED
        BY <1>2, <2>1, RequestsAssumption DEF ValidQuery
<1> QED
    BY <1>1, <1>3 DEF Typed

(* Requests with the same key are for the same metric and instance and, if *)
(* the key is legible, the same question: none of what validates it, or is *)
(* asked of the LRS for it, can differ.                                    *)
LEMMA SameKey ==
    ASSUME NEW r, Admitted(r), NEW s, Admitted(s), Key(r) = Key(s)
    PROVE  /\ r.metric = s.metric
           /\ InstanceOf(r.params) = InstanceOf(s.params)
           /\ FilterSegment(r.params) = FilterSegment(s.params)
           /\ Legible(r) =>
                 /\ Normalized(r.params) = Normalized(s.params)
                 /\ Answerable(r) <=> Answerable(s)
                 /\ OneDefault(r) => BuildLRSFilters(r.params) = BuildLRSFilters(s.params)
<1> DEFINE p == r.params
           q == s.params
           D == ParamNames \cup {"instanceId"}
<1>1. /\ r.metric \in Tokens /\ r.metric # Colon /\ Typed(p) /\ p \in [D -> Text]
      /\ s.metric \in Tokens /\ s.metric # Colon /\ Typed(q) /\ q \in [D -> Text]
    BY AdmittedTyped, RequestsAssumption DEF Admitted
<1>2. GenerateCacheKey(r.metric, p) = GenerateCacheKey(s.metric, q)
    BY KeyIs
<1>3. /\ r.metric = s.metric /\ InstanceOf(p) = InstanceOf(q)
      /\ FilterSegment(p) = FilterSegment(q)
      /\ PlainParams(p) /\ PlainParams(q) => \A name \in ParamNames : p[name] = q[name]
    <2> HIDE DEF p, q
    <2> QED
        BY <1>1, <1>2, SameSegments, KeysTellApart
<1>4. r \in Sharing(r) /\ s \in Sharing(r)
    BY DEF Sharing, Admitted
<1>5. ASSUME Legible(r)
      PROVE  /\ Normalized(p) = Normalized(q)
             /\ Answerable(r) <=> Answerable(s)
             /\ OneDefault(r) => BuildLRSFilters(p) = BuildLRSFilters(q)
    <2>1. \A name \in ParamNames : p[name] = q[name]
        BY <1>3, <1>4, <1>5 DEF Legible
    <2>2. ParamNames =
            {"courseId", "elementId", "groupId", "since", "topicId", "until", "userId"}
        BY NamesKnown
    <2>3. OneDefault(r) =>
             ResolveLrsEndpoint(p.instanceId) = ResolveLrsEndpoint(q.instanceId)
        <3>1. ASSUME \A t \in Sharing(r) : t.params.instanceId = p.instanceId
              PROVE  p.instanceId = q.instanceId
            BY <1>4, <3>1
        <3>2. ASSUME DefaultInstance \in DOMAIN Endpoints =>
                        Endpoints[DefaultInstance] = LrsUrl
              PROVE  ResolveLrsEndpoint(p.instanceId) = ResolveLrsEndpoint(q.instanceId)
            BY <1>3, <3>2, RequestsAssumption DEF InstanceOf, ResolveLrsEndpoint
        <3> QED
            BY <3>1, <3>2 DEF OneDefault
    <2> HIDE DEF p, q
    <2>4. /\ p.courseId = q.courseId /\ p.elementId = q.elementId /\ p.since = q.since
          /\ p.topicId = q.topicId /\ p.until = q.until /\ p.userId = q.userId
        BY <2>1, <2>2
    <2>5. Normalized(p) = Normalized(q)
        <3>1. /\ Normalized(p) = [name \in D |-> IF name = "instanceId" THEN InstanceOf(p)
                                                 ELSE p[name]]
              /\ Normalized(q) = [name \in D |-> IF name = "instanceId" THEN InstanceOf(q)
                                                 ELSE q[name]]
            BY <1>1 DEF Normalized
        <3> QED
            BY <1>3, <2>1, <3>1
    <2>6. Activity(p) = Activity(q)
        BY <2>4 DEF Activity
    <2>7. OneDefault(r) => BuildLRSFilters(p) = BuildLRSFilters(q)
        BY <2>3, <2>4, <2>6 DEF BuildLRSFilters
    <2>8. /\ Accepts(r.metric, p) <=> Accepts(s.metric, q)
          /\ FiltersValid(p) <=> FiltersValid(q)
        BY <1>3, <2>4, <2>6 DEF Accepts, FiltersValid
    <2> QED
        BY <1>3, <2>5, <2>7, <2>8 DEF p, q, Answerable
<1> QED
    BY <1>3, <1>5

(* The guards answer with one of their own codes.                          *)
LEMMA GuardStatusType ==
    ASSUME NEW r
    PROVE  GuardStatus(r) \in {200, 400, 401, 403}
<1> DEFINE refusing == {i \in DOMAIN Guards(r) : ~Guards(r)[i].passes}
           first == CHOOSE i \in refusing : \A j \in refusing : i <= j
<1>1. /\ DOMAIN Guards(r) = 1..3
      /\ Guards(r)[1].status = 401 /\ Guards(r)[2].status = 403
      /\ Guards(r)[3].status = 400
    BY DEF Guards
<1>2. refusing \in SUBSET Nat
    BY <1>1
<1>3. ASSUME refusing # {} PROVE first \in 1..3
    <2>1. \E i \in refusing : \A j \in refusing : i <= j
        BY <1>2, <1>3, Least
    <2> QED
        BY <1>1, <2>1
<1>4. GuardStatus(r) = IF refusing = {} THEN 200 ELSE Guards(r)[first].status
    BY DEF GuardStatus
<1> HIDE DEF refusing, first
<1> QED
    BY <1>1, <1>3, <1>4

-----------------------------------------------------------------------------
(* The inductive invariant.                                                *)

(* What the entry under the key k must have been made from: somebody who   *)
(* missed was validated, and he and all who refreshed it have the key.     *)
EntryFor(k, e) ==
    /\ \E s \in Inputs : Admitted(s) /\ Key(s) = k /\ Answerable(s)
    /\ \E s \in Inputs : Admitted(s) /\ Key(s) = k /\ e.question = Asked(s)
    /\ e.queries # {}
    /\ \A query \in e.queries :
          \E s \in Inputs :
             Admitted(s) /\ Key(s) = k /\ query = BuildLRSFilters(s.params)

CacheSound(entries) == \A k \in DOMAIN entries : EntryFor(k, entries[k])

Phases == {"admitted", "querying", "fallback", "deleting"}

(* A query is under way for a request that has been validated, or that is  *)
(* continued from an entry of its key.                                     *)
JobSound(j) ==
    \/ j = Idle
    \/ /\ j \in [phase : Phases, request : Inputs, found : {j.found}, keys : {j.keys}]
       /\ GuardStatus(j.request) = 200
       /\ j.phase \in {"querying", "fallback"} => j.request.route = "results"
       /\ j.phase = "querying" =>
             \/ j.found = NoEntry /\ Answerable(j.request)
             \/ j.found.exists /\ EntryFor(Key(j.request), j.found)

Statuses == {200, 400, 401, 403, 404, 429, 500, 503}

AnswerSound(a) ==
    /\ a # NoAnswer => a.status \in Statuses
    /\ a.kind \in {"available", "cached", "degraded"} =>
          Admitted(a.request) /\ EntryFor(Key(a.request), a.entry)

IndInv ==
    /\ CacheSound(cache)
    /\ redisUp \in BOOLEAN
    /\ job = [c \in Clients |-> job[c]]
    /\ \A c \in Clients : JobSound(job[c])
    /\ AnswerSound(answer)

(* What is computed is an entry for the key, if what was found was one or  *)
(* the request is answerable.                                              *)
LEMMA EntryMade ==
    ASSUME NEW r, Admitted(r), NEW found,
           \/ found = NoEntry /\ Answerable(r)
           \/ EntryFor(Key(r), found),
           NEW e, e.question = Asked(r),
           e.queries = found.queries \cup {BuildLRSFilters(r.params)}
    PROVE  EntryFor(Key(r), e)
<1>1. r \in Inputs
    BY DEF Admitted
<1>2. \E s \in Inputs : Admitted(s) /\ Key(s) = Key(r) /\ Answerable(s)
    BY <1>1 DEF EntryFor
<1>3. ASSUME NEW query \in e.queries
      PROVE  \E s \in Inputs :
                Admitted(s) /\ Key(s) = Key(r) /\ query = BuildLRSFilters(s.params)
    <2>1. CASE query = BuildLRSFilters(r.params)
        BY <1>1, <2>1
    <2>2. CASE query \in found.queries
        BY <2>2 DEF EntryFor, NoEntry
    <2> QED
        BY <2>1, <2>2
<1>4. e.queries # {}
    OBVIOUS
<1> QED
    BY <1>1, <1>2, <1>3, <1>4 DEF EntryFor

(* Whoever finds an entry under his key finds the answer for his metric    *)
(* and instance and, as far as the key tells, to his question, and has     *)
(* asked nothing that would have been refused.                             *)
LEMMA EntryAnswers ==
    ASSUME NEW r, Admitted(r), NEW e, EntryFor(Key(r), e)
    PROVE  /\ KnownMetric(r.metric)
           /\ e.question.metric = r.metric
           /\ InstanceOf(e.question.params) = InstanceOf(r.params)
           /\ Legible(r) =>
                 /\ Answerable(r)
                 /\ Normalized(e.question.params) = Normalized(r.params)
                 /\ OneDefault(r) => e.queries = {BuildLRSFilters(r.params)}
<1>1. PICK s : Admitted(s) /\ Key(s) = Key(r) /\ Answerable(s)
    BY DEF EntryFor
<1>2. /\ r.metric = s.metric /\ KnownMetric(s.metric)
      /\ Legible(r) => Answerable(r)
    BY <1>1, SameKey DEF Answerable
<1>3. PICK t : Admitted(t) /\ Key(t) = Key(r) /\ e.question = Asked(t)
    BY DEF EntryFor
<1>4. e.question.metric = t.metric /\ e.question.params = t.params
    BY <1>3 DEF Asked
<1>5. /\ r.metric = t.metric /\ InstanceOf(r.params) = InstanceOf(t.params)
      /\ Legible(r) => Normalized(r.params) = Normalized(t.params)
    BY <1>3, SameKey
<1>6. ASSUME Legible(r), OneDefault(r)
      PROVE  e.queries = {BuildLRSFilters(r.params)}
    <2>1. ASSUME NEW query \in e.queries PROVE query = BuildLRSFilters(r.params)
        <3>1. PICK u : /\ Admitted(u) /\ Key(u) = Key(r)
                       /\ query = BuildLRSFilters(u.params)
            BY DEF EntryFor
        <3> QED
            BY <1>6, <3>1, SameKey
    <2>2. e.queries # {}
        BY DEF EntryFor
    <2> QED
        BY <2>1, <2>2
<1> QED
    BY <1>2, <1>4, <1>5, <1>6

-----------------------------------------------------------------------------
(* The three ways in which a handler's step ends.                          *)

(* A client whose request changes leaves the others alone.                 *)
LEMMA JobSet ==
    ASSUME IndInv, NEW c \in Clients, NEW j, JobSound(j),
           job' = [job EXCEPT ![c] = j]
    PROVE  job' = [d \in Clients |-> job'[d]] /\ \A d \in Clients : JobSound(job'[d])
<1>1. /\ job = [d \in Clients |-> job[d]]
      /\ \A d \in Clients : JobSound(job[d])
    BY DEF IndInv
<1>2. job' = [d \in Clients |-> IF d = c THEN j ELSE job[d]]
    BY <1>1
<1>3. \A d \in Clients : job'[d] = IF d = c THEN j ELSE job[d]
    BY <1>2
<1> QED
    BY <1>1, <1>2, <1>3

(* An answer without data ends a request.                                  *)
LEMMA Responds ==
    ASSUME IndInv, NEW c \in Clients, NEW status \in Statuses, Respond(c, status),
           CacheSound(cache'), redisUp' = redisUp
    PROVE  IndInv'
<1>1. JobSound(Idle)
    BY DEF JobSound
<1>2. job' = [d \in Clients |-> job'[d]] /\ \A d \in Clients : JobSound(job'[d])
    BY <1>1, JobSet DEF Respond
<1>3. AnswerSound(answer')
    BY DEF AnswerSound, Respond, Answered
<1> QED
    BY <1>2, <1>3 DEF IndInv

(* An answer with data needs an entry for the key of its request.          *)
LEMMA RespondsWithData ==
    ASSUME IndInv, NEW c \in Clients, NEW kind, NEW e, RespondWithData(c, kind, e),
           Admitted(job[c].request), EntryFor(Key(job[c].request), e),
           CacheSound(cache'), redisUp' = redisUp
    PROVE  IndInv'
<1>1. JobSound(Idle)
    BY DEF JobSound
<1>2. job' = [d \in Clients |-> job'[d]] /\ \A d \in Clients : JobSound(job'[d])
    BY <1>1, JobSet DEF RespondWithData
<1>3. AnswerSound(answer')
    BY DEF AnswerSound, RespondWithData, Statuses
<1> QED
    BY <1>2, <1>3 DEF IndInv

(* A request that asks the LRS has been validated, or continues an entry.  *)
LEMMA GoesOn ==
    ASSUME IndInv, NEW c \in Clients, NEW phase, NEW found, GoOn(c, phase, found),
           Admitted(job[c].request), job[c] # Idle,
           \/ phase = "fallback"
           \/ /\ phase = "querying"
              /\ \/ found = NoEntry /\ Answerable(job[c].request)
                 \/ found.exists /\ EntryFor(Key(job[c].request), found),
           CacheSound(cache'), redisUp' = redisUp
    PROVE  IndInv'
<1> DEFINE j == [job[c] EXCEPT !.phase = phase, !.found = found]
           r == job[c].request
<1>1. job[c] \in [phase : Phases, request : Inputs, found : {job[c].found},
                   keys : {job[c].keys}]
    BY DEF IndInv, JobSound
<1>2. phase \in Phases
    BY DEF Phases
<1>3. /\ j \in [phase : Phases, request : Inputs, found : {found}, keys : {job[c].keys}]
      /\ j.phase = phase /\ j.request = r /\ j.found = found /\ j.keys = job[c].keys
    BY <1>1, <1>2
<1>4. job' = [job EXCEPT ![c] = j]
    BY DEF GoOn, IndInv
<1> HIDE DEF j
<1>5. JobSound(j)
    BY <1>3 DEF JobSound, Admitted
<1>6. job' = [d \in Clients |-> job'[d]] /\ \A d \in Clients : JobSound(job'[d])
    BY <1>4, <1>5, JobSet
<1>7. AnswerSound(answer')
    BY DEF AnswerSound, GoOn, NoAnswer
<1> QED
    BY <1>6, <1>7 DEF IndInv

-----------------------------------------------------------------------------
(* The steps.                                                              *)

(* At first there is no entry, no request and no answer.                   *)
LEMMA InitIndInv == Init => IndInv
BY DEF Init, IndInv, CacheSound, JobSound, AnswerSound, NoAnswer

(* A metric request in the handler has passed the guards.                  *)
LEMMA HandlingAdmitted ==
    ASSUME IndInv, NEW c \in Clients,
           \/ Handling(c, "results")
           \/ job[c].phase = "querying"
           \/ job[c].phase = "fallback"
    PROVE  Admitted(job[c].request) /\ job[c] # Idle
<1>1. JobSound(job[c])
    BY DEF IndInv
<1>2. job[c] # Idle
    BY DEF Handling, Idle
<1> QED
    BY <1>1, <1>2 DEF JobSound, Handling, Admitted

(* What Redis returns for a key was made for that key.                     *)
LEMMA StoredIsSound ==
    ASSUME IndInv, NEW k, Stored(k).exists
    PROVE  EntryFor(k, Stored(k))
<1>1. Stored(k) = cache[k] /\ k \in DOMAIN cache
    BY DEF Stored, NoEntry
<1> QED
    BY <1>1 DEF IndInv, CacheSound

(* The guards let a request in, or answer it.                              *)
LEMMA AdmitStep ==
    ASSUME IndInv, NEW c \in Clients, NEW r \in Inputs, Admit(c, r)
    PROVE  IndInv'
<1>1. CacheSound(cache') /\ redisUp' \in BOOLEAN
    BY DEF Admit, IndInv
<1>2. PICK status \in Admission(r) :
          IF status = 200
          THEN /\ job' = [job EXCEPT ![c] =
                           [phase |-> "admitted", request |-> r, found |-> NoEntry, keys |-> {}]]
               /\ answer' = NoAnswer
          ELSE /\ answer' = Answered(status)
               /\ UNCHANGED job
    BY DEF Admit
<1>3. status \in Statuses /\ (status = 200 => GuardStatus(r) = 200)
    BY GuardStatusType DEF Admission, Statuses
<1>4. CASE status = 200
    <2> DEFINE j == [phase |-> "admitted", request |-> r, found |-> NoEntry, keys |-> {}]
    <2>1. JobSound(j)
        BY <1>3, <1>4 DEF JobSound, Phases
    <2>2. job' = [d \in Clients |-> job'[d]] /\ \A d \in Clients : JobSound(job'[d])
        BY <1>2, <1>4, <2>1, JobSet
    <2>3. AnswerSound(answer')
        BY <1>2, <1>4 DEF AnswerSound, NoAnswer
    <2> QED
        BY <1>1, <2>2, <2>3 DEF IndInv
<1>5. CASE status # 200
    <2>1. AnswerSound(answer')
        BY <1>2, <1>3, <1>5 DEF AnswerSound, Answered
    <2>2. job' = [d \in Clients |-> job'[d]] /\ \A d \in Clients : JobSound(job'[d])
        BY <1>2, <1>5 DEF IndInv
    <2> QED
        BY <1>1, <2>1, <2>2 DEF IndInv
<1> QED
    BY <1>4, <1>5

(* A hit is answered with the entry, or refreshes it.                      *)
LEMMA HitStep ==
    ASSUME IndInv, NEW c \in Clients, Hit(c)
    PROVE  IndInv'
<1> DEFINE r == job[c].request
           e == Stored(Key(r))
<1>1. Admitted(r) /\ job[c] # Idle
    BY HandlingAdmitted DEF Hit
<1>2. e.exists /\ EntryFor(Key(r), e)
    BY StoredIsSound DEF Hit
<1>3. CacheSound(cache') /\ redisUp' = redisUp
    BY DEF Hit, IndInv
<1>4. \/ RespondWithData(c, "cached", e)
      \/ GoOn(c, "querying", e)
      \/ Respond(c, 400)
    BY DEF Hit
<1>5. 400 \in Statuses
    BY DEF Statuses
<1> QED
    BY <1>1, <1>2, <1>3, <1>4, <1>5, Responds, RespondsWithData, GoesOn

(* On a miss the request is validated before it goes on.                   *)
LEMMA MissStep ==
    ASSUME IndInv, NEW c \in Clients, Miss(c)
    PROVE  IndInv'
<1> DEFINE r == job[c].request
<1>1. Admitted(r) /\ job[c] # Idle
    BY HandlingAdmitted DEF Miss
<1>2. CacheSound(cache') /\ redisUp' = redisUp
    BY DEF Miss, IndInv
<1>3. \/ Respond(c, 404)
      \/ Respond(c, 400)
      \/ GoOn(c, "querying", NoEntry) /\ Answerable(r)
    BY DEF Miss, Answerable
<1>4. 400 \in Statuses /\ 404 \in Statuses
    BY DEF Statuses
<1> QED
    BY <1>1, <1>2, <1>3, <1>4, Responds, GoesOn

(* SET with an entry made for the key.                                     *)
LEMMA WriteSound ==
    ASSUME IndInv, NEW k, NEW e, EntryFor(k, e),
           cache' = IF redisUp
                    THEN [x \in {k} \cup DOMAIN cache |-> IF x = k THEN e ELSE cache[x]]
                    ELSE cache
    PROVE  CacheSound(cache')
BY DEF IndInv, CacheSound

(* A refresh adds the query of this request to those of the entry found:   *)
(* they all have been made for the key.                                    *)
LEMMA ComputeStep ==
    ASSUME IndInv, NEW c \in Clients, Compute(c)
    PROVE  IndInv'
<1> DEFINE r == job[c].request
           found == job[c].found
           computed(cursor) ==
               [exists |-> TRUE, question |-> Asked(r),
                queries |-> found.queries \cup {BuildLRSFilters(r.params)},
                cursor |-> cursor]
           Write(e) ==
               cache' = IF redisUp
                        THEN [k \in {Key(r)} \cup DOMAIN cache |->
                                IF k = Key(r) THEN e ELSE cache[k]]
                        ELSE cache
<1>1. Admitted(r) /\ job[c] # Idle /\ job[c].phase = "querying" /\ redisUp' = redisUp
    BY HandlingAdmitted DEF Compute
<1>2. \/ found = NoEntry /\ Answerable(r)
      \/ found.exists /\ EntryFor(Key(r), found)
    BY <1>1 DEF IndInv, JobSound
<1>5. \A cursor : EntryFor(Key(r), computed(cursor))
    BY <1>1, <1>2, EntryMade
<1>6. \E e : /\ EntryFor(Key(r), e) /\ Write(e)
             /\ \/ RespondWithData(c, "available", e)
                \/ RespondWithData(c, "cached", e)
    <2>1. CASE ~found.exists
        <3>1. PICK cursor \in BOOLEAN :
                 Write(computed(cursor)) /\ RespondWithData(c, "available", computed(cursor))
            BY <2>1 DEF Compute
        <3> QED
            BY <1>5, <3>1
    <2>2. CASE found.exists
        <3>1. EntryFor(Key(r), found)
            BY <1>2, <2>2 DEF NoEntry
        <3>2. \/ Write(found) /\ RespondWithData(c, "cached", found)
              \/ /\ Write(computed(TRUE))
                 /\ RespondWithData(c, "available", computed(TRUE))
            BY <2>2 DEF Compute
        <3> HIDE DEF computed, Write
        <3> QED
            BY <1>5, <3>1, <3>2
    <2> QED
        BY <2>1, <2>2
<1>7. PICK e : /\ EntryFor(Key(r), e) /\ Write(e)
               /\ \/ RespondWithData(c, "available", e)
                  \/ RespondWithData(c, "cached", e)
    BY <1>6
<1>8. CacheSound(cache')
    BY <1>7, WriteSound
<1> QED
    BY <1>1, <1>7, <1>8, RespondsWithData

(* Without the LRS a hit is answered with the entry that it found.         *)
LEMMA QueryFailsStep ==
    ASSUME IndInv, NEW c \in Clients, NEW error, QueryFails(c, error)
    PROVE  IndInv'
<1> DEFINE r == job[c].request
<1>1. /\ Admitted(r) /\ job[c] # Idle /\ job[c].phase = "querying"
      /\ CacheSound(cache') /\ redisUp' = redisUp
    BY HandlingAdmitted DEF QueryFails, IndInv
<1>2. job[c].found.exists => EntryFor(Key(r), job[c].found)
    BY <1>1 DEF IndInv, JobSound, NoEntry
<1>3. \/ RespondWithData(c, "cached", job[c].found) /\ job[c].found.exists
      \/ Respond(c, 503) \/ Respond(c, 400) \/ Respond(c, 500)
      \/ GoOn(c, "fallback", NoEntry)
    BY DEF QueryFails
<1>4. 400 \in Statuses /\ 500 \in Statuses /\ 503 \in Statuses
    BY DEF Statuses
<1> QED
    BY <1>1, <1>2, <1>3, <1>4, Responds, RespondsWithData, GoesOn

(* The fallback answers with what is under the key now.                    *)
LEMMA FallbackStep ==
    ASSUME IndInv, NEW c \in Clients, Fallback(c)
    PROVE  IndInv'
<1> DEFINE e == Stored(Key(job[c].request))
<1>1. /\ Admitted(job[c].request)
      /\ CacheSound(cache') /\ redisUp' = redisUp
    BY HandlingAdmitted DEF Fallback, IndInv
<1>2. e.exists => EntryFor(Key(job[c].request), e)
    BY StoredIsSound
<1>3. \/ RespondWithData(c, "degraded", e) /\ e.exists
      \/ Respond(c, 200)
    BY DEF Fallback
<1>4. 200 \in Statuses
    BY DEF Statuses
<1> QED
    BY <1>1, <1>2, <1>3, <1>4, Responds, RespondsWithData

(* Catalogue, detail and instances give no cached data.                    *)
LEMMA TablesStep ==
    ASSUME IndInv, NEW c \in Clients, ReadTables(c) \/ DetailNotFound(c)
    PROVE  IndInv'
<1>1. CacheSound(cache') /\ redisUp' = redisUp
    BY DEF ReadTables, DetailNotFound, IndInv
<1>2. 200 \in Statuses /\ 404 \in Statuses
    BY DEF Statuses
<1> QED
    BY <1>1, <1>2, Responds DEF ReadTables, DetailNotFound

(* Deleting keys does no harm to the others.                               *)
LEMMA FewerSound ==
    ASSUME IndInv, NEW K, cache' = [k \in DOMAIN cache \ K |-> cache[k]]
    PROVE  CacheSound(cache')
BY DEF IndInv, CacheSound

(* DEL of one key.                                                         *)
LEMMA InvalidateKeyStep ==
    ASSUME IndInv, NEW c \in Clients, InvalidateKey(c)
    PROVE  IndInv'
<1>1. CacheSound(cache')
    BY FewerSound DEF InvalidateKey, IndInv
<1>2. Respond(c, 200) /\ redisUp' = redisUp /\ 200 \in Statuses
    BY DEF InvalidateKey, Statuses
<1> QED
    BY <1>1, <1>2, Responds

(* SCAN changes nothing but what the administrator knows.                  *)
LEMMA ScanStep ==
    ASSUME IndInv, NEW c \in Clients, Scan(c)
    PROVE  IndInv'
<1> DEFINE K == {k \in DOMAIN cache : GlobMatches(Pattern(job[c].request.dto), k)}
           j == [job[c] EXCEPT !.phase = "deleting", !.keys = K]
<1>1. CacheSound(cache') /\ redisUp' = redisUp /\ redisUp \in BOOLEAN
    BY DEF Scan, IndInv
<1>2. CASE redisUp
    <2>1. job[c] \in [phase : Phases, request : Inputs, found : {job[c].found},
                      keys : {job[c].keys}]
        BY DEF IndInv, JobSound, Scan, Handling, Idle
    <2>2. GuardStatus(job[c].request) = 200
        BY DEF IndInv, JobSound, Scan, Handling, Idle
    <2>3. job' = [job EXCEPT ![c] = j] /\ answer' = NoAnswer
        BY <1>2 DEF Scan, IndInv
    <2> HIDE DEF K
    <2>4. /\ j \in [phase : Phases, request : Inputs, found : {job[c].found}, keys : {K}]
          /\ j.phase = "deleting" /\ j.request = job[c].request
          /\ j.found = job[c].found /\ j.keys = K
        BY <2>1 DEF Phases
    <2> HIDE DEF j
    <2>5. JobSound(j)
        BY <2>2, <2>4 DEF JobSound
    <2>6. job' = [d \in Clients |-> job'[d]] /\ \A d \in Clients : JobSound(job'[d])
        BY <2>3, <2>5, JobSet
    <2>7. AnswerSound(answer')
        BY <2>3 DEF AnswerSound, NoAnswer
    <2> QED
        BY <1>1, <2>6, <2>7 DEF IndInv
<1>3. CASE ~redisUp
    <2>1. Respond(c, 200) /\ 200 \in Statuses
        BY <1>3 DEF Scan, Statuses
    <2> QED
        BY <1>1, <2>1, Responds
<1> QED
    BY <1>2, <1>3

(* The pipeline of DELs.                                                   *)
LEMMA DeleteScannedStep ==
    ASSUME IndInv, NEW c \in Clients, DeleteScanned(c)
    PROVE  IndInv'
<1>1. CacheSound(cache')
    BY FewerSound DEF DeleteScanned, IndInv
<1>2. Respond(c, 200) /\ redisUp' = redisUp /\ 200 \in Statuses
    BY DEF DeleteScanned, Statuses
<1> QED
    BY <1>1, <1>2, Responds

(* TTLs run out and Redis comes and goes.                                  *)
LEMMA EnvironmentStep ==
    ASSUME IndInv, RedisChange \/ (\E k \in DOMAIN cache : Expire(k))
    PROVE  IndInv'
<1>1. AnswerSound(answer')
    <2>1. answer' = NoAnswer
        BY DEF RedisChange, Expire
    <2> QED
        BY <2>1 DEF AnswerSound, NoAnswer
<1>2. CacheSound(cache')
    BY FewerSound DEF RedisChange, Expire, IndInv
<1> QED
    BY <1>1, <1>2 DEF IndInv, RedisChange, Expire

(* Every step preserves the invariant.                                     *)
LEMMA NextIndInv ==
    ASSUME IndInv, [Next]_vars
    PROVE  IndInv'
<1>1. CASE \E c \in Clients : \E r \in Inputs : Admit(c, r)
    BY <1>1, AdmitStep
<1>2. CASE \E c \in Clients : Hit(c)
    BY <1>2, HitStep
<1>3. CASE \E c \in Clients : Miss(c)
    BY <1>3, MissStep
<1>4. CASE \E c \in Clients : Compute(c)
    BY <1>4, ComputeStep
<1>5. CASE \E c \in Clients : \E error : QueryFails(c, error)
    BY <1>5, QueryFailsStep
<1>6. CASE \E c \in Clients : Fallback(c)
    BY <1>6, FallbackStep
<1>7. CASE \E c \in Clients : ReadTables(c) \/ DetailNotFound(c)
    BY <1>7, TablesStep
<1>8. CASE \E c \in Clients : InvalidateKey(c)
    BY <1>8, InvalidateKeyStep
<1>9. CASE \E c \in Clients : Scan(c)
    BY <1>9, ScanStep
<1>10. CASE \E c \in Clients : DeleteScanned(c)
    BY <1>10, DeleteScannedStep
<1>11. CASE RedisChange \/ (\E k \in DOMAIN cache : Expire(k))
    BY <1>11, EnvironmentStep
<1>12. CASE UNCHANGED vars
    BY <1>12 DEF vars, IndInv
<1> QED
    BY <1>1, <1>2, <1>3, <1>4, <1>5, <1>6, <1>7, <1>8, <1>9, <1>10, <1>11, <1>12 DEF Next

(* Every entry, in the cache, in a request's hands or in an answer, was    *)
(* made for an admitted question with its key, in every reachable state.   *)
LEMMA Invariance == Spec => []IndInv
BY InitIndInv, NextIndInv, PTL DEF Spec

(* The cache holds results of metrics that exist: nothing is stored under  *)
(* a key whose metric no provider answers for.  It is the type of the      *)
(* variables too.                                                          *)
THEOREM TypeCorrect == Spec => []TypeOK
<1>1. IndInv => TypeOK
    <2> SUFFICES ASSUME IndInv PROVE TypeOK
        OBVIOUS
    <2>1. ASSUME NEW k \in DOMAIN cache
          PROVE  cache[k].question.metric \in Metrics!MetricIds
        <3>1. EntryFor(k, cache[k])
            BY DEF IndInv, CacheSound
        <3>2. PICK s : Admitted(s) /\ Key(s) = k
            BY <3>1 DEF EntryFor
        <3>3. KnownMetric(s.metric) /\ cache[k].question.metric = s.metric
            BY <3>1, <3>2, EntryAnswers
        <3> QED
            BY <3>3 DEF KnownMetric
    <2>2. ASSUME NEW c \in Clients, job[c] # Idle
          PROVE  /\ job[c].phase \in Phases
                 /\ job[c].request \in Inputs
        BY <2>2 DEF IndInv, JobSound
    <2>3. redisUp \in BOOLEAN /\ (answer # NoAnswer => answer.status \in Statuses)
        BY DEF IndInv, AnswerSound
    <2> QED
        BY <2>1, <2>2, <2>3 DEF TypeOK, Phases, Statuses
<1> QED
    BY <1>1, Invariance, PTL

(* A client gets a result for the metric and the instance that he has      *)
(* asked for and, if his key is legible, for his parameters; and then      *)
(* every LRS query that contributed to it is the one that his own request  *)
(* makes, unless an instance called `default' has an endpoint of its own   *)
(* and is asked for under the same key.                                    *)
THEOREM AnswersOwn == Spec => []AnswersOwnRequest
<1>1. IndInv => AnswersOwnRequest
    BY EntryAnswers DEF IndInv, AnswerSound, AnswersOwnRequest, HasData
<1> QED
    BY <1>1, Invariance, PTL

(* Nobody is given data, fresh, cached or stale, whose request the guards  *)
(* would refuse, or for a metric that does not exist; nor, if his key is   *)
(* legible, whose parameters the metric's provider would refuse.           *)
THEOREM Validated == Spec => []ValidatedBeforeAnswer
<1>1. IndInv => ValidatedBeforeAnswer
    BY EntryAnswers DEF IndInv, AnswerSound, ValidatedBeforeAnswer, HasData,
                        Admitted, Answerable
<1> QED
    BY <1>1, Invariance, PTL

-----------------------------------------------------------------------------
(* The keys of the entries.                                                *)

(* A metric that accepts its parameters has been told the user, and so the *)
(* key has a filter, whoever else has the key.                             *)
LEMMA FiltersGiven ==
    ASSUME NEW r, Admitted(r), NEW s, Admitted(s), Answerable(s), Key(r) = Key(s)
    PROVE  FilterSegment(r.params) # Empty
<1> DEFINE p == s.params
<1>1. Typed(p) /\ FilterSegment(r.params) = FilterSegment(p)
    BY AdmittedTyped, SameKey
<1>2. p.userId # Empty
    BY DEF Answerable, Accepts, Metrics!ValidateParams
<1>3. "userId" \in ParamNames /\ p["userId"] # Empty
    BY <1>2, NamesKnown
<1> HIDE DEF p
<1>4. \E i \in 1..Len(KeyFilters(p)) : KeyFilters(p)[i] = "userId"
    BY <1>3, KeyFiltersGiven
<1>5. Len(KeyFilters(p)) # 0
    BY <1>4
<1>6. Pairs(p) # <<>>
    BY <1>1, <1>5, SegmentTells
<1> QED
    BY <1>1, <1>6, SegmentTells

(* An entry's key is that of its question and has its six segments, and    *)
(* the patterns that name its metric and instance, and no others, reach    *)
(* it: an invalidation by pattern neither misses results nor takes         *)
(* others', whatever the values.                                           *)
THEOREM KeysName == Spec => []KeysNameTheirEntries
<1>1. ASSUME IndInv, NEW k \in DOMAIN cache
      PROVE  LET q == cache[k].question
             IN  /\ k = Keys[q]
                 /\ Cardinality({i \in DOMAIN k : k[i] = Colon}) = 5
                 /\ \A named \in Questions :
                       Nameable(named) =>
                          (Reaches[named][q] <=>
                              /\ named.metric = q.metric
                              /\ InstanceOf(named.params) = InstanceOf(q.params))
    <2> DEFINE q == cache[k].question
    <2>0. EntryFor(k, cache[k])
        BY <1>1 DEF IndInv, CacheSound
    <2>1. PICK s \in Inputs : Admitted(s) /\ Key(s) = k /\ q = Asked(s)
        BY <2>0 DEF EntryFor
    <2> DEFINE m == s.metric
               p == s.params
    <2>2. q \in Questions /\ q.metric = m /\ q.params = p
        BY <2>1 DEF Admitted, Questions, Asked
    <2>3. m \in Tokens /\ m # Colon /\ Typed(p)
        BY <2>1, AdmittedTyped
    <2>4. FilterSegment(p) # Empty
        BY <2>0, <2>1, FiltersGiven DEF EntryFor
    <2>5. k = Keys[q] /\ Keys[q] = GenerateCacheKey(m, p)
        BY <2>1, KeyIs DEF Key
    <2> HIDE DEF q, m, p
    <2>6. Cardinality({i \in DOMAIN k : k[i] = Colon}) = 5
        BY <2>3, <2>4, <2>5, KeyColons
    <2>8. ASSUME NEW named \in Questions, Nameable(named)
          PROVE  Reaches[named][q] <=>
                     /\ named.metric = q.metric
                     /\ InstanceOf(named.params) = InstanceOf(q.params)
        <3> DEFINE n == named.metric
                   i == InstanceOf(named.params)
        <3>1. Reaches[named][q] <=> GlobMatches(GenerateCacheKeyPattern(n, i), Keys[q])
            BY <2>2 DEF Reaches
        <3>2. n \in Tokens /\ n # Colon /\ named.params.instanceId \in Text
            <4>1. PICK r \in Inputs : r.route = "results" /\ named = Asked(r)
                BY DEF Questions
            <4>2. n = r.metric /\ named.params = r.params
                BY <4>1 DEF Asked
            <4>3. r.params["instanceId"] \in Text
                BY <4>1, RequestsAssumption
            <4> QED
                BY <4>1, <4>2, <4>3, RequestsAssumption
        <3>3. DefaultInstance \in Text
            BY CacheKeysAssumption DEF DefaultInstance, Text
        <3>4. i \in Text
            BY <3>2, <3>3 DEF InstanceOf
        <3>5. n \notin {Colon, Star} /\ Free(i, Colon) /\ Free(i, Star)
            BY <2>8, <3>2 DEF Nameable
        <3> HIDE DEF n, i
        <3>6. GlobMatches(GenerateCacheKeyPattern(n, i), GenerateCacheKey(m, p))
                 <=> n = m /\ i = InstanceOf(p)
            BY <2>3, <2>4, <3>2, <3>4, <3>5, PatternsReachTheirKeys
        <3> QED
            BY <2>2, <2>5, <3>1, <3>6 DEF n, i
    <2> QED
        BY <2>5, <2>6, <2>8 DEF q
<1>2. IndInv => KeysNameTheirEntries
    BY <1>1 DEF KeysNameTheirEntries
<1> QED
    BY <1>2, Invariance, PTL

===============================================================================
