----------------------------- MODULE TextProofs -----------------------------
(***************************************************************************)
(* Proofs about the text on the screen and the pictures the corrector and  *)
(* the expander keep of it, for a user who never types ahead of the loop   *)
(* except where a theorem does without that.                               *)
(***************************************************************************)
EXTENDS TypingProofs

-----------------------------------------------------------------------------
(* Sequences, of whatever elements.                                        *)

IsSequence(s) == s \in Seq(Range(s))

LEMMA TypedIsSequence ==
  ASSUME NEW S, NEW s \in Seq(S)
  PROVE  IsSequence(s)
<1>1. s \in Seq(Range(s))
  <2>1. Len(s) \in Nat /\ s = [i \in 1..Len(s) |-> s[i]] /\ \A i \in 1..Len(s) : s[i] \in Range(s)
    BY DEF Range
  <2> DEFINE n == Len(s)
             R == Range(s)
  <2> HIDE DEF n, R
  <2>2. [i \in 1..n |-> s[i]] \in Seq(R)
    BY <2>1 DEF n, R
  <2> QED
    BY <2>1, <2>2 DEF n, R
<1> QED
  BY <1>1 DEF IsSequence

LEMMA SequenceFacts ==
  ASSUME NEW s, IsSequence(s)
  PROVE  /\ Len(s) \in Nat /\ DOMAIN s = 1..Len(s)
         /\ s = [i \in 1..Len(s) |-> s[i]]
         /\ Len(s) = 0 <=> s = <<>>
BY DEF IsSequence

LEMMA TabulatedIsSequence ==
  ASSUME NEW n \in Nat, NEW f, f = [i \in 1..n |-> f[i]]
  PROVE  IsSequence(f) /\ Len(f) = n
<1> DEFINE R == { f[i] : i \in 1..n }
<1>1. [i \in 1..n |-> f[i]] \in [1..n -> R]
  OBVIOUS
<1>2. f \in [1..n -> R]
  BY <1>1
<1>3. f \in Seq(R) /\ Len(f) = n
  <2> HIDE DEF R
  <2> QED
    BY <1>2
<1> QED
  BY <1>3, TypedIsSequence

LEMMA EmptyIsSequence == IsSequence(<<>>)
BY DEF IsSequence

LEMMA AppendIsSequence ==
  ASSUME NEW s, IsSequence(s), NEW e
  PROVE  /\ IsSequence(Append(s, e)) /\ Len(Append(s, e)) = Len(s) + 1
         /\ \A i \in 1..Len(s) : Append(s, e)[i] = s[i]
         /\ Append(s, e)[Len(s) + 1] = e
<1> DEFINE R == Range(s) \cup {e}
<1>1. s \in Seq(Range(s))
  BY DEF IsSequence
<1>2. s \in Seq(R) /\ e \in R
  <2> DEFINE Q == Range(s)
  <2>1. Q \subseteq R /\ s \in Seq(Q) /\ e \in R
    BY <1>1
  <2> HIDE DEF Q, R
  <2> QED
    BY <2>1
<1> HIDE DEF R
<1>3. /\ Append(s, e) \in Seq(R) /\ Len(Append(s, e)) = Len(s) + 1
      /\ \A i \in 1..Len(s) : Append(s, e)[i] = s[i]
      /\ Append(s, e)[Len(s) + 1] = e
  BY <1>2
<1> QED
  BY <1>3, TypedIsSequence

LEMMA SubSeqIsSequence ==
  ASSUME NEW s, IsSequence(s), NEW m \in Nat \ {0}, NEW n \in Nat, n <= Len(s)
  PROVE  /\ IsSequence(SubSeq(s, m, n))
         /\ Len(SubSeq(s, m, n)) = IF m <= n THEN n - m + 1 ELSE 0
         /\ \A i \in 1..Len(SubSeq(s, m, n)) : SubSeq(s, m, n)[i] = s[m + i - 1]
<1> DEFINE R == Range(s)
<1>1. s \in Seq(R)
  BY DEF IsSequence
<1> HIDE DEF R
<1>2. /\ SubSeq(s, m, n) \in Seq(R)
      /\ Len(SubSeq(s, m, n)) = IF m <= n THEN n - m + 1 ELSE 0
      /\ \A i \in 1..Len(SubSeq(s, m, n)) : SubSeq(s, m, n)[i] = s[m + i - 1]
  BY <1>1
<1> QED
  BY <1>2, TypedIsSequence

LEMMA ConcatIsSequence ==
  ASSUME NEW s, IsSequence(s), NEW t, IsSequence(t)
  PROVE  /\ IsSequence(s \o t) /\ Len(s \o t) = Len(s) + Len(t)
         /\ \A i \in 1..Len(s) : (s \o t)[i] = s[i]
         /\ \A i \in 1..Len(t) : (s \o t)[Len(s) + i] = t[i]
<1> DEFINE P == Range(s)
           Q == Range(t)
           R == P \cup Q
<1>1. P \subseteq R /\ Q \subseteq R /\ s \in Seq(P) /\ t \in Seq(Q)
  BY DEF IsSequence
<1> HIDE DEF P, Q, R
<1>2. s \in Seq(R) /\ t \in Seq(R)
  BY <1>1
<1>3. /\ s \o t \in Seq(R) /\ Len(s \o t) = Len(s) + Len(t)
      /\ \A i \in 1..Len(s) : (s \o t)[i] = s[i]
      /\ \A i \in 1..Len(t) : (s \o t)[Len(s) + i] = t[i]
  BY <1>2
<1> QED
  BY <1>3, TypedIsSequence

-----------------------------------------------------------------------------
(* Suffixes.                                                               *)

LEMMA SuffixFacts ==
  ASSUME NEW s, IsSequence(s), NEW t, IsSequence(t)
  PROVE  IsSuffix(s, t) <=> /\ Len(s) <= Len(t)
                            /\ \A i \in 1..Len(s) : s[i] = t[Len(t) - Len(s) + i]
<1> DEFINE m == Len(s)
           n == Len(t)
           rs == [i \in 1..m |-> s[(m - i) + 1]]
           rt == [i \in 1..n |-> t[(n - i) + 1]]
<1>1. m \in Nat /\ n \in Nat
  BY SequenceFacts
<1>2. IsSuffix(s, t) <=> Len(rs) <= Len(rt) /\ SubSeq(rs, 1, Len(rs)) = SubSeq(rt, 1, Len(rs))
  BY DEF IsSuffix, IsPrefix, Reverse
<1> HIDE DEF m, n
<1>3. /\ IsSequence(rs) /\ Len(rs) = m /\ IsSequence(rt) /\ Len(rt) = n
  <2>1. rs = [i \in 1..m |-> rs[i]] /\ rt = [i \in 1..n |-> rt[i]]
    OBVIOUS
  <2> HIDE DEF rs, rt
  <2> QED
    BY <1>1, <2>1, TabulatedIsSequence
<1>4. /\ \A i \in 1..m : rs[i] = s[(m - i) + 1]
      /\ \A i \in 1..n : rt[i] = t[(n - i) + 1]
  OBVIOUS
<1> HIDE DEF rs, rt
<1>5. ASSUME m <= n
      PROVE  SubSeq(rs, 1, m) = SubSeq(rt, 1, m) <=> \A i \in 1..m : rs[i] = rt[i]
  <2> DEFINE a == SubSeq(rs, 1, m)
             b == SubSeq(rt, 1, m)
  <2>1. /\ IsSequence(a) /\ Len(a) = m /\ \A i \in 1..m : a[i] = rs[i]
        /\ IsSequence(b) /\ Len(b) = m /\ \A i \in 1..m : b[i] = rt[i]
    <3>1. /\ Len(a) = IF 1 <= m THEN m - 1 + 1 ELSE 0
          /\ Len(b) = IF 1 <= m THEN m - 1 + 1 ELSE 0
          /\ IsSequence(a) /\ IsSequence(b)
          /\ \A i \in 1..Len(a) : a[i] = rs[1 + i - 1]
          /\ \A i \in 1..Len(b) : b[i] = rt[1 + i - 1]
      BY <1>1, <1>3, <1>5, SubSeqIsSequence
    <3> HIDE DEF a, b
    <3> QED
      BY <1>1, <3>1
  <2> HIDE DEF a, b
  <2>2. a = [i \in 1..m |-> a[i]] /\ b = [i \in 1..m |-> b[i]]
    BY <2>1, SequenceFacts
  <2>3. a = b <=> \A i \in 1..m : a[i] = b[i]
    BY <2>2
  <2> QED
    BY <2>1, <2>3 DEF a, b
<1>6. ASSUME m <= n
      PROVE  (\A i \in 1..m : rs[i] = rt[i]) <=> \A i \in 1..m : s[i] = t[n - m + i]
  <2>1. \A i \in 1..m : (m - i) + 1 \in 1..m /\ m - ((m - i) + 1) + 1 = i /\ i \in 1..n
    BY <1>1, <1>6
  <2>2. ASSUME \A i \in 1..m : rs[i] = rt[i], NEW i \in 1..m
        PROVE  s[i] = t[n - m + i]
    <3>1. rs[(m - i) + 1] = rt[(m - i) + 1]
      BY <2>1, <2>2
    <3>2. rs[(m - i) + 1] = s[i]
      BY <1>4, <2>1
    <3>3. rt[(m - i) + 1] = t[(n - ((m - i) + 1)) + 1] /\ (n - ((m - i) + 1)) + 1 = n - m + i
      BY <1>1, <1>4, <1>6, <2>1
    <3> QED
      BY <3>1, <3>2, <3>3
  <2>3. ASSUME \A i \in 1..m : s[i] = t[n - m + i], NEW i \in 1..m
        PROVE  rs[i] = rt[i]
    <3>1. s[(m - i) + 1] = t[n - m + ((m - i) + 1)] /\ n - m + ((m - i) + 1) = (n - i) + 1
      BY <1>1, <2>1, <2>3
    <3> QED
      BY <1>4, <2>1, <3>1
  <2> QED
    BY <2>2, <2>3
<1> QED
  BY <1>1, <1>2, <1>3, <1>5, <1>6 DEF m, n

LEMMA SuffixIntro ==
  ASSUME NEW s, IsSequence(s), NEW t, IsSequence(t), NEW m \in Nat, NEW n \in Nat,
         Len(s) = m, Len(t) = n, m <= n, \A i \in 1..m : s[i] = t[n - m + i]
  PROVE  IsSuffix(s, t)
BY SuffixFacts

LEMMA SuffixEmpty == ASSUME NEW t, IsSequence(t) PROVE IsSuffix(<<>>, t)
<1>1. IsSequence(<<>>) /\ Len(<<>>) = 0 /\ Len(t) \in Nat
  BY EmptyIsSequence, SequenceFacts
<1> QED
  BY <1>1, SuffixFacts

LEMMA SuffixItself == ASSUME NEW t, IsSequence(t) PROVE IsSuffix(t, t)
<1>1. Len(t) \in Nat /\ \A i \in 1..Len(t) : Len(t) - Len(t) + i = i
  BY SequenceFacts
<1> QED
  BY <1>1, SuffixFacts

LEMMA SuffixAppend ==
  ASSUME NEW s, IsSequence(s), NEW t, IsSequence(t), IsSuffix(s, t), NEW e
  PROVE  IsSuffix(Append(s, e), Append(t, e))
<1> DEFINE a == Append(s, e)
           b == Append(t, e)
           m == Len(s)
           n == Len(t)
<1>1. /\ m \in Nat /\ n \in Nat /\ m <= n /\ \A i \in 1..m : s[i] = t[n - m + i]
  BY SequenceFacts, SuffixFacts
<1>2. /\ IsSequence(a) /\ Len(a) = m + 1 /\ (\A i \in 1..m : a[i] = s[i]) /\ a[m + 1] = e
      /\ IsSequence(b) /\ Len(b) = n + 1 /\ (\A i \in 1..n : b[i] = t[i]) /\ b[n + 1] = e
  BY AppendIsSequence
<1> HIDE DEF a, b, m, n
<1>3. ASSUME NEW i \in 1..(m + 1) PROVE a[i] = b[(n + 1) - (m + 1) + i]
  <2>1. (n + 1) - (m + 1) + i = n - m + i
    BY <1>1
  <2>2. CASE i = m + 1
    BY <1>1, <1>2, <2>1, <2>2
  <2>3. CASE i \in 1..m
    <3>1. n - m + i \in 1..n
      BY <1>1, <2>3
    <3> QED
      BY <1>1, <1>2, <2>1, <2>3, <3>1
  <2> QED
    BY <1>1, <2>2, <2>3
<1>4. IsSuffix(a, b)
  <2>1. m + 1 \in Nat /\ n + 1 \in Nat /\ m + 1 <= n + 1
    BY <1>1
  <2> QED
    BY <1>2, <1>3, <2>1, SuffixIntro
<1> QED
  BY <1>4 DEF a, b

LEMMA FrontIsSequence ==
  ASSUME NEW s, IsSequence(s), s # <<>>
  PROVE  /\ IsSequence(Front(s)) /\ Len(Front(s)) = Len(s) - 1 /\ Len(s) > 0
         /\ \A i \in 1..(Len(s) - 1) : Front(s)[i] = s[i]
<1> DEFINE n == Len(s) - 1
<1>1. Len(s) \in Nat \ {0} /\ n \in Nat /\ n <= Len(s)
  BY SequenceFacts
<1>2. /\ IsSequence(SubSeq(s, 1, n)) /\ Len(SubSeq(s, 1, n)) = IF 1 <= n THEN n - 1 + 1 ELSE 0
      /\ \A i \in 1..Len(SubSeq(s, 1, n)) : SubSeq(s, 1, n)[i] = s[1 + i - 1]
  BY <1>1, SubSeqIsSequence
<1>3. Front(s) = SubSeq(s, 1, n)
  BY DEF Front
<1> QED
  BY <1>1, <1>2, <1>3

LEMMA AppendFront ==
  ASSUME NEW s, IsSequence(s), s # <<>>
  PROVE  s = Append(Front(s), Last(s))
<1>1. s \in Seq(Range(s)) /\ Len(s) \in Nat \ {0} /\ s = [i \in 1..Len(s) |-> s[i]]
  BY SequenceFacts DEF IsSequence
<1> DEFINE n == Len(s)
           f == Front(s)
<1>2. /\ IsSequence(f) /\ Len(f) = n - 1 /\ \A i \in 1..(n - 1) : f[i] = s[i]
  BY FrontIsSequence
<1>3. Last(s) = s[n]
  BY DEF Last
<1>4. n \in Nat \ {0} /\ s = [i \in 1..n |-> s[i]] /\ Len(s) = n
  BY <1>1
<1> DEFINE g == Append(f, Last(s))
<1>5. /\ IsSequence(g) /\ Len(g) = n /\ g[n] = s[n] /\ \A i \in 1..(n - 1) : g[i] = f[i]
  BY <1>2, <1>3, <1>4, AppendIsSequence
<1>6. g = [i \in 1..Len(g) |-> g[i]]
  BY <1>5, SequenceFacts
<1> HIDE DEF n, f, g
<1>7. ASSUME NEW i \in 1..n PROVE g[i] = s[i]
  <2>1. i = n \/ i \in 1..(n - 1)
    BY <1>4, <1>7
  <2>2. CASE i \in 1..(n - 1)
    <3>1. f[i] = s[i] /\ g[i] = f[i]
      BY <1>2, <1>5, <2>2
    <3> QED
      BY <3>1
  <2> QED
    BY <1>5, <2>1, <2>2
<1>8. [i \in 1..n |-> g[i]] = [i \in 1..n |-> s[i]]
  BY <1>7
<1>9. g = s
  BY <1>4, <1>5, <1>6, <1>8
<1> QED
  BY <1>9 DEF g, f

LEMMA FrontAppend ==
  ASSUME NEW s, IsSequence(s), NEW e
  PROVE  Append(s, e) # <<>> /\ Last(Append(s, e)) = e /\ Front(Append(s, e)) = s
<1> DEFINE g == Append(s, e)
           n == Len(s)
<1>1. n \in Nat /\ s = [i \in 1..n |-> s[i]]
  BY SequenceFacts
<1>2. IsSequence(g) /\ Len(g) = n + 1 /\ g[n + 1] = e /\ \A i \in 1..n : g[i] = s[i]
  BY AppendIsSequence
<1> HIDE DEF g, n
<1>3. g # <<>>
  BY <1>1, <1>2, SequenceFacts
<1>4. Last(g) = e
  BY <1>2 DEF Last
<1> DEFINE f == Front(g)
<1>5. IsSequence(f) /\ Len(f) = n /\ \A i \in 1..n : f[i] = g[i]
  BY <1>1, <1>2, <1>3, FrontIsSequence
<1>6. f = [i \in 1..Len(f) |-> f[i]]
  BY <1>5, SequenceFacts
<1> HIDE DEF f
<1>7. [i \in 1..n |-> f[i]] = [i \in 1..n |-> s[i]]
  BY <1>2, <1>5
<1>8. f = s
  BY <1>1, <1>5, <1>6, <1>7
<1> QED
  BY <1>3, <1>4, <1>8 DEF f, g

LEMMA SuffixFront ==
  ASSUME NEW s, IsSequence(s), s # <<>>, NEW t, IsSequence(t), IsSuffix(s, t)
  PROVE  t # <<>> /\ IsSuffix(Front(s), Front(t))
<1> DEFINE a == Front(s)
           b == Front(t)
           m == Len(s)
           n == Len(t)
<1>1. m \in Nat /\ n \in Nat /\ m <= n /\ \A i \in 1..m : s[i] = t[n - m + i]
  BY SequenceFacts, SuffixFacts
<1>2. IsSequence(a) /\ Len(a) = m - 1 /\ m > 0 /\ \A i \in 1..(m - 1) : a[i] = s[i]
  BY FrontIsSequence
<1>3. t # <<>>
  BY <1>1, <1>2, SequenceFacts
<1>4. IsSequence(b) /\ Len(b) = n - 1 /\ \A i \in 1..(n - 1) : b[i] = t[i]
  BY <1>3, FrontIsSequence
<1> HIDE DEF a, b, m, n
<1>5. \A i \in 1..(m - 1) : a[i] = b[(n - 1) - (m - 1) + i]
  BY <1>1, <1>2, <1>4
<1>6. IsSuffix(a, b)
  <2> DEFINE i == m - 1
             j == n - 1
  <2>1. i \in Nat /\ j \in Nat /\ i <= j /\ Len(a) = i /\ Len(b) = j
    BY <1>1, <1>2, <1>4
  <2>2. \A x \in 1..i : a[x] = b[j - i + x]
    BY <1>5
  <2> HIDE DEF i, j
  <2> QED
    BY <1>2, <1>4, <2>1, <2>2, SuffixIntro
<1> QED
  BY <1>3, <1>6 DEF a, b

LEMMA SuffixTransitive ==
  ASSUME NEW r, IsSequence(r), NEW s, IsSequence(s), NEW t, IsSequence(t),
         IsSuffix(r, s), IsSuffix(s, t)
  PROVE  IsSuffix(r, t)
<1> DEFINE l == Len(r)
           m == Len(s)
           n == Len(t)
<1>1. /\ l \in Nat /\ m \in Nat /\ n \in Nat /\ l <= m /\ m <= n
      /\ \A i \in 1..l : r[i] = s[m - l + i]
      /\ \A i \in 1..m : s[i] = t[n - m + i]
  BY SequenceFacts, SuffixFacts
<1> HIDE DEF l, m, n
<1>2. \A i \in 1..l : m - l + i \in 1..m /\ n - m + (m - l + i) = n - l + i
  BY <1>1
<1>3. \A i \in 1..l : r[i] = t[n - l + i]
  BY <1>1, <1>2
<1> QED
  BY <1>1, <1>3, SuffixFacts DEF l, m, n

LEMMA SuffixConcat ==
  ASSUME NEW p, IsSequence(p), NEW s, IsSequence(s)
  PROVE  IsSuffix(s, p \o s)
<1>1. /\ Len(s) \in Nat /\ Len(p) \in Nat /\ IsSequence(p \o s) /\ Len(p \o s) = Len(p) + Len(s)
      /\ \A i \in 1..Len(s) : (p \o s)[Len(p) + i] = s[i]
  <2>1. Len(s) \in Nat /\ Len(p) \in Nat
    BY SequenceFacts
  <2>2. IsSequence(p \o s) /\ Len(p \o s) = Len(p) + Len(s)
    BY ConcatIsSequence
  <2>3. \A i \in 1..Len(s) : (p \o s)[Len(p) + i] = s[i]
    BY ConcatIsSequence
  <2> QED
    BY <2>1, <2>2, <2>3
<1> DEFINE t == p \o s
           m == Len(s)
           n == Len(p)
           k == Len(t)
<1>2. m \in Nat /\ n \in Nat /\ IsSequence(t) /\ k = n + m /\ \A i \in 1..m : t[n + i] = s[i]
  BY <1>1
<1>3. k = Len(t) /\ m = Len(s) /\ (IsSuffix(s, t) <=> IsSuffix(s, p \o s))
  OBVIOUS
<1> HIDE DEF t, m, n, k
<1>4. \A i \in 1..m : k - m + i = n + i
  BY <1>2
<1>5. k \in Nat /\ m <= k /\ \A i \in 1..m : s[i] = t[k - m + i]
  BY <1>2, <1>4
<1>6. IsSuffix(s, t)
  BY <1>2, <1>3, <1>5, SuffixFacts
<1> QED
  BY <1>3, <1>6

LEMMA KeepFirstIsSequence ==
  ASSUME NEW s, IsSequence(s), NEW n \in Nat
  PROVE  IsSequence(KeepFirst(s, n))
<1> DEFINE k == IF Len(s) > n THEN n ELSE Len(s)
<1>1. k \in Nat /\ k <= Len(s) /\ 1 \in Nat \ {0}
  BY SequenceFacts
<1>2. KeepFirst(s, n) = SubSeq(s, 1, k)
  BY DEF KeepFirst
<1> HIDE DEF k
<1>3. IsSequence(SubSeq(s, 1, k))
  BY <1>1, SubSeqIsSequence
<1> QED
  BY <1>2, <1>3

LEMMA CursorBackSplits ==
  ASSUME NEW t, IsSequence(t), NEW s, IsSequence(s), IsSuffix(s, t)
  PROVE  /\ IsSequence(CursorBack(t, Len(s)))
         /\ t = CursorBack(t, Len(s)) \o s
<1>1. /\ Len(t) \in Nat /\ Len(s) \in Nat /\ Len(s) <= Len(t)
      /\ \A i \in 1..Len(s) : s[i] = t[Len(t) - Len(s) + i]
      /\ t = [i \in 1..Len(t) |-> t[i]] /\ DOMAIN t = 1..Len(t)
  BY SequenceFacts, SuffixFacts
<1> DEFINE k == Len(t) - Len(s)
           q == CursorBack(t, Len(s))
           w == q \o s
<1>2. k \in 0..Len(t) /\ q = SubSeq(t, 1, k)
  BY <1>1 DEF CursorBack, KeepFirst
<1>3. IsSequence(q) /\ Len(q) = k /\ \A i \in 1..k : q[i] = t[i]
  <2>1. IsSequence(SubSeq(t, 1, k)) /\ Len(SubSeq(t, 1, k)) = k /\ \A i \in 1..k : SubSeq(t, 1, k)[i] = t[i]
    BY <1>1, <1>2, SubSeqIsSequence
  <2> QED
    BY <1>2, <2>1
<1> HIDE DEF q
<1>4. IsSequence(w) /\ Len(w) = k + Len(s) /\ (\A i \in 1..k : w[i] = q[i])
      /\ \A i \in 1..Len(s) : w[k + i] = s[i]
  BY <1>3, ConcatIsSequence
<1>5. w = [i \in 1..Len(w) |-> w[i]]
  BY <1>4, SequenceFacts
<1> HIDE DEF w
<1>6. Len(w) = Len(t)
  BY <1>1, <1>4
<1>7. ASSUME NEW i \in 1..Len(t) PROVE w[i] = t[i]
  <2>1. CASE i \in 1..k
    BY <1>3, <1>4, <2>1
  <2>2. CASE i \notin 1..k
    <3>1. i - k \in 1..Len(s) /\ i = k + (i - k) /\ i = Len(t) - Len(s) + (i - k)
      BY <1>1, <1>2, <2>2
    <3> QED
      BY <1>1, <1>4, <3>1
  <2> QED
    BY <2>1, <2>2
<1>8. w = t
  BY <1>1, <1>5, <1>6, <1>7
<1> QED
  BY <1>3, <1>8 DEF w, q

LEMMA CursorBackOver ==
  ASSUME NEW p, IsSequence(p), NEW s, IsSequence(s)
  PROVE  CursorBack(p \o s, Len(s)) = p
<1> DEFINE t == p \o s
           q == CursorBack(t, Len(s))
<1>1. IsSequence(t) /\ IsSuffix(s, t)
  BY ConcatIsSequence, SuffixConcat
<1>2. /\ Len(t) = Len(p) + Len(s) /\ Len(p) \in Nat /\ Len(s) \in Nat
      /\ (\A i \in 1..Len(p) : t[i] = p[i])
      /\ p = [i \in 1..Len(p) |-> p[i]]
  BY ConcatIsSequence, SequenceFacts
<1> HIDE DEF t
<1>3. q = SubSeq(t, 1, Len(p))
  <2> DEFINE a == Len(t)
             b == Len(s)
             k == IF a > b THEN a - b ELSE 0
             n == IF a > k THEN k ELSE a
  <2>1. q = SubSeq(t, 1, n)
    BY DEF CursorBack, KeepFirst
  <2>2. a = Len(p) + b /\ Len(p) \in Nat /\ b \in Nat
    BY <1>2
  <2> HIDE DEF a, b
  <2>3. n = Len(p)
    BY <2>2
  <2> HIDE DEF n, q
  <2> QED
    BY <2>1, <2>3
<1>4. IsSequence(q) /\ Len(q) = Len(p) /\ \A i \in 1..Len(p) : q[i] = t[i]
  <2>1. /\ IsSequence(SubSeq(t, 1, Len(p))) /\ Len(SubSeq(t, 1, Len(p))) = Len(p)
        /\ \A i \in 1..Len(p) : SubSeq(t, 1, Len(p))[i] = t[i]
    BY <1>1, <1>2, SubSeqIsSequence
  <2> QED
    BY <1>3, <2>1
<1>5. q = [i \in 1..Len(q) |-> q[i]]
  BY <1>4, SequenceFacts
<1> HIDE DEF q
<1>6. q = p
  BY <1>2, <1>4, <1>5
<1> QED
  BY <1>6 DEF q, t

LEMMA ConcatAppend ==
  ASSUME NEW p, IsSequence(p), NEW s, IsSequence(s), NEW e
  PROVE  /\ p \o Append(s, e) = Append(p \o s, e)
         /\ p \o Append(s, e) # <<>> /\ Last(p \o Append(s, e)) = e
         /\ Front(p \o Append(s, e)) = p \o s
<1> DEFINE u == Append(s, e)
           t == p \o u
           v == p \o s
           w == Append(v, e)
           R == Range(p) \cup Range(s) \cup {e}
<1>1. p \in Seq(R) /\ s \in Seq(R) /\ e \in R
  <2>1. p \in Seq(Range(p)) /\ s \in Seq(Range(s)) /\ Range(p) \subseteq R /\ Range(s) \subseteq R /\ e \in R
    BY DEF IsSequence
  <2> HIDE DEF R
  <2> QED
    BY <2>1
<1> HIDE DEF R
<1>2. t = w
  BY <1>1
<1>3. IsSequence(v)
  BY ConcatIsSequence
<1> HIDE DEF v
<1>4. w # <<>> /\ Last(w) = e /\ Front(w) = v
  BY <1>3, FrontAppend
<1> QED
  BY <1>2, <1>4 DEF v

LEMMA CursorBackAppend ==
  ASSUME NEW t, IsSequence(t), NEW c, NEW n \in Nat
  PROVE  CursorBack(Append(t, c), n + 1) = CursorBack(t, n)
<1> DEFINE u == Append(t, c)
           l == Len(t)
           k == IF l > n THEN l - n ELSE 0
<1>1. IsSequence(u) /\ Len(u) = l + 1 /\ l \in Nat /\ \A i \in 1..l : u[i] = t[i]
  BY AppendIsSequence, SequenceFacts
<1>2. CursorBack(t, n) = SubSeq(t, 1, k)
  <2>1. k <= l /\ k \in Nat
    BY <1>1
  <2>2. (IF l > k THEN k ELSE l) = k
    BY <1>1, <2>1
  <2> QED
    BY <2>2 DEF CursorBack, KeepFirst
<1>3. CursorBack(u, n + 1) = SubSeq(u, 1, k)
  <2> DEFINE m == Len(u)
             h == IF m > n + 1 THEN m - (n + 1) ELSE 0
             j == IF m > h THEN h ELSE m
  <2>1. CursorBack(u, n + 1) = SubSeq(u, 1, j)
    BY DEF CursorBack, KeepFirst
  <2>2. m = l + 1 /\ l \in Nat
    BY <1>1
  <2> HIDE DEF m, l, u
  <2>3. j = k
    BY <2>2
  <2> HIDE DEF j, k
  <2> QED
    BY <2>1, <2>3
<1>4. k \in Nat /\ k <= l
  BY <1>1
<1> HIDE DEF u, k
<1>5. /\ IsSequence(SubSeq(t, 1, k)) /\ Len(SubSeq(t, 1, k)) = k
      /\ \A i \in 1..k : SubSeq(t, 1, k)[i] = t[i]
  <2>1. k <= Len(t) /\ 1 \in Nat \ {0}
    BY <1>4
  <2>2. Len(SubSeq(t, 1, k)) = IF 1 <= k THEN k - 1 + 1 ELSE 0
    BY <1>4, <2>1, SubSeqIsSequence
  <2>3. Len(SubSeq(t, 1, k)) = k
    BY <1>4, <2>2
  <2> QED
    BY <1>4, <2>1, <2>3, SubSeqIsSequence
<1>6. /\ IsSequence(SubSeq(u, 1, k)) /\ Len(SubSeq(u, 1, k)) = k
      /\ \A i \in 1..k : SubSeq(u, 1, k)[i] = u[i]
  <2>1. k <= Len(u) /\ 1 \in Nat \ {0}
    BY <1>1, <1>4
  <2>2. Len(SubSeq(u, 1, k)) = IF 1 <= k THEN k - 1 + 1 ELSE 0
    BY <1>1, <1>4, <2>1, SubSeqIsSequence
  <2>3. Len(SubSeq(u, 1, k)) = k
    BY <1>4, <2>2
  <2> QED
    BY <1>1, <1>4, <2>1, <2>3, SubSeqIsSequence
<1> DEFINE p == SubSeq(t, 1, k)
           q == SubSeq(u, 1, k)
<1>7. p = [i \in 1..k |-> p[i]] /\ q = [i \in 1..k |-> q[i]]
  BY <1>5, <1>6, SequenceFacts
<1>8. \A i \in 1..k : p[i] = q[i]
  BY <1>1, <1>4, <1>5, <1>6
<1> HIDE DEF p, q
<1>9. p = q
  BY <1>7, <1>8
<1> QED
  BY <1>2, <1>3, <1>9 DEF p, q, u

LEMMA CursorBackNothing ==
  ASSUME NEW t, IsSequence(t)
  PROVE  CursorBack(t, 0) = t
<1>1. t \o <<>> = t /\ Len(<<>>) = 0
  BY DEF IsSequence
<1>2. CursorBack(t \o <<>>, Len(<<>>)) = t
  BY EmptyIsSequence, CursorBackOver
<1> QED
  BY <1>1, <1>2

LEMMA CursorBackInNothing ==
  ASSUME NEW n \in Nat
  PROVE  CursorBack(<<>>, n) = <<>>
BY DEF CursorBack, KeepFirst

LEMMA KeepLastIsSuffix ==
  ASSUME NEW s, IsSequence(s), NEW n \in Nat
  PROVE  IsSequence(KeepLast(s, n)) /\ IsSuffix(KeepLast(s, n), s)
<1>1. Len(s) \in Nat
  BY SequenceFacts
<1>2. CASE Len(s) <= n
  <2>1. KeepLast(s, n) = s
    BY <1>1, <1>2 DEF KeepLast
  <2> QED
    BY <2>1, SuffixItself
<1>3. CASE Len(s) > n
  <2> DEFINE k == Len(s) - n + 1
             t == SubSeq(s, k, Len(s))
  <2>1. KeepLast(s, n) = t /\ k \in Nat \ {0}
    BY <1>1, <1>3 DEF KeepLast
  <2>2. /\ IsSequence(t) /\ Len(t) = IF k <= Len(s) THEN Len(s) - k + 1 ELSE 0
        /\ \A i \in 1..Len(t) : t[i] = s[k + i - 1]
    <3> HIDE DEF k
    <3> QED
      BY <1>1, <2>1, SubSeqIsSequence
  <2>3. Len(t) = n
    BY <1>1, <1>3, <2>2
  <2> HIDE DEF t
  <2>4. \A i \in 1..n : t[i] = s[Len(s) - n + i]
    BY <1>1, <1>3, <2>2, <2>3
  <2>5. IsSuffix(t, s)
    BY <1>1, <1>3, <2>2, <2>3, <2>4, SuffixIntro
  <2> QED
    BY <2>1, <2>2, <2>5
<1> QED
  BY <1>1, <1>2, <1>3

-----------------------------------------------------------------------------
(* Least and greatest numbers, for the first match and the longest trigger.*)

LEMMA BoundExists ==
  ASSUME NEW n \in Nat, NEW f \in [1..n -> Nat]
  PROVE  \E b \in Nat : \A i \in 1..n : f[i] <= b
<1> DEFINE Bounded(k) == \E b \in Nat : \A i \in 1..k : f[i] <= b
           Unbounded == { k \in 0..n : ~Bounded(k) }
<1>1. Unbounded \subseteq Nat /\ \A k \in 0..n : k \notin Unbounded <=> Bounded(k)
  <2> HIDE DEF Bounded
  <2> QED
    OBVIOUS
<1>2. Bounded(0)
  OBVIOUS
<1>3. ASSUME NEW k \in 1..n, Bounded(k - 1) PROVE Bounded(k)
  <2>1. PICK b \in Nat : \A i \in 1..(k - 1) : f[i] <= b
    BY <1>3
  <2>2. f[k] \in Nat /\ \A i \in 1..k : f[i] \in Nat /\ (i = k \/ i \in 1..(k - 1))
    OBVIOUS
  <2> DEFINE c == IF f[k] > b THEN f[k] ELSE b
  <2>3. c \in Nat /\ b <= c /\ f[k] <= c
    BY <2>1, <2>2
  <2> HIDE DEF c
  <2>4. \A i \in 1..k : f[i] <= c
    BY <2>1, <2>2, <2>3
  <2> QED
    BY <2>3, <2>4
<1> HIDE DEF Unbounded
<1>4. Unbounded = {}
  <2> SUFFICES ASSUME Unbounded # {} PROVE FALSE
    OBVIOUS
  <2> HIDE DEF Bounded
  <2>1. PICK k \in Unbounded : \A j \in Unbounded : k <= j
    BY <1>1, LeastNatural
  <2>2. k \in 0..n /\ ~Bounded(k)
    <3>1. k \in 0..n
      BY DEF Unbounded
    <3> QED
      BY <1>1, <3>1
  <2>3. k \in 1..n /\ k - 1 \in 0..n /\ ~(k <= k - 1)
    BY <1>2, <2>2
  <2>4. Bounded(k - 1)
    BY <1>1, <2>1, <2>3
  <2> QED
    BY <1>3, <2>2, <2>3, <2>4
<1>5. Bounded(n)
  <2> HIDE DEF Bounded
  <2>1. n \in 0..n
    OBVIOUS
  <2> QED
    BY <1>1, <1>4, <2>1
<1> QED
  BY <1>5

LEMMA GreatestExists ==
  ASSUME NEW n \in Nat \ {0}, NEW f \in [1..n -> Nat]
  PROVE  \E i \in 1..n : \A j \in 1..n : f[j] <= f[i]
<1> DEFINE Bounds == { b \in Nat : \A i \in 1..n : f[i] <= b }
<1>1. Bounds # {} /\ Bounds \subseteq Nat
  BY BoundExists
<1>2. \A b \in Nat : b \in Bounds <=> \A i \in 1..n : f[i] <= b
  OBVIOUS
<1> HIDE DEF Bounds
<1>3. PICK b \in Bounds : \A c \in Bounds : b <= c
  BY <1>1, LeastNatural
<1>4. b \in Nat /\ \A i \in 1..n : f[i] <= b /\ f[i] \in Nat
  BY <1>1, <1>2
<1>5. \E i \in 1..n : f[i] = b
  <2> SUFFICES ASSUME \A i \in 1..n : f[i] # b PROVE FALSE
    OBVIOUS
  <2>1. \A i \in 1..n : f[i] \in Nat /\ f[i] < b
    BY <1>4
  <2>2. 1 \in 1..n
    OBVIOUS
  <2>3. b - 1 \in Nat /\ \A i \in 1..n : f[i] <= b - 1
    BY <1>4, <2>1, <2>2
  <2> QED
    BY <1>2, <1>3, <1>4, <2>3
<1> QED
  BY <1>4, <1>5

-----------------------------------------------------------------------------
(* The expander's configuration.                                           *)

Match == [trigger : Seq(Runes), replace : Seq(Runes), back : Nat]

LEMMA LongestTrigger ==
  ASSUME NEW cfg, cfg.matches \in Seq(Match)
  PROVE  MaxLen(cfg) \in Nat
<1> DEFINE ms == cfg.matches
           f  == [i \in 1..Len(ms) |-> Len(ms[i].trigger)]
<1>1. CASE ms = <<>>
  BY <1>1 DEF MaxLen
<1>2. CASE ms # <<>>
  <2> DEFINE lens == { Len(ms[i].trigger) : i \in DOMAIN ms }
  <2>1. Len(ms) \in Nat \ {0} /\ DOMAIN ms = 1..Len(ms)
    BY <1>2
  <2>2. \A i \in DOMAIN ms : Len(ms[i].trigger) \in Nat
    <3> SUFFICES ASSUME NEW i \in DOMAIN ms PROVE Len(ms[i].trigger) \in Nat
      OBVIOUS
    <3>1. ms[i] \in Match
      OBVIOUS
    <3>2. ms[i].trigger \in Seq(Runes)
      BY <3>1 DEF Match
    <3> QED
      BY <3>2
  <2>3. f \in [1..Len(ms) -> Nat]
    BY <2>1, <2>2
  <2>4. PICK i \in 1..Len(ms) : \A j \in 1..Len(ms) : f[j] <= f[i]
    <3> HIDE DEF f, ms
    <3> QED
      BY <2>1, <2>3, GreatestExists
  <2>5. Len(ms[i].trigger) \in lens /\ \A m \in lens : m <= Len(ms[i].trigger)
    BY <2>1, <2>4
  <2>6. MaxLen(cfg) = CHOOSE n \in lens : \A m \in lens : m <= n
    BY <1>2 DEF MaxLen
  <2>7. lens \subseteq Nat
    BY <2>2
  <2> HIDE DEF lens
  <2> QED
    BY <2>5, <2>6, <2>7
<1> QED
  BY <1>1, <1>2

LEMMA FirstMatchMatches ==
  ASSUME config.matches \in Seq(Match), NEW t, Matching(t) # {}
  PROVE  /\ FirstMatch(t) \in Match /\ IsSuffix(FirstMatch(t).trigger, t)
         /\ \E i \in DOMAIN config.matches : FirstMatch(t) = config.matches[i]
<1>1. Matching(t) \subseteq Nat /\ Matching(t) \subseteq DOMAIN config.matches
  BY DEF Matching
<1>2. \E i \in Matching(t) : \A j \in Matching(t) : i <= j
  BY <1>1, LeastNatural
<1> DEFINE k == CHOOSE i \in Matching(t) : \A j \in Matching(t) : i <= j
<1>3. k \in Matching(t)
  BY <1>2
<1>4. FirstMatch(t) = config.matches[k]
  BY DEF FirstMatch
<1> HIDE DEF k
<1>5. k \in DOMAIN config.matches /\ IsSuffix(config.matches[k].trigger, t)
  BY <1>3 DEF Matching
<1>6. config.matches[k] \in Match
  BY <1>5
<1> QED
  BY <1>4, <1>5, <1>6

-----------------------------------------------------------------------------
(* The key tables: the character the corrector takes a key for is the one  *)
(* the layout prints.                                                      *)

KnownLevels == DOMAIN AltGr \cup {"KEY_SPACE", "KEY_BACKSPACE", "KEY_LEFTBRACE", "KEY_CAPSLOCK"}
ErasingKeys == {"KEY_BACKSPACE", "KEY_LEFT"}

LEMMA GlyphIsChar ==
  ASSUME NEW mods, "AltGr" \notin mods, NEW capsOn \in BOOLEAN, NEW key \in PrintingKeys
  PROVE  /\ Char(key, mods) \in Letters => Glyph(key, mods, capsOn) =
              IF ("Shift" \in mods) # capsOn THEN Upper(Char(key, mods)) ELSE Lower(Char(key, mods))
         /\ Char(key, mods) \notin Letters => Glyph(key, mods, capsOn) = Char(key, mods)
<1>1. key \in {"KEY_Z", "KEY_O", "KEY_1", "KEY_DOT", "KEY_LEFTBRACE", "KEY_SPACE"}
  BY DEF PrintingKeys, Chars
<1> USE LetterTable DEF Letters
<1>2. CASE key = "KEY_Z"
  <2>1. Chars[key].normal = "z" /\ Chars[key].shifted = "Z"
    BY <1>2 DEF Chars
  <2> QED
    BY <1>2, <2>1 DEF Char, Glyph, ShiftLevel
<1>3. CASE key = "KEY_O"
  <2>1. Chars[key].normal = "o" /\ Chars[key].shifted = "O"
    BY <1>3 DEF Chars
  <2> QED
    BY <1>3, <2>1 DEF Char, Glyph, ShiftLevel
<1>4. CASE key \in {"KEY_1", "KEY_DOT", "KEY_LEFTBRACE", "KEY_SPACE"}
  <2>1. Chars[key].normal \notin Letters /\ Chars[key].shifted \notin Letters
    <3>1. /\ Chars["KEY_1"].normal = "1" /\ Chars["KEY_1"].shifted = "!"
          /\ Chars["KEY_DOT"].normal = "." /\ Chars["KEY_DOT"].shifted = ">"
          /\ Chars["KEY_LEFTBRACE"].normal = "[" /\ Chars["KEY_LEFTBRACE"].shifted = "{"
          /\ Chars["KEY_SPACE"].normal = " " /\ Chars["KEY_SPACE"].shifted = " "
      BY DEF Chars
    <3> QED
      BY <1>4, <3>1
  <2> QED
    BY <1>4, <2>1 DEF Char, Glyph, ShiftLevel
<1> QED
  BY <1>1, <1>2, <1>3, <1>4

LEMMA SeparatorTable == Separators = {"nl", " ", ".", "!"}
<1>1. SeparatorGroups.onEnter = {"nl"} /\ SeparatorGroups.onSpace = {" "} /\ SeparatorGroups.onPunct = {".", "!"}
  BY DEF SeparatorGroups
<1>2. DOMAIN SeparatorGroups = {"onEnter", "onSpace", "onPunct"}
  BY DEF SeparatorGroups
<1> QED
  BY <1>1, <1>2 DEF Separators

LEMMA GlyphIsSeparator ==
  ASSUME NEW mods, NEW capsOn \in BOOLEAN, NEW key, IsSeparator(key, mods),
         "AltGr" \in mods => key \in KnownLevels
  PROVE  Glyph(key, mods, capsOn) = SeparatorOf(key, mods)
<1>1. Separators = {"nl", " ", ".", "!"}
  BY SeparatorTable
<1>2. CASE key = "KEY_ENTER"
  BY <1>2 DEF Glyph, SeparatorOf
<1>3. CASE key # "KEY_ENTER"
  <2>1. key \in PrintingKeys /\ SeparatorOf(key, mods) = Char(key, mods)
    BY <1>1, <1>3 DEF IsSeparator, SeparatorOf
  <2>2. Char(key, mods) \notin Letters
    BY <1>1, <2>1, LetterTable DEF IsSeparator, Letters
  <2>3. CASE "AltGr" \notin mods
    BY <2>1, <2>2, <2>3, GlyphIsChar
  <2>4. CASE "AltGr" \in mods
    <3>1. key \in {"KEY_Z", "KEY_O", "KEY_LEFTBRACE", "KEY_SPACE"}
      BY <2>1, <2>4 DEF KnownLevels, AltGr, PrintingKeys, Chars
    <3>2. key = "KEY_SPACE"
      <4>1. /\ Chars["KEY_Z"].normal = "z" /\ Chars["KEY_Z"].shifted = "Z"
            /\ Chars["KEY_O"].normal = "o" /\ Chars["KEY_O"].shifted = "O"
            /\ Chars["KEY_LEFTBRACE"].normal = "[" /\ Chars["KEY_LEFTBRACE"].shifted = "{"
        BY DEF Chars
      <4> QED
        BY <1>1, <2>1, <3>1, <4>1 DEF IsSeparator, Char
    <3>3. Chars[key].normal = " " /\ Chars[key].shifted = " "
      BY <3>2 DEF Chars
    <3> QED
      BY <2>1, <3>2, <3>3 DEF Glyph, Char, ShiftLevel
  <2> QED
    BY <2>3, <2>4
<1> QED
  BY <1>2, <1>3

LEMMA GlyphIsDiacritic ==
  ASSUME NEW mods, "AltGr" \in mods, NEW capsOn \in BOOLEAN, NEW key \in DOMAIN AltGr
  PROVE  Glyph(key, mods, capsOn) =
           IF ("Shift" \in mods) # capsOn THEN Upper(AltGr[key]) ELSE AltGr[key]
<1>1. key \in {"KEY_Z", "KEY_O"}
  BY DEF AltGr
<1> QED
  BY <1>1 DEF Glyph, ShiftLevel

-----------------------------------------------------------------------------
(* The reversed key table: the stroke found for a character types it.      *)

Typeable(s) == \A i \in DOMAIN s : s[i] \in DOMAIN ReverseKey

(* Caps Lock is known to the writer and Shift and AltGr are up: a stroke    *)
(* shows its character.                                                    *)
LEMMA ShownIsTyped ==
  ASSUME NEW c \in DOMAIN ReverseKey, PhysicalMods \cap OutputModifiers = {}, caps = led, led \in BOOLEAN
  PROVE  Shown(c) = c
<1> DEFINE m == ReverseKey[c].mods
           all == StrokeMods(c) \cup PhysicalMods
<1>1. StrokeMods(c) = IF caps /\ c \in Letters THEN (m \ {"Shift"}) \cup ({"Shift"} \ m) ELSE m
  BY DEF StrokeMods
<1> HIDE DEF m
<1>2. "AltGr" \in all <=> "AltGr" \in m
  BY <1>1 DEF OutputModifiers
<1>3. "Shift" \in all <=> ("Shift" \in m) # (led /\ c \in Letters)
  BY <1>1 DEF OutputModifiers
<1>4. Shown(c) = Glyph(ReverseKey[c].key, all, led)
  BY DEF Shown
<1> HIDE DEF all
<1> QED
  BY <1>2, <1>3, <1>4, StrokeShows DEF m

LEMMA StrokeTypes ==
  ASSUME NEW k \in PrintingKeys \cup {"KEY_ENTER"}, NEW m \in {{}, {"Shift"}, {"AltGr"}, {"Shift", "AltGr"}},
         Glyph(k, m, FALSE) # "unknown"
  PROVE  Glyph(k, m, FALSE) \in DOMAIN ReverseKey
<1> DEFINE s == [key |-> k, mods |-> m]
<1>1. s \in Strokes /\ s.key = k /\ s.mods = m
  BY DEF Strokes
<1> HIDE DEF s
<1> QED
  BY <1>1 DEF ReverseKey

LEMMA WordsTypeable == Letters \cup Separators \subseteq DOMAIN ReverseKey
<1>1. PrintingKeys = {"KEY_Z", "KEY_O", "KEY_1", "KEY_DOT", "KEY_LEFTBRACE", "KEY_SPACE"}
  BY DEF PrintingKeys, Chars
<1>2. /\ Chars["KEY_Z"].normal = "z" /\ Chars["KEY_Z"].shifted = "Z"
      /\ Chars["KEY_O"].normal = "o" /\ Chars["KEY_O"].shifted = "O"
      /\ Chars["KEY_1"].shifted = "!" /\ Chars["KEY_DOT"].normal = "."
      /\ Chars["KEY_SPACE"].normal = " " /\ "." \notin LowerLetters /\ " " \notin LowerLetters
  BY LetterTable DEF Chars
<1>3. AltGr["KEY_Z"] = "zdot" /\ AltGr["KEY_O"] = "oacute" /\ DOMAIN AltGr = {"KEY_Z", "KEY_O"}
  BY DEF AltGr
<1>a. ASSUME NEW key \in PrintingKeys, NEW mods \in {{}, {"Shift"}}
      PROVE  Glyph(key, mods, FALSE) = IF mods = {"Shift"} THEN Chars[key].shifted ELSE Chars[key].normal
  <2>1. "AltGr" \notin mods /\ ("Shift" \in mods <=> mods = {"Shift"}) /\ key # "KEY_ENTER" /\ key # "KEY_KP1"
    BY <1>1
  <2> DEFINE letter == Chars[key].normal \in LowerLetters
  <2>2. letter \in BOOLEAN
    OBVIOUS
  <2> HIDE DEF letter
  <2>3. ShiftLevel(letter, mods, FALSE) <=> mods = {"Shift"}
    BY <2>1, <2>2 DEF ShiftLevel
  <2> QED
    BY <2>1, <2>3 DEF Glyph, letter
<1>4. /\ Glyph("KEY_Z", {}, FALSE) = "z" /\ Glyph("KEY_Z", {"Shift"}, FALSE) = "Z"
      /\ Glyph("KEY_O", {}, FALSE) = "o" /\ Glyph("KEY_O", {"Shift"}, FALSE) = "O"
  BY <1>1, <1>2, <1>a
<1>5. /\ Glyph("KEY_1", {"Shift"}, FALSE) = "!" /\ Glyph("KEY_DOT", {}, FALSE) = "."
      /\ Glyph("KEY_SPACE", {}, FALSE) = " " /\ Glyph("KEY_ENTER", {}, FALSE) = "nl"
  BY <1>1, <1>2, <1>a DEF Glyph
<1>6. /\ Glyph("KEY_Z", {"AltGr"}, FALSE) = "zdot" /\ Glyph("KEY_Z", {"Shift", "AltGr"}, FALSE) = "Zdot"
      /\ Glyph("KEY_O", {"AltGr"}, FALSE) = "oacute" /\ Glyph("KEY_O", {"Shift", "AltGr"}, FALSE) = "Oacute"
  BY <1>3, LetterForms DEF Glyph, ShiftLevel
<1>7. {"z", "Z", "o", "O", "!", ".", " ", "nl"} \subseteq DOMAIN ReverseKey
  BY <1>1, <1>4, <1>5, StrokeTypes
<1>8. {"zdot", "Zdot", "oacute", "Oacute"} \subseteq DOMAIN ReverseKey
  BY <1>1, <1>6, StrokeTypes
<1> QED
  BY <1>7, <1>8, LetterForms, SeparatorTable

LEMMA RewrittenText ==
  ASSUME NEW edit, IsSequence(edit.type), Typeable(edit.type),
         PhysicalMods \cap OutputModifiers = {}, caps = led, led \in BOOLEAN
  PROVE  Rewritten(edit, Len(edit.type)) = Deleted(edit.backspaces) \o edit.type
<1> DEFINE t == edit.type
<1>1. t = [i \in 1..Len(t) |-> t[i]] /\ DOMAIN t = 1..Len(t)
  BY SequenceFacts
<1>2. \A i \in 1..Len(t) : Shown(t[i]) = t[i]
  BY <1>1, ShownIsTyped DEF Typeable
<1>3. [i \in 1..Len(t) |-> Shown(t[i])] = t
  <2> HIDE DEF t
  <2>1. [i \in 1..Len(t) |-> Shown(t[i])] = [i \in 1..Len(t) |-> t[i]]
    BY <1>2
  <2> QED
    BY <1>1, <2>1
<1> QED
  BY <1>3 DEF Rewritten

-----------------------------------------------------------------------------
(* What the corrector may make of an event, in the terms the proofs need.  *)

Plain(key, value) == key \notin ModifierKeys \cup {"KEY_CAPSLOCK"} /\ value # 0
AsText(key, value, mods) == Plain(key, value) /\ mods \cap ChordModifiers = {}
Printing(key) == key \notin ErasingKeys

Ignored(key, value) ==
  /\ ~Plain(key, value) /\ result' = NoResult
  /\ UNCHANGED <<buf, overflow, suppressed, undo>> /\ pending' \in {pending, NoPending}

Released(key, value) ==
  /\ ~Plain(key, value) /\ result' = Correction(pending.plan)
  /\ UNCHANGED <<buf, overflow, suppressed>>
  /\ pending # NoPending /\ undo' = pending.undo /\ pending' = NoPending

Forgotten ==
  /\ buf' = <<>> /\ undo' = NoUndo /\ pending' = NoPending
  /\ result'.plan = NoPlan /\ result'.undo = FALSE

TakenBack(key, value, mods) ==
  /\ AsText(key, value, mods) /\ key \in ErasingKeys
  /\ undo # NoUndo
  /\ result'.plan = [backspaces |-> undo.outRunes, type |-> undo.typed, restore |-> undo.emitted]
  /\ result'.undo = TRUE /\ result'.toggled = FALSE
  /\ buf' = undo.typed /\ suppressed' = TRUE /\ undo' = NoUndo /\ pending' = NoPending

Shortened(key, value, mods) ==
  /\ AsText(key, value, mods) /\ key \in ErasingKeys
  /\ buf # <<>> /\ buf' = Front(buf) /\ UNCHANGED <<overflow, suppressed>>
  /\ undo' = NoUndo /\ pending' = NoPending /\ result' = NoResult

Extended(key, value, mods, capsOn) ==
  /\ AsText(key, value, mods) /\ Printing(key)
  /\ \/ overflow' = TRUE /\ UNCHANGED buf
     \/ buf' = Append(buf, Glyph(key, mods, capsOn)) /\ UNCHANGED overflow
  /\ UNCHANGED suppressed
  /\ undo' = NoUndo /\ pending' = NoPending /\ result' = NoResult

Committed(key, value, mods, capsOn) ==
  LET sep == Glyph(key, mods, capsOn) IN
  /\ AsText(key, value, mods) /\ Printing(key)
  /\ Correctable(sep)
  /\ \/ result' = Correction(PlanFor(sep)) /\ undo' = UndoFor /\ pending' = NoPending
     \/ result' = NoResult /\ undo' = NoUndo /\ pending' = [plan |-> PlanFor(sep), undo |-> UndoFor]
  /\ buf' = <<>>

Outcome(key, value, mods, capsOn) ==
  \/ Ignored(key, value) \/ Released(key, value)
  \/ Forgotten
  \/ TakenBack(key, value, mods) \/ Shortened(key, value, mods)
  \/ Extended(key, value, mods, capsOn)
  \/ Committed(key, value, mods, capsOn)

LEMMA KeyKinds ==
  /\ ShiftKeys \subseteq ModifierKeys /\ AltGrKeys \subseteq ModifierKeys
  /\ "KEY_CAPSLOCK" \notin ModifierKeys
  /\ \A key \in PrintingKeys \cup {"KEY_ENTER", "KEY_KP1"} : key \notin ErasingKeys
  /\ \A key \in DOMAIN AltGr : key \in PrintingKeys
<1>1. PrintingKeys = {"KEY_Z", "KEY_O", "KEY_1", "KEY_DOT", "KEY_LEFTBRACE", "KEY_SPACE"}
  BY DEF PrintingKeys, Chars
<1> QED
  BY <1>1, ModifierTable DEF ShiftKeys, AltGrKeys, ErasingKeys, AltGr

LEMMA SeparatorKeys ==
  ASSUME NEW key, NEW mods, IsSeparator(key, mods)
  PROVE  key \in PrintingKeys \cup {"KEY_ENTER"}
<1>1. "none" \notin Separators
  BY SeparatorTable
<1> QED
  BY <1>1 DEF IsSeparator, SeparatorOf

LEMMA CorrectorOutcome ==
  ASSUME NEW key, NEW value, NEW mods, NEW capsOn \in BOOLEAN,
         "AltGr" \in mods /\ AsText(key, value, mods) => key \in KnownLevels,
         CorrectorHandleEvent(key, value, mods, capsOn)
  PROVE  Outcome(key, value, mods, capsOn)
<1> USE DEF KeepWord, Environs
<1>1. CASE OutputModifierKey(key, value, mods)
  BY <1>1, KeyKinds DEF OutputModifierKey, Plain, Ignored, Released, Outcome
<1>2. CASE IgnoredKey(key, value, mods)
  BY <1>2 DEF IgnoredKey, Plain, Ignored, Outcome
<1>3. CASE CapsLockKey(key, value, mods)
  BY <1>3 DEF CapsLockKey, DropPending, Plain, Ignored, Outcome
<1>4. CASE ToggleKey(key, value, mods)
  <2>1. result'.plan = NoPlan /\ result'.undo = FALSE
    BY <1>4 DEF ToggleKey, NoResult
  <2> QED
    BY <1>4, <2>1 DEF ToggleKey, Invalidate, ClearWord, Forgotten, Outcome
<1>a. NoResult.plan = NoPlan /\ NoResult.undo = FALSE
  BY DEF NoResult
<1>5. CASE DisabledKey(key, value, mods)
  BY <1>5, <1>a DEF DisabledKey, DropPending, ClearWord, Forgotten, Outcome
<1>6. CASE ChordKey(key, value, mods)
  BY <1>6, <1>a DEF ChordKey, Invalidate, ClearWord, Forgotten, Outcome
<1>b. Typed(key, value, mods) => AsText(key, value, mods)
  BY DEF Typed, Interpreted, PlainKey, AsText, Plain
<1>c. TypedChar(key, value, mods) => AsText(key, value, mods)
  BY <1>b DEF TypedChar
<1>7. CASE UndoKey(key, value, mods)
  <2>1. /\ result'.plan = [backspaces |-> undo.outRunes, type |-> undo.typed, restore |-> undo.emitted]
        /\ result'.undo = TRUE /\ result'.toggled = FALSE
    BY <1>7 DEF UndoKey
  <2>2. TakenBack(key, value, mods)
    BY <1>7, <1>b, <2>1 DEF UndoKey, Undoable, DoNotRecorrect, DropPending, TakenBack, ErasingKeys
  <2> QED
    BY <2>2 DEF Outcome
<1>8. CASE BackspaceKey(key, value, mods)
  <2>1. CASE buf = <<>>
    BY <1>8, <1>a, <2>1 DEF BackspaceKey, DistrustWord, DropPending, Forgotten, Outcome
  <2>2. CASE buf # <<>>
    BY <1>8, <1>b, <2>2 DEF BackspaceKey, DropPending, Shortened, Outcome, ErasingKeys
  <2> QED
    BY <2>1, <2>2
<1>9. CASE SeparatorKey(key, value, mods)
  <2>1. /\ AsText(key, value, mods) /\ IsSeparator(key, mods)
        /\ Printing(key)
    BY <1>9, <1>b, SeparatorKeys, KeyKinds DEF SeparatorKey, Printing
  <2>2. Glyph(key, mods, capsOn) = SeparatorOf(key, mods)
    BY <2>1, GlyphIsSeparator
  <2>3. CASE ~Correctable(SeparatorOf(key, mods))
    BY <1>9, <1>a, <2>3 DEF SeparatorKey, ClearWord, DropPending, Forgotten, Outcome
  <2>4. CASE Correctable(SeparatorOf(key, mods))
    <3>1. buf' = <<>>
      BY <1>9 DEF SeparatorKey, ClearWord
    <3>2. \/ result' = Correction(PlanFor(SeparatorOf(key, mods))) /\ undo' = UndoFor /\ pending' = NoPending
          \/ /\ result' = NoResult /\ undo' = NoUndo
             /\ pending' = [plan |-> PlanFor(SeparatorOf(key, mods)), undo |-> UndoFor]
      BY <1>9, <2>4 DEF SeparatorKey, DropPending
    <3> QED
      BY <2>1, <2>2, <2>4, <3>1, <3>2 DEF Committed, Outcome
  <2> QED
    BY <2>3, <2>4
<1>10. CASE DiacriticKey(key, value, mods, capsOn)
  <2>1. /\ AsText(key, value, mods) /\ key \in DOMAIN AltGr /\ "AltGr" \in mods
        /\ AppendRune(IF ("Shift" \in mods) # capsOn THEN Upper(AltGr[key]) ELSE AltGr[key], TRUE)
        /\ UNCHANGED suppressed
        /\ undo' = NoUndo /\ pending' = NoPending /\ result' = NoResult
    BY <1>10, <1>c DEF DiacriticKey, CommitUndo, DropPending
  <2>2. AppendRune(Glyph(key, mods, capsOn), TRUE)
    BY <2>1, GlyphIsDiacritic
  <2> QED
    BY <2>1, <2>2, KeyKinds DEF AppendRune, MarkOverflow, Printing, Extended, Outcome
<1>11. CASE LetterKey(key, value, mods, capsOn)
  <2>1. /\ AsText(key, value, mods) /\ key \in PrintingKeys /\ "AltGr" \notin mods /\ Char(key, mods) \in Letters
        /\ AppendRune(IF ("Shift" \in mods) # capsOn THEN Upper(Char(key, mods)) ELSE Lower(Char(key, mods)), TRUE)
        /\ UNCHANGED suppressed
        /\ undo' = NoUndo /\ pending' = NoPending /\ result' = NoResult
    BY <1>11, <1>c DEF LetterKey, CommitUndo, DropPending
  <2>2. AppendRune(Glyph(key, mods, capsOn), TRUE)
    BY <2>1, GlyphIsChar
  <2> QED
    BY <2>1, <2>2, KeyKinds DEF AppendRune, MarkOverflow, Printing, Extended, Outcome
<1>12. CASE OpenerKey(key, value, mods)
  BY <1>12, <1>a DEF OpenerKey, ClearWord, CommitUndo, DropPending, Forgotten, Outcome
<1>13. CASE ImpureKey(key, value, mods)
  <2>1. /\ AsText(key, value, mods) /\ key \in PrintingKeys /\ "AltGr" \notin mods /\ Char(key, mods) \notin Letters
        /\ AppendRune(Char(key, mods), FALSE)
        /\ UNCHANGED suppressed
        /\ undo' = NoUndo /\ pending' = NoPending /\ result' = NoResult
    BY <1>13, <1>c DEF ImpureKey, CommitUndo, DropPending
  <2>2. AppendRune(Glyph(key, mods, capsOn), FALSE)
    BY <2>1, GlyphIsChar
  <2> QED
    BY <2>1, <2>2, KeyKinds DEF AppendRune, MarkOverflow, Printing, Extended, Outcome
<1>14. CASE UnknownKey(key, value, mods)
  BY <1>14, <1>a DEF UnknownKey, ClearWord, CommitUndo, DropPending, Forgotten, Outcome
<1> QED
  BY <1>1, <1>2, <1>3, <1>4, <1>5, <1>6, <1>7, <1>8, <1>9, <1>10, <1>11, <1>12, <1>13, <1>14
     DEF CorrectorHandleEvent

-----------------------------------------------------------------------------
(* The invariant.  The user waits for the loop before every key, so there  *)
(* is at most one event on its way; what the corrector's picture has to do *)
(* with the text depends on how far the handling of that event has come.   *)

UndoUsed == \E s \in Setups : s.options.undo

Phased ==
  /\ pc \in {"select", "expander", "expand", "corrector", "act"}
  /\ ch = <<>> \/ (pc = "select" /\ Len(ch) = 1)
  /\ pc = "expand" => expansion # NoExpansion

PlanShape(p) ==
  /\ IsSequence(p.type) /\ Typeable(p.type)
  /\ IsSequence(p.restore) /\ p.backspaces = Len(p.restore)
UndoShape(u) ==
  /\ IsSequence(u.typed) /\ Typeable(u.typed)
  /\ IsSequence(u.emitted) /\ u.outRunes = Len(u.emitted)
Shapes ==
  /\ IsSequence(text) /\ IsSequence(buf)
  /\ UndoShape(undo) /\ UndoShape(pending.undo)
  /\ PlanShape(pending.plan) /\ PlanShape(result.plan)

Expansions == [match : Match, extra : {0, 1}]
ExpanderShapes ==
  /\ config.matches \in Seq(Match) /\ IsSequence(ebuf)
  /\ expansion \in Expansions /\ epending \in Expansions

(* Where undo is switched off nothing is kept to be undone, and while a    *)
(* correction is deferred no word has been begun.                          *)
UndoBooks == ~UndoUsed => undo = NoUndo /\ pending.undo = NoUndo /\ ~opts.undo
PendingAlone == pending # NoPending => buf = <<>>

(* A text key with AltGr held is one whose AltGr level the tables have.    *)
KnownKey(e, mods) == Plain(e.key, e.value) /\ "AltGr" \in mods => e.key \in KnownLevels
LevelsKnown ==
  /\ pc = "select" /\ ch # <<>> => KnownKey(ch[1], PhysicalMods)
  /\ pc # "select" => KnownKey(ev, Held)

(* The word before the cursor, and the text a deferred correction covers,  *)
(* when t is the text.                                                     *)
UndoShown  == UndoUsed => HeldKeys \cap (ShiftKeys \cup AltGrKeys) = {}
Unreliable == overflow \/ (suppressed /\ ~UndoShown)
PictureOf(t) ==
  /\ ~Unreliable => IsSuffix(buf, t)
  /\ IsSuffix(pending.plan.restore, t)

(* The text is one key ahead of word: the key has been shown and is still  *)
(* to be handled.                                                          *)
OneKeyAhead(word, key, mods, capsOn) ==
  mods \cap ChordModifiers = {} =>
    IF key \in ErasingKeys
    THEN word = <<>> \/ IsSuffix(Front(word), text)
    ELSE text # <<>> /\ Last(text) = Glyph(key, mods, capsOn) /\ IsSuffix(word, Front(text))

EventPicture(e, mods, capsOn) ==
  IF ~Plain(e.key, e.value) THEN PictureOf(text)
  ELSE /\ OneKeyAhead(<<>>, e.key, mods, capsOn)
       /\ ~Unreliable => OneKeyAhead(buf, e.key, mods, capsOn)

Wiped == buf = <<>> /\ pending = NoPending

(* A plan the loop is about to carry out: a correction covers the text, an *)
(* undo will put back the word the buffer holds already.                   *)
UndoPicture ==
  /\ suppressed /\ UndoUsed /\ pending = NoPending
  /\ buf = result.plan.type /\ Held \cap ChordModifiers = {}
PlanPicture ==
  /\ result.toggled => result.plan = NoPlan
  /\ IF result.plan # NoPlan /\ result.undo THEN UndoPicture
     ELSE /\ PictureOf(text)
          /\ result.plan # NoPlan => IsSuffix(result.plan.restore, text) /\ Wiped

Picture ==
  /\ pc = "select" /\ ch = <<>> => PictureOf(text)
  /\ pc = "select" /\ ch # <<>> =>
       /\ EventPicture(ch[1], PhysicalMods, led)
       /\ ch[1].dev \notin monitored => Wiped
  /\ pc = "expander" \/ (pc = "corrector" /\ expansion = NoExpansion) => EventPicture(ev, Held, caps)
  /\ pc = "act" /\ expansion = NoExpansion => PlanPicture

TextInv ==
  /\ Phased /\ Shapes /\ ExpanderShapes /\ UndoBooks /\ PendingAlone /\ LevelsKnown /\ Picture

(* A rescan that makes the tracker forget a held modifier drops whatever   *)
(* waits, so until a key is handled with the wrong modifiers no edit is    *)
(* made while one is forgotten.                                            *)
Sighted ==
  Blinded => misled \/ /\ pending = NoPending /\ epending = NoExpansion
                       /\ pc # "expand" /\ ~HasPlan
                       /\ pc # "select" => ~Plain(ev.key, ev.value)

LEMMA SightedWhenEditing ==
  ASSUME Sighted, ~misled, HasPlan \/ pc = "expand"
  PROVE  ~Blinded
BY DEF Sighted

LEMMA SightedWhenReading ==
  ASSUME ReadEvent, ~misled', pc' = "expander", NEW e, e = Head(ch), Plain(e.key, e.value)
  PROVE  ~Blinded
BY DEF ReadEvent, Told, Plain, PlainKey

-----------------------------------------------------------------------------
(* A correction is a sequence of characters like the word it replaces.     *)

LEMMA CaseKeepsSequences ==
  ASSUME NEW w, IsSequence(w)
  PROVE  /\ IsSequence(UpperWord(w)) /\ Len(UpperWord(w)) = Len(w)
         /\ IsSequence(LowerWord(w)) /\ Len(LowerWord(w)) = Len(w)
<1>1. Len(w) \in Nat /\ DOMAIN w = 1..Len(w)
  BY SequenceFacts
<1>2. UpperWord(w) = [i \in 1..Len(w) |-> UpperWord(w)[i]]
  BY <1>1 DEF UpperWord
<1>3. LowerWord(w) = [i \in 1..Len(w) |-> LowerWord(w)[i]]
  BY <1>1 DEF LowerWord
<1> QED
  BY <1>1, <1>2, <1>3, TabulatedIsSequence

LEMMA CorrectedIsSequence ==
  ASSUME IsSequence(buf), NEW sep, Correctable(sep)
  PROVE  /\ IsSequence(Corrected) /\ Len(Corrected) = Len(buf)
         /\ \A i \in DOMAIN Corrected : Corrected[i] \in Letters
<1> DEFINE w == LowerWord(buf)
           cand == CandidateFor(w)
<1>1. Len(w) = Len(buf)
  BY CaseKeepsSequences
<1>2. cand \in Candidates(w)
  <2>1. Cardinality(Candidates(w)) = 1
    BY DEF Correctable, OnlyCandidate
  <2>2. Candidates(w) # {}
    BY <2>1, FS_EmptySet
  <2> QED
    BY <2>2 DEF CandidateFor
<1>3. cand \in Seq(LowerLetters) /\ Len(cand) = Len(w)
  BY <1>2, CorrectorAssumption DEF Candidates
<1> HIDE DEF cand, w
<1>4. IsSequence(cand) /\ \A i \in DOMAIN cand : cand[i] \in LowerLetters
  BY <1>3, TypedIsSequence
<1>b. LowerLetters \subseteq Letters /\ \A c \in LowerLetters : Upper(c) \in Letters
  BY LetterForms DEF Letters
<1>5. CASE UpperCount(buf) = 0
  <2>1. Corrected = cand
    BY <1>5 DEF Corrected, ApplyCase, cand, w
  <2> QED
    BY <1>1, <1>3, <1>4, <1>b, <2>1
<1>6. CASE UpperCount(buf) # 0 /\ Capitalised(buf)
  <2>1. UpperCount(buf) = 1
    BY <1>6 DEF Capitalised
  <2>2. DOMAIN buf # {}
    <3>1. SUFFICES ASSUME DOMAIN buf = {} PROVE UpperCount(buf) = 0
      BY <2>1
    <3> QED
      BY <3>1, FS_EmptySet DEF UpperCount
  <2>3. Len(cand) # 0
    BY <1>1, <1>3, <2>2, SequenceFacts
  <2>4. cand # <<>> /\ Tail(cand) \in Seq(LowerLetters)
    BY <1>3, <2>3
  <2>5. IsSequence(Tail(cand)) /\ IsSequence(<<Upper(cand[1])>>)
    <3>1. \A c : <<c>> \in Seq({c})
      OBVIOUS
    <3>2. \A c : IsSequence(<<c>>)
      BY <3>1, TypedIsSequence
    <3> DEFINE rest == Tail(cand)
    <3>3. rest \in Seq(LowerLetters)
      BY <2>4
    <3> HIDE DEF rest
    <3>4. IsSequence(rest)
      BY <3>3, TypedIsSequence
    <3> QED
      BY <3>2, <3>4 DEF rest
  <2>6. Corrected = <<Upper(cand[1])>> \o Tail(cand)
    BY <1>6 DEF Corrected, ApplyCase, cand, w
  <2>7. \A c : <<c>> \in Seq({c}) /\ Len(<<c>>) = 1 /\ <<c>>[1] = c
    OBVIOUS
  <2> DEFINE rest == Tail(cand)
             up == Upper(cand[1])
             head == <<up>>
  <2>8. /\ rest \in Seq(LowerLetters) /\ IsSequence(rest) /\ IsSequence(head)
        /\ Len(head) = 1 /\ head[1] = up /\ Corrected = head \o rest
    BY <2>4, <2>5, <2>6, <2>7
  <2>9. up \in Letters
    <3>1. 1 \in DOMAIN cand
      BY <1>3, <2>3
    <3> QED
      BY <1>4, <1>b, <3>1
  <2> HIDE DEF rest, up, head
  <2>10. /\ IsSequence(Corrected) /\ DOMAIN Corrected = 1..(1 + Len(rest)) /\ Corrected[1] = up
         /\ Len(rest) \in Nat /\ \A i \in 1..Len(rest) : Corrected[1 + i] = rest[i] /\ rest[i] \in LowerLetters
    <3> DEFINE whole == head \o rest
    <3>1. /\ IsSequence(whole) /\ Len(whole) = Len(head) + Len(rest) /\ Len(rest) \in Nat
          /\ \A i \in 1..Len(head) : whole[i] = head[i]
          /\ \A i \in 1..Len(rest) : whole[Len(head) + i] = rest[i]
      <4>1. IsSequence(head) /\ IsSequence(rest)
        BY <2>8
      <4>2. Len(rest) \in Nat
        BY <4>1, SequenceFacts
      <4>3. IsSequence(head \o rest) /\ Len(head \o rest) = Len(head) + Len(rest)
        BY <4>1, ConcatIsSequence
      <4>4. \A i \in 1..Len(head) : (head \o rest)[i] = head[i]
        BY <4>1, ConcatIsSequence
      <4>5. \A i \in 1..Len(rest) : (head \o rest)[Len(head) + i] = rest[i]
        BY <4>1, ConcatIsSequence
      <4> QED
        BY <4>2, <4>3, <4>4, <4>5
    <3>2. \A i \in 1..Len(rest) : rest[i] \in LowerLetters
      BY <2>8
    <3>3. Corrected = whole
      BY <2>8
    <3> HIDE DEF whole
    <3>4. DOMAIN whole = 1..Len(whole) /\ Len(whole) = 1 + Len(rest) /\ whole[1] = up
      BY <2>8, <3>1, SequenceFacts
    <3> QED
      BY <2>8, <3>1, <3>2, <3>3, <3>4
  <2>a. Len(Corrected) = Len(buf)
    <3>1. Len(rest) = Len(cand) - 1 /\ Len(cand) \in Nat
      BY <1>3, <2>4 DEF rest
    <3>2. Len(Corrected) = 1 + Len(rest)
      BY <2>8, <2>10, ConcatIsSequence
    <3> QED
      BY <1>1, <1>3, <3>1, <3>2
  <2>11. ASSUME NEW i \in DOMAIN Corrected PROVE Corrected[i] \in Letters
    <3>1. i = 1 \/ (i - 1 \in 1..Len(rest) /\ i = 1 + (i - 1))
      BY <2>10
    <3> QED
      BY <1>b, <2>9, <2>10, <3>1
  <2> QED
    BY <2>10, <2>11, <2>a
<1>7. CASE UpperCount(buf) # 0 /\ ~Capitalised(buf)
  <2>1. Corrected = UpperWord(cand)
    BY <1>7 DEF Corrected, ApplyCase, cand, w
  <2>2. IsSequence(Corrected) /\ Len(Corrected) = Len(buf)
    BY <1>1, <1>3, <1>4, <2>1, CaseKeepsSequences
  <2>3. DOMAIN Corrected = DOMAIN cand /\ \A i \in DOMAIN cand : Corrected[i] = Upper(cand[i])
    BY <2>1 DEF UpperWord
  <2> QED
    BY <1>4, <1>b, <2>2, <2>3
<1> QED
  BY <1>5, <1>6, <1>7

LEMMA NothingShapes ==
  /\ PlanShape(NoPlan) /\ UndoShape(NoUndo)
  /\ NoResult.plan = NoPlan /\ NoResult.undo = FALSE
  /\ NoPending.plan = NoPlan /\ NoPending.undo = NoUndo
  /\ NoPlan.restore = <<>> /\ NoResult.toggled = FALSE
  /\ \A plan : /\ Correction(plan).plan = plan /\ Correction(plan).undo = FALSE
                /\ Correction(plan).toggled = FALSE
BY EmptyIsSequence DEF Typeable, PlanShape, UndoShape, NoPlan, NoUndo, NoResult, NoPending, Correction

LEMMA TypeableAppended ==
  ASSUME NEW s, IsSequence(s), Typeable(s), NEW c \in DOMAIN ReverseKey
  PROVE  Typeable(Append(s, c))
<1> DEFINE t == Append(s, c)
<1>1. /\ Len(s) \in Nat /\ DOMAIN s = 1..Len(s) /\ DOMAIN t = 1..(Len(s) + 1)
      /\ t[Len(s) + 1] = c /\ \A i \in 1..Len(s) : t[i] = s[i]
  BY AppendIsSequence, SequenceFacts
<1> HIDE DEF t
<1>2. \A i \in DOMAIN t : i \in DOMAIN s \/ i = Len(s) + 1
  BY <1>1
<1> QED
  BY <1>1, <1>2 DEF Typeable, t

LEMMA PlanForShape ==
  ASSUME IsSequence(buf), NEW sep, Correctable(sep)
  PROVE  PlanShape(PlanFor(sep)) /\ UndoShape(UndoFor)
<1>1. IsSequence(Corrected) /\ IsSequence(buf) /\ Len(buf) \in Nat /\ Len(Corrected) \in Nat
  BY CorrectedIsSequence, SequenceFacts
<1>2. /\ IsSequence(Append(Corrected, sep)) /\ IsSequence(Append(buf, sep))
      /\ Len(Append(buf, sep)) = Len(buf) + 1
  BY <1>1, AppendIsSequence
<1>3. /\ PlanFor(sep).backspaces = Len(buf) + 1
      /\ PlanFor(sep).type = Append(Corrected, sep) /\ PlanFor(sep).restore = Append(buf, sep)
  BY DEF PlanFor
<1>4. Typeable(Corrected) /\ Typeable(buf) /\ sep \in DOMAIN ReverseKey
  <2>1. sep \in Separators
    BY DEF Correctable, CorrectHere, Separators
  <2>2. \A i \in DOMAIN buf : buf[i] \in Letters
    BY DEF Correctable
  <2> QED
    BY <2>1, <2>2, CorrectedIsSequence, WordsTypeable DEF Typeable
<1>5. Typeable(Append(Corrected, sep))
  BY <1>1, <1>4, TypeableAppended
<1>6. PlanShape(PlanFor(sep))
  BY <1>1, <1>2, <1>3, <1>5 DEF PlanShape
<1>7. UndoShape(NoUndo)
  BY NothingShapes
<1>8. UndoFor # NoUndo =>
        UndoFor.typed = buf /\ UndoFor.emitted = Corrected /\ UndoFor.outRunes = Len(Corrected)
  BY DEF UndoFor
<1> QED
  BY <1>1, <1>4, <1>6, <1>7, <1>8 DEF UndoShape

-----------------------------------------------------------------------------
(* What the corrector makes of an event, and the invariant.                *)

LEMMA OutcomeShapes ==
  ASSUME NEW key, NEW value, NEW mods, NEW capsOn, Outcome(key, value, mods, capsOn),
         Shapes, text' = text
  PROVE  Shapes'
<1>a. IsSequence(buf) /\ IsSequence(<<>>)
  BY EmptyIsSequence DEF Shapes
<1>1. CASE Ignored(key, value)
  BY <1>1, NothingShapes DEF Ignored, Shapes
<1>2. CASE Released(key, value)
  BY <1>2, NothingShapes DEF Released, Shapes
<1>3. CASE Forgotten
  BY <1>3, <1>a, NothingShapes DEF Forgotten, Shapes
<1>4. CASE TakenBack(key, value, mods)
  <2>1. PlanShape(result'.plan)
    BY <1>4 DEF TakenBack, Shapes, UndoShape, PlanShape
  <2> QED
    BY <1>4, <2>1, NothingShapes DEF TakenBack, Shapes, UndoShape
<1>5. CASE Shortened(key, value, mods)
  <2>1. IsSequence(Front(buf))
    BY <1>5, <1>a, FrontIsSequence DEF Shortened
  <2> QED
    BY <1>5, <2>1, NothingShapes DEF Shortened, Shapes
<1>6. CASE Extended(key, value, mods, capsOn)
  <2>1. \A e : IsSequence(Append(buf, e))
    BY <1>a, AppendIsSequence
  <2> QED
    BY <1>6, <2>1, NothingShapes DEF Extended, Shapes
<1>7. CASE Committed(key, value, mods, capsOn)
  <2> DEFINE sep == Glyph(key, mods, capsOn)
             plan == PlanFor(sep)
             taken == UndoFor
  <2>1. /\ Correctable(sep) /\ buf' = <<>>
        /\ \/ result' = Correction(plan) /\ undo' = taken /\ pending' = NoPending
           \/ result' = NoResult /\ undo' = NoUndo /\ pending' = [plan |-> plan, undo |-> taken]
    BY <1>7 DEF Committed
  <2>2. PlanShape(plan) /\ UndoShape(taken)
    BY <1>a, <2>1, PlanForShape
  <2> HIDE DEF sep, plan, taken
  <2> QED
    BY <1>a, <2>1, <2>2, NothingShapes DEF Shapes
<1> QED
  BY <1>1, <1>2, <1>3, <1>4, <1>5, <1>6, <1>7 DEF Outcome

LEMMA OutcomeBooks ==
  ASSUME NEW key, NEW value, NEW mods, NEW capsOn, Outcome(key, value, mods, capsOn),
         UndoBooks, PendingAlone, opts' = opts
  PROVE  UndoBooks' /\ PendingAlone'
<1>1. CASE Ignored(key, value) \/ Released(key, value)
  BY <1>1, NothingShapes DEF Ignored, Released, UndoBooks, UndoUsed, PendingAlone
<1>2. CASE Forgotten \/ TakenBack(key, value, mods) \/ Shortened(key, value, mods)
        \/ Extended(key, value, mods, capsOn)
  BY <1>2, NothingShapes DEF Forgotten, TakenBack, Shortened, Extended, UndoBooks, UndoUsed, PendingAlone
<1>3. CASE Committed(key, value, mods, capsOn)
  <2> DEFINE plan == PlanFor(Glyph(key, mods, capsOn))
             taken == UndoFor
  <2>1. /\ buf' = <<>>
        /\ \/ undo' = taken /\ pending' = NoPending
           \/ undo' = NoUndo /\ pending' = [plan |-> plan, undo |-> taken]
    BY <1>3 DEF Committed
  <2>2. ~opts.undo => taken = NoUndo
    BY DEF UndoFor
  <2> HIDE DEF plan, taken
  <2> QED
    BY <2>1, <2>2, NothingShapes DEF UndoBooks, UndoUsed, PendingAlone
<1> QED
  BY <1>1, <1>2, <1>3 DEF Outcome

LEMMA WipedPicture ==
  ASSUME NEW t, IsSequence(t), Wiped
  PROVE  PictureOf(t)
BY SuffixEmpty, NothingShapes DEF Wiped, PictureOf

(* The picture a key leaves is again a picture of the text, and a plan is  *)
(* made only from a word that may be relied on.                            *)
LEMMA OutcomePicture ==
  ASSUME NEW e, NEW mods, NEW capsOn, Outcome(e.key, e.value, mods, capsOn),
         Shapes, UndoBooks, PendingAlone, EventPicture(e, mods, capsOn), text' = text, Held' = mods
  PROVE  PlanPicture'
<1>a. IsSequence(text) /\ IsSequence(buf) /\ IsSuffix(<<>>, text)
  BY SuffixEmpty DEF Shapes
<1>b. ASSUME Wiped' PROVE PictureOf(text)'
  BY <1>a, <1>b, NothingShapes DEF Wiped, PictureOf
<1> DEFINE Plainly == Plain(e.key, e.value)
<1>1. CASE Ignored(e.key, e.value)
  <2>1. PictureOf(text)
    BY <1>1 DEF Ignored, EventPicture
  <2>2. result'.plan = NoPlan /\ result'.toggled = FALSE
    BY <1>1, NothingShapes DEF Ignored
  <2>3. PictureOf(text)'
    BY <1>1, <1>a, <2>1, NothingShapes DEF Ignored, PictureOf, Unreliable, UndoShown, UndoUsed
  <2> QED
    BY <2>2, <2>3 DEF PlanPicture
<1>2. CASE Released(e.key, e.value)
  <2>1. PictureOf(text)
    BY <1>2 DEF Released, EventPicture
  <2>2. /\ result'.plan = pending.plan /\ result'.undo = FALSE /\ result'.toggled = FALSE /\ Wiped'
    BY <1>2, NothingShapes DEF Released, PendingAlone, Wiped
  <2>3. IsSuffix(result'.plan.restore, text')
    BY <2>1, <2>2 DEF PictureOf
  <2> QED
    BY <1>b, <2>2, <2>3 DEF PlanPicture
<1>3. CASE Forgotten
  BY <1>3, <1>b DEF Forgotten, Wiped, PlanPicture
<1>4. CASE TakenBack(e.key, e.value, mods)
  <2>1. /\ UndoUsed /\ suppressed' = TRUE /\ result'.undo = TRUE /\ result'.toggled = FALSE /\ pending' = NoPending
        /\ buf' = undo.typed /\ mods \cap ChordModifiers = {}
        /\ result'.plan = [backspaces |-> undo.outRunes, type |-> undo.typed, restore |-> undo.emitted]
    BY <1>4 DEF TakenBack, UndoBooks, AsText
  <2>2. CASE result'.plan = NoPlan
    <3>1. buf' = <<>>
      BY <2>1, <2>2 DEF NoPlan
    <3> QED
      BY <1>b, <2>1, <2>2, <3>1 DEF Wiped, PlanPicture
  <2>3. CASE result'.plan # NoPlan
    <3>1. buf' = result'.plan.type
      BY <2>1
    <3>2. UndoPicture'
      BY <2>1, <3>1 DEF UndoPicture, UndoUsed
    <3> QED
      BY <2>1, <2>3, <3>2 DEF PlanPicture
  <2> QED
    BY <2>2, <2>3
<1>5. CASE Shortened(e.key, e.value, mods)
  <2>1. ~Unreliable => IsSuffix(Front(buf), text)
    BY <1>5 DEF Shortened, EventPicture, OneKeyAhead, AsText
  <2>2. result'.plan = NoPlan /\ pending' = NoPending /\ buf' = Front(buf)
    BY <1>5, NothingShapes DEF Shortened
  <2>3. Unreliable' = Unreliable
    BY <1>5 DEF Shortened, Unreliable, UndoShown, UndoUsed
  <2>4. PictureOf(text)'
    BY <1>a, <2>1, <2>2, <2>3, NothingShapes DEF PictureOf
  <2> QED
    BY <2>2, <2>4 DEF PlanPicture
<1>6. CASE Extended(e.key, e.value, mods, capsOn) \/ Committed(e.key, e.value, mods, capsOn)
  <2> DEFINE c == Glyph(e.key, mods, capsOn)
  <2>1. ~Unreliable => text # <<>> /\ Last(text) = c /\ IsSuffix(buf, Front(text))
    BY <1>6 DEF Extended, Committed, AsText, Printing, EventPicture, OneKeyAhead
  <2>2. ~Unreliable => text = Append(Front(text), c) /\ IsSequence(Front(text))
    BY <1>a, <2>1, FrontIsSequence, AppendFront
  <2>3. ~Unreliable => IsSuffix(Append(buf, c), text)
    BY <1>a, <2>1, <2>2, SuffixAppend
  <2>4. CASE Extended(e.key, e.value, mods, capsOn)
    <3>1. \/ overflow' = TRUE
          \/ buf' = Append(buf, c) /\ UNCHANGED <<overflow, suppressed>>
      BY <2>4 DEF Extended
    <3>2. result'.plan = NoPlan /\ pending' = NoPending
      BY <2>4, NothingShapes DEF Extended
    <3>3. PictureOf(text)'
      BY <1>a, <2>3, <3>1, <3>2, NothingShapes DEF PictureOf, Unreliable, UndoShown, UndoUsed
    <3> QED
      BY <3>2, <3>3 DEF PlanPicture
  <2>5. CASE Committed(e.key, e.value, mods, capsOn)
    <3>1. /\ Correctable(c) /\ buf' = <<>>
          /\ \/ result' = Correction(PlanFor(c)) /\ pending' = NoPending
             \/ result' = NoResult /\ pending' = [plan |-> PlanFor(c), undo |-> UndoFor]
      BY <2>5 DEF Committed
    <3>2. ~Unreliable
      BY <3>1 DEF Correctable, ReliableWord, Unreliable
    <3>3. IsSuffix(PlanFor(c).restore, text)
      BY <2>3, <3>2 DEF PlanFor
    <3> HIDE DEF c
    <3>4. CASE result' = Correction(PlanFor(c)) /\ pending' = NoPending
      BY <1>b, <3>1, <3>3, <3>4, NothingShapes DEF Wiped, PlanPicture
    <3>5. CASE result' = NoResult /\ pending' = [plan |-> PlanFor(c), undo |-> UndoFor]
      <4>1. pending'.plan = PlanFor(c) /\ result'.plan = NoPlan
        BY <3>5, NothingShapes
      <4>2. PictureOf(text)'
        BY <1>a, <3>1, <3>3, <4>1 DEF PictureOf
      <4> QED
        BY <4>1, <4>2 DEF PlanPicture
    <3> QED
      BY <3>1, <3>4, <3>5
  <2> QED
    BY <1>6, <2>4, <2>5
<1> QED
  BY <1>1, <1>2, <1>3, <1>4, <1>5, <1>6 DEF Outcome

-----------------------------------------------------------------------------
(* What a key of the user does.                                            *)

LEMMA ChordEffectsAreSequences ==
  ASSUME IsSequence(text), NEW t \in ChordEffects
  PROVE  IsSequence(t)
<1>1. IsSequence(Append(text, "z"))
  BY AppendIsSequence
<1>2. t = text \/ t = <<>> \/ t = Append(text, "z")
  BY DEF ChordEffects
<1>3. CASE t = text
  BY <1>3
<1>4. CASE t = <<>>
  BY <1>4, EmptyIsSequence
<1>5. CASE t = Append(text, "z")
  BY <1>1, <1>5
<1> QED
  BY <1>2, <1>3, <1>4, <1>5

LEMMA ShownIsSequence ==
  ASSUME IsSequence(text), NEW key, ShowKey(key)
  PROVE  IsSequence(text')
<1>1. text = <<>> \/ IsSequence(Front(text))
  BY FrontIsSequence
<1>2. IsSequence(Append(text, Glyph(key, PhysicalMods, led)))
  BY AppendIsSequence
<1> QED
  BY <1>1, <1>2, ChordEffectsAreSequences DEF ShowKey, Erase

(* A key is on its way alone: what prints has reached the text, what does  *)
(* not has left it alone.                                                  *)
UserShows(e) ==
  \/ ~Plain(e.key, e.value) /\ text' = text
  \/ /\ Plain(e.key, e.value) /\ UNCHANGED <<down, led>>
     /\ ShowKey(e.key) /\ KnownLevel(e.key)

LEMMA UserSendsOne ==
  ASSUME MaxAhead = 1, KeyboardsTyped, Phased, User
  PROVE  /\ pc = "select" /\ ch = <<>> /\ Elsewhere
         /\ \E e \in KeyEvents : ch' = <<e>> /\ e.dev \in Devices /\ UserShows(e)
         /\ ch' # <<>> /\ Len(ch') = 1
<1>a. CaughtUp => pc = "select" /\ ch = <<>>
  BY DEF CaughtUp, KeyboardsTyped
<1>b. plugged \subseteq Devices /\ monitored \subseteq Devices /\ led \in BOOLEAN
      /\ heldKey \in RepeatKeys \cup {NoKey}
  BY DEF KeyboardsTyped
<1> DEFINE event(d, key, value) == [dev |-> d, key |-> key, value |-> value]
<1>c. ASSUME NEW d \in Devices, NEW key \in Keys, NEW value \in 0..2, Queue(d, key, value), ch = <<>>
      PROVE  /\ event(d, key, value) \in KeyEvents /\ ch' = <<event(d, key, value)>>
             /\ event(d, key, value).dev = d
             /\ event(d, key, value).key = key /\ event(d, key, value).value = value
  BY <1>c DEF Queue, KeyEvents
<1>d. HeldKeys \subseteq Keys /\ TypedKeys \subseteq Keys /\ RepeatKeys \subseteq Keys
      /\ HeldKeys \subseteq ModifierKeys
  BY TextKeysFacts
<1> HIDE DEF event
<1>1. ASSUME NEW d \in Devices, NEW key \in HeldKeys, PressModifier(d, key) \/ ReleaseModifier(d, key)
      PROVE  \E value \in {0, 1} : /\ CaughtUp /\ Elsewhere /\ Queue(d, key, value)
                                   /\ UserShows(event(d, key, value))
  <2>1. /\ CaughtUp /\ Elsewhere /\ text' = text
        /\ Queue(d, key, 0) \/ Queue(d, key, 1)
    BY <1>1 DEF PressModifier, ReleaseModifier
  <2>2. \A value : ~Plain(event(d, key, value).key, event(d, key, value).value)
    BY <1>1, <1>d DEF Plain, event
  <2> QED
    BY <2>1, <2>2 DEF UserShows
<1>2. ASSUME NEW d \in Devices, NEW key \in TypedKeys, PressKey(d, key)
      PROVE  /\ CaughtUp /\ Elsewhere /\ Queue(d, key, 1) /\ UserShows(event(d, key, 1))
  <2>1. CaughtUp /\ Elsewhere /\ Queue(d, key, 1) /\ ShowKey(key) /\ KnownLevel(key)
        /\ down' = down /\ led' = (led # (key = "KEY_CAPSLOCK"))
    BY <1>2 DEF PressKey
  <2>2. event(d, key, 1).key = key /\ event(d, key, 1).value = 1
    BY DEF event
  <2>3. CASE key = "KEY_CAPSLOCK"
    BY <2>1, <2>2, <2>3 DEF ShowKey, UserShows, Plain
  <2>4. CASE key # "KEY_CAPSLOCK"
    <3>1. led' = led
      BY <1>b, <2>1, <2>4
    <3>2. Plain(key, 1)
      BY <2>4, TextKeysFacts DEF Plain
    <3> QED
      BY <2>1, <2>2, <3>1, <3>2 DEF UserShows
  <2> QED
    BY <2>1, <2>3, <2>4
<1>3. ASSUME NEW d \in Devices, RepeatKey(d)
      PROVE  /\ CaughtUp /\ Elsewhere /\ Queue(d, heldKey, 2) /\ UserShows(event(d, heldKey, 2))
             /\ heldKey \in Keys
  <2>1. CaughtUp /\ Elsewhere /\ Queue(d, heldKey, 2) /\ ShowKey(heldKey) /\ KnownLevel(heldKey)
        /\ down' = down /\ led' = led /\ heldKey # NoKey
    BY <1>3 DEF RepeatKey
  <2>2. event(d, heldKey, 2).key = heldKey /\ event(d, heldKey, 2).value = 2
    BY DEF event
  <2>3. heldKey \in TypedKeys /\ heldKey \notin ModifierKeys
    BY <1>b, <2>1, TextKeysFacts
  <2>4. CASE heldKey = "KEY_CAPSLOCK"
    <3>1. text' = text
      BY <2>1, <2>4 DEF ShowKey
    <3> QED
      BY <1>d, <2>1, <2>2, <2>3, <2>4, <3>1 DEF UserShows, Plain
  <2>5. CASE heldKey # "KEY_CAPSLOCK"
    <3>1. Plain(heldKey, 2)
      BY <2>3, <2>5 DEF Plain
    <3> QED
      BY <1>d, <2>1, <2>2, <2>3, <3>1 DEF UserShows
  <2> QED
    BY <2>4, <2>5
<1>4. ASSUME NEW d \in Devices, ReleaseKey(d)
      PROVE  /\ CaughtUp /\ Elsewhere /\ Queue(d, heldKey, 0) /\ UserShows(event(d, heldKey, 0))
             /\ heldKey \in Keys
  <2>1. CaughtUp /\ Elsewhere /\ Queue(d, heldKey, 0) /\ text' = text /\ heldKey # NoKey
    BY <1>4 DEF ReleaseKey
  <2>2. event(d, heldKey, 0).value = 0
    BY DEF event
  <2> QED
    BY <1>b, <1>d, <2>1, <2>2 DEF UserShows, Plain
<1>5. \E d \in Devices, key \in Keys, value \in 0..2 :
        CaughtUp /\ Elsewhere /\ Queue(d, key, value) /\ UserShows(event(d, key, value))
  BY <1>1, <1>2, <1>3, <1>4, <1>d DEF User
<1>6. PICK d \in Devices, key \in Keys, value \in 0..2 :
        CaughtUp /\ Elsewhere /\ Queue(d, key, value) /\ UserShows(event(d, key, value))
  BY <1>5
<1>7. ch = <<>> /\ pc = "select"
  BY <1>a, <1>6
<1> DEFINE e == event(d, key, value)
<1>8. e \in KeyEvents /\ ch' = <<e>> /\ e.dev \in Devices
  BY <1>6, <1>7, <1>c
<1>9. UserShows(e)
  BY <1>6
<1> HIDE DEF e
<1>10. \E x \in KeyEvents : ch' = <<x>> /\ x.dev \in Devices /\ UserShows(x)
  BY <1>8, <1>9
<1>11. ch' # <<>> /\ Len(ch') = 1
  BY <1>8
<1> QED
  BY <1>6, <1>7, <1>10, <1>11

(* The key picture, and that the loop handles the key with the modifiers   *)
(* the application showed it with.                                         *)
LEMMA ShownKey ==
  ASSUME NEW e, UserShows(e), Plain(e.key, e.value), IsSequence(text),
         NEW word, IsSequence(word), IsSuffix(word, text)
  PROVE  /\ OneKeyAhead(word, e.key, PhysicalMods, led)'
         /\ PhysicalMods' = PhysicalMods /\ led' = led
<1>1. PhysicalMods' = PhysicalMods /\ led' = led /\ ShowKey(e.key) /\ e.key # "KEY_CAPSLOCK"
  BY DEF UserShows, PhysicalMods, Plain
<1> DEFINE mods == PhysicalMods
           c == Glyph(e.key, mods, led)
<1>2. CASE mods \cap ChordModifiers # {}
  BY <1>1, <1>2 DEF OneKeyAhead
<1>3. CASE mods \cap ChordModifiers = {} /\ e.key \in ErasingKeys
  <2>1. text' = Erase(text)
    BY <1>1, <1>3 DEF ShowKey, ErasingKeys
  <2>2. word = <<>> \/ IsSuffix(Front(word), text')
    BY <2>1, SuffixFront DEF Erase
  <2> QED
    BY <1>1, <1>3, <2>2 DEF OneKeyAhead
<1>4. CASE mods \cap ChordModifiers = {} /\ e.key \notin ErasingKeys
  <2>1. text' = Append(text, c)
    BY <1>1, <1>4 DEF ShowKey, ErasingKeys
  <2> HIDE DEF c
  <2>2. text' # <<>> /\ Last(text') = c /\ Front(text') = text
    BY <2>1, FrontAppend
  <2> QED
    BY <1>1, <1>4, <2>2 DEF OneKeyAhead, c
<1> QED
  BY <1>1, <1>2, <1>3, <1>4

LEMMA ShownPicture ==
  ASSUME NEW e, UserShows(e), Shapes, PictureOf(text),
         UNCHANGED <<buf, overflow, suppressed, pending>>
  PROVE  EventPicture(e, PhysicalMods, led)'
<1>1. CASE ~Plain(e.key, e.value)
  <2>1. text' = text
    BY <1>1 DEF UserShows
  <2>2. PictureOf(text)'
    BY <2>1 DEF PictureOf, Unreliable, UndoShown, UndoUsed
  <2> QED
    BY <1>1, <2>2 DEF EventPicture, Plain
<1>2. CASE Plain(e.key, e.value)
  <2>1. ~Unreliable => OneKeyAhead(buf, e.key, PhysicalMods, led)'
    BY <1>2, ShownKey DEF Shapes, PictureOf, OneKeyAhead
  <2>2. OneKeyAhead(<<>>, e.key, PhysicalMods, led)'
    BY <1>2, ShownKey, EmptyIsSequence, SuffixEmpty DEF Shapes
  <2> QED
    BY <1>2, <2>1, <2>2 DEF EventPicture, Plain, Unreliable, UndoShown, UndoUsed
<1> QED
  BY <1>1, <1>2

LEMMA UserKeepsText ==
  ASSUME MaxAhead = 1, ModifiersInv, TextInv, User
  PROVE  TextInv'
<1>a. KeyboardsTyped /\ AwayIsSilent /\ Phased /\ Shapes /\ ExpanderShapes /\ UndoBooks /\ PendingAlone
  BY DEF ModifiersInv, TextInv
<1>1. pc = "select" /\ ch = <<>> /\ Elsewhere /\ ch' # <<>> /\ Len(ch') = 1
  BY <1>a, UserSendsOne
<1>2. PICK e \in KeyEvents : ch' = <<e>> /\ UserShows(e)
  BY <1>a, UserSendsOne
<1>3. ch'[1] = e
  BY <1>2
<1>4. /\ UNCHANGED <<buf, overflow, suppressed, undo, pending, result, opts>>
      /\ UNCHANGED <<config, ebuf, epending, expansion>>
      /\ pc' = "select" /\ monitored' = monitored
  BY <1>1 DEF Elsewhere, correctorVars, expanderVars, hotplugVars
<1>5. Phased'
  BY <1>1, <1>4 DEF Phased
<1>6. Shapes'
  <2>1. IsSequence(text')
    BY <1>a, <1>2, ShownIsSequence DEF UserShows, Shapes
  <2> QED
    BY <1>a, <1>4, <2>1 DEF Shapes
<1>7. ExpanderShapes' /\ UndoBooks' /\ PendingAlone'
  BY <1>a, <1>4 DEF ExpanderShapes, UndoBooks, UndoUsed, PendingAlone
<1>8. LevelsKnown'
  <2>1. Plain(e.key, e.value) => PhysicalMods' = PhysicalMods /\ KnownLevel(e.key)
    BY <1>2 DEF UserShows, PhysicalMods
  <2>2. KnownKey(e, PhysicalMods')
    BY <2>1 DEF KnownKey, KnownLevel, KnownLevels
  <2> QED
    BY <1>3, <1>4, <2>2 DEF LevelsKnown, KnownKey, Plain
<1>9. Picture'
  <2>1. PictureOf(text)
    BY <1>1 DEF TextInv, Picture
  <2>2. EventPicture(e, PhysicalMods, led)'
    BY <1>a, <1>2, <1>4, <2>1, ShownPicture
  <2>3. e.dev \in monitored'
    <3>1. PICK d \in Devices, key \in Keys, value \in 0..2 : UserSends(d, key, value)
      BY <1>a, UserMoves
    <3>2. ch' = <<[dev |-> d, key |-> key, value |-> value]>> /\ d \in monitored
      BY <1>1, <3>1 DEF UserSends, Queue
    <3>3. e = [dev |-> d, key |-> key, value |-> value]
      BY <1>3, <3>2
    <3> QED
      BY <1>4, <3>2, <3>3
  <2>4. pc' = "select" /\ ch' # <<>> /\ ch'[1] = e
    BY <1>1, <1>3, <1>4
  <2> QED
    BY <2>2, <2>3, <2>4 DEF Picture, EventPicture, OneKeyAhead, Plain
<1> QED
  BY <1>5, <1>6, <1>7, <1>8, <1>9 DEF TextInv

-----------------------------------------------------------------------------
(* What the loop does with it.                                             *)

LEMMA ReadKeepsText ==
  ASSUME MaxAhead = 1, SteadyView, ViewInv, TextInv, ReadEvent, ~misled'
  PROVE  TextInv'
<1>a. KeyboardsTyped /\ Phased /\ Shapes /\ ExpanderShapes /\ UndoBooks /\ PendingAlone
      /\ ModifiersInv /\ TrackerTypeOK
  BY DEF ViewInv, ModifiersInv, TextInv
<1> DEFINE e == ch[1]
<1>1. pc = "select" /\ ch # <<>> /\ Len(ch) = 1 /\ ch' = <<>> /\ Head(ch) = e
  BY <1>a DEF ReadEvent, Phased, KeyboardsTyped
<1>3. /\ UNCHANGED <<buf, overflow, suppressed, undo, pending, result, opts>>
      /\ UNCHANGED <<config, ebuf, epending, expansion>>
      /\ UNCHANGED <<text, down, led, monitored>>
  BY DEF ReadEvent, correctorVars, expanderVars, screenVars, hotplugVars
<1>4. EventPicture(e, PhysicalMods, led) /\ (e.dev \notin monitored => Wiped) /\ KnownKey(e, PhysicalMods)
  BY <1>1 DEF TextInv, Picture, LevelsKnown
<1>5. \/ e.dev \notin monitored /\ pc' = "select"
      \/ Track(e.dev, e.key, e.value) /\ ev' = e /\ pc' = "expander"
  BY <1>1 DEF ReadEvent
<1> HIDE DEF e
<1>6. Phased'
  BY <1>1, <1>3, <1>5 DEF Phased
<1>7. Shapes' /\ ExpanderShapes' /\ UndoBooks' /\ PendingAlone'
  BY <1>a, <1>3 DEF Shapes, ExpanderShapes, UndoBooks, UndoUsed, PendingAlone
<1>8. CASE e.dev \notin monitored /\ pc' = "select"
  <2>1. PictureOf(text)
    BY <1>a, <1>4, <1>8, WipedPicture DEF Shapes
  <2>2. PictureOf(text)'
    BY <1>3, <2>1 DEF PictureOf, Unreliable, UndoShown, UndoUsed
  <2> QED
    BY <1>1, <1>6, <1>7, <1>8, <2>2 DEF TextInv, LevelsKnown, Picture
<1>9. CASE Track(e.dev, e.key, e.value) /\ ev' = e /\ pc' = "expander"
  <2>1. CASE ~Plain(e.key, e.value)
    <3>1. PictureOf(text)'
      BY <1>3, <1>4, <2>1 DEF EventPicture, PictureOf, Unreliable, UndoShown, UndoUsed
    <3>2. EventPicture(ev, Held, caps)' /\ KnownKey(ev, Held)'
      BY <1>9, <2>1, <3>1 DEF EventPicture, KnownKey, Plain
    <3> QED
      BY <1>6, <1>7, <1>9, <3>2 DEF TextInv, LevelsKnown, Picture
  <2>2. CASE Plain(e.key, e.value)
    <3>1. View
      <4>1. ViewSettled
        BY <1>1, <2>2 DEF ViewSettled, MovesView, Plain, e
      <4>2. ~Blinded
        BY <1>1, <1>9, <2>2, SightedWhenReading
      <4> QED
        BY <4>1, <4>2, SettledView
    <3>2. Held' = Held /\ caps' = caps
      <4>1. UNCHANGED <<pressed, counts>>
        BY <1>9, <2>2 DEF Track, Changes, Plain
      <4>2. caps' = (caps # FALSE)
        BY <1>9, <2>2 DEF Track, CapsKey, Plain
      <4>3. caps \in BOOLEAN
        BY <1>a DEF TrackerTypeOK
      <4> QED
        BY <4>1, <4>2, <4>3 DEF Held
    <3>3. /\ PhysicalMods \cap ChordModifiers # {} => Held \cap ChordModifiers # {}
          /\ "Shift" \in Held <=> "Shift" \in PhysicalMods
          /\ "AltGr" \in Held <=> "AltGr" \in PhysicalMods
          /\ caps = led
      BY <3>1 DEF View, OutputModifiers
    <3> DEFINE mods == PhysicalMods
               held == Held
    <3>4. Glyph(e.key, held, caps) = Glyph(e.key, mods, led)
      BY <3>3 DEF Glyph, ShiftLevel
    <3>5. EventPicture(e, held, caps) /\ KnownKey(e, held)
      BY <1>4, <3>3, <3>4 DEF EventPicture, OneKeyAhead, KnownKey
    <3>6. EventPicture(ev, Held, caps)' /\ KnownKey(ev, Held)'
      <4>1. ev' = e /\ Held' = held /\ caps' = caps
        BY <1>9, <3>2
      <4> HIDE DEF held
      <4> QED
        BY <1>3, <3>5, <4>1 DEF EventPicture, OneKeyAhead, KnownKey, PictureOf, Unreliable, UndoShown, UndoUsed, Plain
    <3> QED
      BY <1>6, <1>7, <1>9, <3>6 DEF TextInv, LevelsKnown, Picture
  <2> QED
    BY <2>1, <2>2
<1> QED
  BY <1>5, <1>8, <1>9

LEMMA ExpanderStepShapes ==
  ASSUME NEW key, NEW value, NEW mods, NEW capsOn, ExpanderShapes,
         ExpanderHandleEvent(key, value, mods, capsOn)
  PROVE  ExpanderShapes'
<1>a. /\ config.matches \in Seq(Match) /\ IsSequence(ebuf) /\ IsSequence(<<>>)
      /\ expansion \in Expansions /\ epending \in Expansions /\ config' = config
  BY EmptyIsSequence DEF ExpanderShapes, ExpanderHandleEvent
<1>b. NoExpansion \in Expansions
  BY DEF NoExpansion, NoMatch, Expansions, Match
<1>1. ASSUME NEW t, NEW extra \in {0, 1}, NEW other, IsSequence(other), Expand(t, extra, mods, other)
      PROVE  IsSequence(ebuf') /\ expansion' \in Expansions /\ epending' \in Expansions
  <2>1. CASE Matching(t) = {}
    BY <1>a, <1>b, <1>1, <2>1 DEF Expand
  <2>2. CASE Matching(t) # {}
    <3> DEFINE e == [match |-> FirstMatch(t), extra |-> extra]
    <3>1. e \in Expansions
      BY <1>a, <2>2, FirstMatchMatches DEF Expansions
    <3>2. ebuf' = <<>> /\ expansion' \in {e, NoExpansion} /\ epending' \in {e, NoExpansion}
      BY <1>1, <2>2 DEF Expand
    <3> HIDE DEF e
    <3> QED
      BY <1>a, <1>b, <3>1, <3>2
  <2> QED
    BY <2>1, <2>2
<1>2. CASE XShiftKey(key, value, mods) \/ XAltGrKey(key, value, mods)
        \/ XChordModifierKey(key, value, mods) \/ XNotAPress(key, value, mods)
        \/ XClear(key, value, mods) \/ XUnmapped(key, value, mods)
  BY <1>a, <1>b, <1>2 DEF XShiftKey, XAltGrKey, XChordModifierKey, XNotAPress, XClear, XUnmapped,
                          ReleaseExpansion, ResetExpander, ExpanderShapes
<1>3. CASE XBackspace(key, value, mods)
  <2>1. IsSequence(ebuf')
    BY <1>a, <1>3, FrontIsSequence DEF XBackspace
  <2> QED
    BY <1>a, <1>b, <1>3, <2>1 DEF XBackspace, ExpanderShapes
<1>4. CASE XSpace(key, value, mods)
  <2>1. Expand(ebuf, 1, mods, <<>>)
    BY <1>4 DEF XSpace
  <2> QED
    BY <1>a, <1>1, <2>1 DEF ExpanderShapes
<1>5. CASE XPrint(key, value, mods, capsOn)
  <2> DEFINE typed == KeepLast(Append(ebuf, XChar(key, mods, capsOn)), MaxLen(config))
  <2>1. IsSequence(typed)
    BY <1>a, AppendIsSequence, LongestTrigger, KeepLastIsSuffix
  <2>2. \/ Expand(typed, 0, mods, typed)
        \/ ebuf' = typed /\ expansion' = NoExpansion /\ epending' = NoExpansion
    BY <1>5 DEF XPrint
  <2> HIDE DEF typed
  <2> QED
    BY <1>a, <1>b, <1>1, <2>1, <2>2 DEF ExpanderShapes
<1> QED
  BY <1>2, <1>3, <1>4, <1>5 DEF ExpanderHandleEvent

(* The text an edit leaves, whatever becomes of the edit, is a sequence.   *)
EditShape(edit) == edit.backspaces \in Nat /\ IsSequence(edit.type) /\ Len(edit.restore) \in Nat

LEMMA DeletedIsSequence ==
  ASSUME IsSequence(text), NEW n \in Nat
  PROVE  IsSequence(Deleted(n))
<1> DEFINE kept == IF Len(text) > n THEN Len(text) - n ELSE 0
<1>1. kept \in Nat
  BY SequenceFacts
<1> HIDE DEF kept
<1>2. IsSequence(KeepFirst(text, kept))
  BY <1>1, KeepFirstIsSequence
<1> QED
  BY <1>2 DEF Deleted, kept

LEMMA EditedIsSequence ==
  ASSUME IsSequence(text), NEW edit, EditShape(edit), NEW t,
         \/ t \in {Rewritten(edit, Len(edit.type))} \cup ChordEffects
         \/ t \in PartialEdits(edit)
  PROVE  IsSequence(t)
<1>a. Len(edit.type) \in Nat /\ Len(text) \in Nat /\ edit.backspaces \in Nat
  BY SequenceFacts DEF EditShape
<1>1. ASSUME NEW n \in Nat PROVE IsSequence(Deleted(n))
  BY <1>1, DeletedIsSequence
<1>2. ASSUME NEW n \in 0..Len(edit.type) PROVE IsSequence(Rewritten(edit, n))
  <2> DEFINE shown == [i \in 1..n |-> Shown(edit.type[i])]
  <2>1. n \in Nat /\ shown = [i \in 1..n |-> shown[i]]
    BY <1>a
  <2> HIDE DEF shown
  <2>2. IsSequence(shown)
    BY <2>1, TabulatedIsSequence
  <2>3. IsSequence(Deleted(edit.backspaces) \o shown)
    BY <1>a, <1>1, <2>2, ConcatIsSequence
  <2> QED
    BY <2>3 DEF Rewritten, shown
<1>3. ASSUME NEW n \in 0..Len(edit.type), NEW m \in 1..Len(edit.restore)
      PROVE  IsSequence(PutBack(edit, n, m))
  <2> DEFINE shown == [i \in 1..m |-> Shown(edit.restore[i])]
  <2>1. m \in Nat /\ shown = [i \in 1..m |-> shown[i]]
    BY DEF EditShape
  <2> HIDE DEF shown
  <2>2. IsSequence(shown)
    BY <2>1, TabulatedIsSequence
  <2>3. IsSequence(Rewritten(edit, n) \o shown)
    BY <1>2, <2>2, ConcatIsSequence
  <2> QED
    BY <2>3 DEF PutBack, shown
<1>4. Len(edit.type) \in 0..Len(edit.type)
  BY <1>a
<1>5. CASE t \in {Rewritten(edit, Len(edit.type))} \cup ChordEffects
  BY <1>2, <1>4, <1>5, ChordEffectsAreSequences
<1>6. CASE t \in PartialEdits(edit)
  <2>1. 0..edit.backspaces \subseteq Nat
    BY <1>a
  <2> QED
    BY <1>1, <1>2, <1>6, <1>3, <2>1 DEF PartialEdits
<1> QED
  BY <1>5, <1>6

LEMMA PaddedWord ==
  ASSUME NEW s \in Seq(Runes), NEW n \in {0, 1}, NEW c \in Runes
  PROVE  s \o [i \in 1..n |-> c] \in Seq(Runes) /\ Len(s \o [i \in 1..n |-> c]) \in Nat
<1> DEFINE padding == [i \in 1..n |-> c]
<1>1. padding \in Seq(Runes)
  OBVIOUS
<1> HIDE DEF padding
<1>2. s \o padding \in Seq(Runes) /\ Len(s \o padding) \in Nat
  BY <1>1
<1> QED
  BY <1>2 DEF padding

LEMMA SpacedTrigger ==
  ASSUME NEW s \in Seq(Runes), NEW n \in {0, 1}
  PROVE  s \o [i \in 1..n |-> " "] \in Seq(Runes) /\ Len(s \o [i \in 1..n |-> " "]) \in Nat
<1>1. " " \in Runes
  BY Zenon DEF Runes
<1> QED
  BY <1>1, PaddedWord, Zenon

LEMMA ExpansionShape ==
  ASSUME NEW e \in Expansions
  PROVE  EditShape(ExpansionEdit(e)) /\ e.match.back \in Nat
<1>1. e.match \in Match /\ e.extra \in {0, 1}
  BY DEF Expansions
<1>2. e.match.trigger \in Seq(Runes) /\ e.match.replace \in Seq(Runes) /\ e.match.back \in Nat
  BY <1>1 DEF Match
<1>3. Len(e.match.trigger) \in Nat /\ IsSequence(e.match.replace)
  BY <1>2, TypedIsSequence
<1>4. Len(e.match.trigger \o [i \in 1..e.extra |-> " "]) \in Nat
  BY <1>1, <1>2, SpacedTrigger, Zenon
<1> QED
  BY <1>1, <1>2, <1>3, <1>4 DEF ExpansionEdit, EditShape

LEMMA ExpanderKeepsText ==
  ASSUME TextInv, RunExpander \/ ApplyExpansion
  PROVE  TextInv'
<1>a. Phased /\ Shapes /\ ExpanderShapes /\ UndoBooks /\ PendingAlone
  BY DEF TextInv
<1>1. /\ UNCHANGED <<buf, overflow, suppressed, undo, pending, result, opts>>
      /\ UNCHANGED <<pressed, counts, caps, down, led, ch, ev>>
  BY DEF RunExpander, ApplyExpansion, correctorVars, trackerVars, screenVars
<1>2. UndoBooks' /\ PendingAlone' /\ Held' = Held
  BY <1>a, <1>1 DEF UndoBooks, UndoUsed, PendingAlone, Held
<1>3. CASE RunExpander
  <2>1. /\ pc = "expander" /\ text' = text
        /\ ExpanderHandleEvent(ev.key, ev.value, Held, caps)
        /\ pc' = (IF expansion' # NoExpansion THEN "expand" ELSE "corrector")
    BY <1>3 DEF RunExpander, screenVars
  <2>2. Phased' /\ Shapes' /\ ExpanderShapes'
    BY <1>a, <1>1, <2>1, ExpanderStepShapes DEF Phased, Shapes
  <2>3. EventPicture(ev, Held, caps) /\ KnownKey(ev, Held)
    BY <2>1 DEF TextInv, Picture, LevelsKnown
  <2>4. EventPicture(ev, Held, caps)' /\ KnownKey(ev, Held)'
    BY <1>1, <1>2, <2>1, <2>3 DEF EventPicture, OneKeyAhead, KnownKey, PictureOf, Unreliable, UndoShown, UndoUsed, Plain
  <2>5. LevelsKnown' /\ Picture'
    BY <2>1, <2>4 DEF LevelsKnown, Picture
  <2> QED
    BY <1>2, <2>2, <2>5 DEF TextInv
<1>4. CASE ApplyExpansion
  <2> DEFINE edit == ExpansionEdit(expansion)
  <2>1. /\ pc = "expand" /\ pc' = "corrector" /\ UNCHANGED <<config, ebuf, epending, expansion>>
        /\ \/ \E t \in {Rewritten(edit, Len(edit.type))} \cup ChordEffects :
                text' = CursorBack(t, expansion.match.back)
           \/ text' \in PartialEdits(edit)
    BY <1>4 DEF ApplyExpansion, expanderVars
  <2>2. expansion # NoExpansion /\ expansion \in Expansions
    BY <1>a, <2>1 DEF Phased, ExpanderShapes
  <2>3. EditShape(edit) /\ expansion.match.back \in Nat
    BY <2>2, ExpansionShape
  <2> HIDE DEF edit
  <2>4. IsSequence(text')
    <3>1. ASSUME NEW t, IsSequence(t) PROVE IsSequence(CursorBack(t, expansion.match.back))
      <4> DEFINE n == expansion.match.back
                 kept == IF Len(t) > n THEN Len(t) - n ELSE 0
      <4>1. kept \in Nat
        BY <2>3, <3>1, SequenceFacts
      <4> HIDE DEF kept
      <4>2. IsSequence(KeepFirst(t, kept))
        BY <3>1, <4>1, KeepFirstIsSequence
      <4> QED
        BY <4>2 DEF CursorBack, kept
    <3>2. \A t \in {Rewritten(edit, Len(edit.type))} \cup ChordEffects : IsSequence(t)
      BY <1>a, <2>3, EditedIsSequence DEF Shapes
    <3>3. \A t \in PartialEdits(edit) : IsSequence(t)
      BY <1>a, <2>3, EditedIsSequence DEF Shapes
    <3> QED
      BY <2>1, <3>1, <3>2, <3>3
  <2>5. Shapes' /\ ExpanderShapes' /\ Phased'
    BY <1>a, <1>1, <2>1, <2>4 DEF Shapes, ExpanderShapes, Phased
  <2>6. KnownKey(ev, Held)'
    BY <1>1, <1>2, <2>1 DEF TextInv, LevelsKnown, KnownKey, Plain
  <2>7. LevelsKnown' /\ Picture'
    BY <2>1, <2>2, <2>6 DEF LevelsKnown, Picture
  <2> QED
    BY <1>2, <2>5, <2>7 DEF TextInv
<1> QED
  BY <1>3, <1>4

LEMMA CorrectorKeepsText ==
  ASSUME caps \in BOOLEAN, TextInv, RunCorrector
  PROVE  TextInv'
<1>a. Phased /\ Shapes /\ ExpanderShapes /\ UndoBooks /\ PendingAlone
  BY DEF TextInv
<1>1. /\ pc = "corrector" /\ pc' = "act"
      /\ CorrectorHandleEvent(ev.key, ev.value, Held, caps)
      /\ UNCHANGED <<config, ebuf, epending, expansion>>
      /\ UNCHANGED <<pressed, counts, caps, text, down, led, ch, ev>>
  BY DEF RunCorrector, expanderVars, trackerVars, screenVars
<1>2. KnownKey(ev, Held) /\ opts' = opts
  BY <1>1 DEF TextInv, LevelsKnown, CorrectorHandleEvent, Environs
<1>3. Outcome(ev.key, ev.value, Held, caps)
  <2>1. "AltGr" \in Held /\ AsText(ev.key, ev.value, Held) => ev.key \in KnownLevels
    BY <1>2 DEF KnownKey, AsText
  <2> QED
    BY <1>1, <2>1, CorrectorOutcome
<1>4. Shapes' /\ UndoBooks' /\ PendingAlone'
  BY <1>1, <1>2, <1>3, <1>a, OutcomeShapes, OutcomeBooks
<1>5. ExpanderShapes' /\ Phased'
  BY <1>1, <1>a DEF ExpanderShapes, Phased
<1>6. LevelsKnown'
  BY <1>1, <1>2 DEF LevelsKnown, KnownKey, Plain, Held
<1>7. Picture'
  <2>1. CASE expansion = NoExpansion
    <3>1. EventPicture(ev, Held, caps)
      BY <1>1, <2>1 DEF TextInv, Picture
    <3>2. Held' = Held
      BY <1>1 DEF Held
    <3>3. PlanPicture'
      BY <1>1, <1>3, <1>a, <3>1, <3>2, OutcomePicture
    <3> QED
      BY <1>1, <3>3 DEF Picture
  <2>2. CASE expansion # NoExpansion
    BY <1>1, <2>2 DEF Picture
  <2> QED
    BY <2>1, <2>2
<1> QED
  BY <1>4, <1>5, <1>6, <1>7 DEF TextInv

LEMMA HeldClasses ==
  ASSUME ViewInv
  PROVE  /\ HeldKeys \cap (ShiftKeys \cup AltGrKeys) = {} => Held \cap OutputModifiers = {}
         /\ HeldKeys \subseteq ShiftKeys \cup AltGrKeys => Held \cap ChordModifiers = {}
<1>1. \A c \in Held : \E k \in HeldKeys \cap ModifierKeys : ModifierClass[k] = c
  BY DEF ViewInv, HeldIsPressed, OnlyHeldKeys, ModifiersInv, TrackerTypeOK
<1>2. \A k \in ModifierKeys : ModifierClass[k] \in OutputModifiers <=> k \in ShiftKeys \cup AltGrKeys
  BY DEF OutputModifiers, ShiftKeys, AltGrKeys
<1>3. OutputModifiers \cap ChordModifiers = {}
  BY DEF OutputModifiers, ChordModifiers
<1> QED
  BY <1>1, <1>2, <1>3

Act == ActOnExpansion \/ ActOnToggle \/ ApplyPlan \/ FailPlan \/ ActOnNothing

LEMMA ActKeepsText ==
  ASSUME SteadyView, ViewInv, Sighted, ~misled, TextInv, Act
  PROVE  TextInv'
<1>a. Phased /\ Shapes /\ ExpanderShapes /\ UndoBooks /\ PendingAlone
  BY DEF TextInv
<1>1. /\ pc = "act" /\ Finish /\ opts' = opts
      /\ pc' = "select" /\ result' = NoResult /\ expansion' = NoExpansion
      /\ UNCHANGED <<ch, config>>
  BY DEF Act, ActOnExpansion, ActOnToggle, ApplyPlan, HasPlan, FailPlan, ActOnNothing, Finish
<1>2. ch = <<>> /\ ch' = <<>>
  BY <1>1, <1>a DEF Phased
<1>3. /\ ebuf' \in {ebuf, <<>>} /\ epending' \in {epending, NoExpansion}
  BY DEF Act, ActOnExpansion, ActOnToggle, ApplyPlan, FailPlan, ActOnNothing, AfterCorrection, ResetExpander
<1>4. Phased' /\ LevelsKnown'
  BY <1>1, <1>2 DEF Phased, LevelsKnown
<1>5. ExpanderShapes'
  <2>1. NoExpansion \in Expansions
    BY DEF NoExpansion, NoMatch, Expansions, Match
  <2> QED
    BY <1>1, <1>3, <1>a, <2>1, EmptyIsSequence DEF ExpanderShapes
<1>b. \/ UNCHANGED <<buf, overflow, suppressed, undo, pending>>
      \/ buf' = <<>> /\ undo' = NoUndo /\ pending' = NoPending
  BY DEF Act, ActOnExpansion, ActOnToggle, ApplyPlan, FailPlan, ActOnNothing, AfterExpansion, AfterFailure,
         Invalidate, ClearWord
<1>6. UndoBooks' /\ PendingAlone'
  BY <1>a, <1>b, <1>1, NothingShapes DEF UndoBooks, UndoUsed, PendingAlone
<1>7. IsSequence(text')
  <2>1. CASE text' = text
    BY <2>1, <1>a DEF Shapes
  <2>2. CASE ApplyPlan \/ FailPlan
    <3>1. EditShape(result.plan)
      BY <1>a, SequenceFacts DEF Shapes, PlanShape, EditShape
    <3>2. \/ text' \in {Rewritten(result.plan, Len(result.plan.type))} \cup ChordEffects
          \/ text' \in PartialEdits(result.plan)
      BY <2>2 DEF ApplyPlan, FailPlan
    <3>3. IsSequence(text)
      BY <1>a DEF Shapes
    <3> DEFINE t == text'
    <3>4. \A u \in {Rewritten(result.plan, Len(result.plan.type))} \cup ChordEffects : IsSequence(u)
      BY <3>1, <3>3, EditedIsSequence
    <3>5. \A u \in PartialEdits(result.plan) : IsSequence(u)
      BY <3>1, <3>3, EditedIsSequence
    <3> QED
      BY <3>2, <3>4, <3>5
  <2> QED
    BY <2>1, <2>2 DEF Act, ActOnExpansion, ActOnToggle, ActOnNothing
<1>8. Shapes'
  BY <1>a, <1>b, <1>1, <1>7, NothingShapes, EmptyIsSequence DEF Shapes
<1>9. PictureOf(text)'
  <2>1. CASE Wiped'
    BY <1>7, <2>1, SuffixEmpty, NothingShapes DEF Wiped, PictureOf
  <2>2. CASE ~Wiped'
    <3>1. expansion = NoExpansion /\ UNCHANGED <<buf, overflow, suppressed, pending>> /\ ~FailPlan
      BY <2>2, <1>b DEF Act, ActOnExpansion, ActOnToggle, ApplyPlan, HasPlan, FailPlan, ActOnNothing, Wiped,
                        AfterExpansion, AfterFailure, Invalidate, ClearWord
    <3>2. PlanPicture
      BY <1>1, <3>1 DEF TextInv, Picture
    <3>3. CASE ActOnToggle \/ ActOnNothing
      <4>1. PictureOf(text) /\ text' = text
        BY <3>2, <3>3 DEF ActOnToggle, ActOnNothing, PlanPicture
      <4> QED
        BY <3>1, <4>1 DEF PictureOf, Unreliable, UndoShown, UndoUsed
    <3>4. CASE ApplyPlan
      <4>1. result.plan # NoPlan
        BY <3>4 DEF ApplyPlan, HasPlan
      <4>2. ~Wiped
        BY <2>2, <3>1 DEF Wiped
      <4>3. UndoPicture
        BY <3>2, <4>1, <4>2 DEF PlanPicture
      <4>4. UndoShown => text' = Deleted(result.plan.backspaces) \o result.plan.type
        <5> SUFFICES ASSUME UndoShown PROVE text' = Deleted(result.plan.backspaces) \o result.plan.type
          OBVIOUS
        <5>1. View /\ led \in BOOLEAN
          <6>1. ~Blinded
            BY <3>4, SightedWhenEditing DEF ApplyPlan
          <6> QED
            BY <1>2, <6>1, SettledView DEF ViewSettled, ViewInv, ModifiersInv, KeyboardsTyped
        <5>2. Held \cap OutputModifiers = {} /\ Held \cap ChordModifiers = {}
          BY <4>3, HeldClasses DEF UndoPicture, UndoShown
        <5>3. PhysicalMods \cap OutputModifiers = {} /\ PhysicalMods \cap ChordModifiers = {} /\ caps = led
          BY <5>1, <5>2 DEF View
        <5>4. text' = Rewritten(result.plan, Len(result.plan.type))
          BY <3>4, <5>3 DEF ApplyPlan, Rewrite
        <5>5. IsSequence(result.plan.type) /\ Typeable(result.plan.type)
          BY <1>a DEF Shapes, PlanShape
        <5> QED
          BY <5>1, <5>3, <5>4, <5>5, RewrittenText
      <4>5. UndoShown => IsSuffix(buf', text')
        <5>1. IsSequence(Deleted(result.plan.backspaces)) /\ IsSequence(result.plan.type)
          <6>1. result.plan.backspaces \in Nat /\ IsSequence(text)
            BY <1>a, SequenceFacts DEF Shapes, PlanShape
          <6> QED
            BY <1>a, <6>1, DeletedIsSequence DEF Shapes, PlanShape
        <5> QED
          BY <3>1, <4>3, <4>4, <5>1, SuffixConcat DEF UndoPicture
      <4>6. pending' = NoPending /\ (Unreliable' \/ IsSuffix(buf', text'))
        BY <3>1, <4>3, <4>5 DEF UndoPicture, Unreliable, UndoShown, UndoUsed
      <4> QED
        BY <1>7, <4>6, SuffixEmpty, NothingShapes DEF PictureOf
    <3> QED
      BY <3>1, <3>3, <3>4 DEF Act, ActOnExpansion, ActOnToggle, ActOnNothing
  <2> QED
    BY <2>1, <2>2
<1>10. Picture'
  BY <1>1, <1>2, <1>9 DEF Picture
<1> QED
  BY <1>4, <1>5, <1>6, <1>8, <1>10 DEF TextInv

-----------------------------------------------------------------------------
(* Calls, reloads and keyboards that come and go.                          *)

Aside ==
  \/ \E v \in BOOLEAN : DBusSetEnabled(v)
  \/ \E app \in Apps : ActiveWindow(app)
  \/ SetLookup
  \/ \E d \in Devices : Unplug(d) \/ PlugIn(d)
  \/ UNCHANGED vars

Restarted ==
  \/ \E setup \in Setups : ReloadConfig(setup)
  \/ \E d \in Devices : KeyboardDone(d)
  \/ RefreshKeyboards

LEMMA UserElsewhere == User => Elsewhere
BY DEF User, PressModifier, ReleaseModifier, PressKey, RepeatKey, ReleaseKey

LEMMA TextStepKinds ==
  [Next]_vars => User \/ ReadEvent \/ RunExpander \/ ApplyExpansion \/ RunCorrector \/ Act \/ Aside \/ Restarted
BY DEF Next, Loop, Act, Disturbance, Aside, Restarted

LEMMA AsideKeepsText ==
  ASSUME TextInv, Aside
  PROVE  TextInv'
<1>1. /\ UNCHANGED <<text, buf, overflow, suppressed, undo, pending, result, opts>>
      /\ UNCHANGED <<config, ebuf, epending, expansion>>
      /\ UNCHANGED <<pressed, counts, caps, led, ch, pc, ev, monitored>>
  BY DEF Aside, DBusSetEnabled, ActiveWindow, SetLookup, Unplug, PlugIn, vars, correctorVars, expanderVars,
         trackerVars, screenVars, loopVars, hotplugVars
<1>2. ch = <<>> \/ down' = down
  BY DEF Aside, DBusSetEnabled, ActiveWindow, SetLookup, Unplug, PlugIn, vars, screenVars
<1>3. ch # <<>> => PhysicalMods' = PhysicalMods
  BY <1>2 DEF PhysicalMods
<1>4. Held' = Held
  BY <1>1 DEF Held
<1>5. Phased' /\ Shapes' /\ ExpanderShapes' /\ UndoBooks' /\ PendingAlone'
  BY <1>1 DEF TextInv, Phased, Shapes, ExpanderShapes, UndoBooks, UndoUsed, PendingAlone
<1>7. PictureOf(text) => PictureOf(text)'
  BY <1>1 DEF PictureOf, Unreliable, UndoShown, UndoUsed
<1>8. LevelsKnown'
  BY <1>1, <1>3, <1>4 DEF TextInv, LevelsKnown, KnownKey, Plain
<1>9. Picture'
  <2>1. pc = "select" /\ ch # <<>> => EventPicture(ch[1], PhysicalMods, led)'
    BY <1>1, <1>3, <1>7 DEF TextInv, Picture, EventPicture, OneKeyAhead, Plain, Unreliable, UndoShown, UndoUsed
  <2>2. pc = "expander" \/ (pc = "corrector" /\ expansion = NoExpansion) => EventPicture(ev, Held, caps)'
    BY <1>1, <1>4, <1>7 DEF TextInv, Picture, EventPicture, OneKeyAhead, Plain, Unreliable, UndoShown, UndoUsed
  <2>3. pc = "act" /\ expansion = NoExpansion => PlanPicture'
    BY <1>1, <1>4, <1>7 DEF TextInv, Picture, PlanPicture, UndoPicture, Wiped, UndoUsed
  <2> QED
    BY <1>1, <1>7, <2>1, <2>2, <2>3 DEF TextInv, Picture, Wiped
<1> QED
  BY <1>5, <1>8, <1>9 DEF TextInv

LEMMA RestartKeepsText ==
  ASSUME KeyboardsTyped, TextInv, Restarted
  PROVE  TextInv'
<1>a. Phased /\ Shapes /\ ExpanderShapes /\ UndoBooks /\ PendingAlone /\ ch \in Seq(KeyEvents)
  BY DEF TextInv, KeyboardsTyped
<1>1. /\ pc = "select" /\ UNCHANGED <<text, down, led, result, expansion, ch, pc, ev>>
  BY DEF Restarted, ReloadConfig, ApplySettings, SetOptions, Reload, KeyboardDone, RefreshKeyboards, screenVars,
         loopVars, correctorVars
<1>2. \/ UNCHANGED <<buf, overflow, suppressed, undo, pending, opts, monitored>>
      \/ /\ buf' = <<>> /\ undo' = NoUndo /\ pending' = NoPending
         /\ opts' = opts \/ \E setup \in Setups : opts' = setup.options
  BY DEF Restarted, ReloadConfig, ApplySettings, SetOptions, Invalidate, ClearWord, KeyboardDone,
         RefreshKeyboards, ResetCorrector, correctorVars, hotplugVars
<1>3. PhysicalMods' = PhysicalMods
  BY <1>1 DEF PhysicalMods
<1>4. Phased' /\ LevelsKnown'
  BY <1>1, <1>3 DEF TextInv, Phased, LevelsKnown, KnownKey, Plain
<1>5. Shapes' /\ UndoBooks' /\ PendingAlone'
  BY <1>a, <1>1, <1>2, NothingShapes, EmptyIsSequence DEF Shapes, UndoBooks, UndoUsed, PendingAlone
<1>6. ExpanderShapes'
  <2>1. NoExpansion \in Expansions
    BY DEF NoExpansion, NoMatch, Expansions, Match
  <2>2. ASSUME NEW setup \in Setups, ReloadConfig(setup) PROVE ExpanderShapes'
    <3>1. setup.expander.matches \in Seq(Match)
      BY TypingAssumption DEF Match
    <3>2. config' = setup.expander /\ ebuf' = KeepLast(ebuf, MaxLen(setup.expander))
          /\ UNCHANGED <<epending, expansion>>
      BY <2>2 DEF ReloadConfig, Reload
    <3>3. IsSequence(ebuf')
      BY <1>a, <3>1, <3>2, LongestTrigger, KeepLastIsSuffix DEF ExpanderShapes
    <3> QED
      BY <1>a, <3>1, <3>2, <3>3 DEF ExpanderShapes
  <2>3. CASE (\E d \in Devices : KeyboardDone(d)) \/ RefreshKeyboards
    BY <1>a, <2>1, <2>3, EmptyIsSequence DEF KeyboardDone, RefreshKeyboards, ResetExpander, ExpanderShapes
  <2> QED
    BY <2>2, <2>3 DEF Restarted
<1>7. Picture'
  <2>1. CASE UNCHANGED <<buf, overflow, suppressed, undo, pending, opts, monitored>>
    <3>1. PictureOf(text) => PictureOf(text)'
      BY <1>1, <2>1 DEF PictureOf, Unreliable, UndoShown, UndoUsed
    <3>2. ch # <<>> => EventPicture(ch[1], PhysicalMods, led)'
      BY <1>1, <1>3, <2>1, <3>1 DEF TextInv, Picture, EventPicture, OneKeyAhead, Plain, Unreliable, UndoShown, UndoUsed
    <3> QED
      BY <1>1, <2>1, <3>1, <3>2 DEF TextInv, Picture, Wiped
  <2>2. CASE buf' = <<>> /\ pending' = NoPending
    <3>1. PictureOf(text)'
      BY <1>a, <1>1, <2>2, SuffixEmpty, NothingShapes DEF PictureOf, Shapes
    <3>2. ch # <<>> => EventPicture(ch[1], PhysicalMods, led)'
      <4>1. ch # <<>> => EventPicture(ch[1], PhysicalMods, led)
        BY <1>1 DEF TextInv, Picture
      <4>2. text # <<>> => IsSuffix(<<>>, Front(text))
        BY <1>a, FrontIsSequence, SuffixEmpty DEF Shapes
      <4> QED
        BY <1>1, <1>3, <2>2, <3>1, <4>1, <4>2 DEF EventPicture, OneKeyAhead, Plain
    <3> QED
      BY <1>1, <2>2, <3>1, <3>2 DEF Picture, Wiped
  <2> QED
    BY <1>2, <2>1, <2>2
<1> QED
  BY <1>4, <1>5, <1>6, <1>7 DEF TextInv

-----------------------------------------------------------------------------
(* The invariant holds, and what follows from it.                          *)

LEMMA TextInit == Init => TextInv
<1> SUFFICES ASSUME Init PROVE TextInv
  OBVIOUS
<1>1. PICK setup \in Setups :
        CorrectorInit(setup.enabled, TRUE, setup.options) /\ ExpanderInit(setup.expander)
  BY DEF Init
<1>2. text = <<>> /\ ch = <<>> /\ pc = "select"
  BY DEF Init
<1>3. /\ opts = setup.options /\ buf = <<>> /\ undo = NoUndo /\ pending = NoPending /\ result = NoResult
      /\ config = setup.expander /\ ebuf = <<>> /\ epending = NoExpansion /\ expansion = NoExpansion
  BY <1>1 DEF CorrectorInit, ExpanderInit
<1>4. Shapes
  BY <1>2, <1>3, NothingShapes, EmptyIsSequence DEF Shapes
<1>5. ExpanderShapes
  <2>1. setup.expander.matches \in Seq(Match)
    BY TypingAssumption DEF Match
  <2>2. NoExpansion \in Expansions
    BY DEF Match, NoExpansion, NoMatch, Expansions
  <2> QED
    BY <1>3, <2>1, <2>2, EmptyIsSequence DEF ExpanderShapes
<1>6. UndoBooks /\ PendingAlone
  BY <1>3, NothingShapes DEF UndoBooks, UndoUsed, PendingAlone
<1>7. Picture
  BY <1>2, <1>3, <1>4, WipedPicture DEF Picture, Wiped, Shapes
<1> QED
  BY <1>2, <1>4, <1>5, <1>6, <1>7 DEF TextInv, Phased, LevelsKnown

LEMMA MisledLasts == misled /\ [Next]_vars => misled'
<1> SUFFICES ASSUME misled, [Next]_vars PROVE misled'
  OBVIOUS
<1>1. CASE User
  BY <1>1, UserElsewhere DEF Elsewhere, histVars, forgetVars
<1>2. CASE ReadEvent \/ RunExpander \/ ApplyExpansion \/ RunCorrector
  BY <1>2 DEF ReadEvent, Told, RunExpander, ApplyExpansion, RunCorrector, histVars, forgetVars
<1>3. CASE Act
  BY <1>3 DEF Act, ActOnExpansion, ActOnToggle, ApplyPlan, FailPlan, ActOnNothing, Finish, forgetVars
<1>4. CASE Aside
  BY <1>4 DEF Aside, DBusSetEnabled, ActiveWindow, SetLookup, Unplug, PlugIn, vars, histVars, forgetVars
<1>5. CASE Restarted
  BY <1>5 DEF Restarted, ReloadConfig, KeyboardDone, RefreshKeyboards, ForgetHeld, forgetVars
<1> QED
  BY <1>1, <1>2, <1>3, <1>4, <1>5, TextStepKinds

LEMMA SightedInit == Init => Sighted
BY DEF Init, Sighted, Blinded

(* Keys that print nothing: what the expander and the corrector make of    *)
(* them when nothing waits.                                                *)
LEMMA SilentExpander ==
  ASSUME NEW key, NEW value, NEW mods, NEW capsOn, ~Plain(key, value), epending = NoExpansion,
         ExpanderHandleEvent(key, value, mods, capsOn)
  PROVE  expansion' = NoExpansion /\ epending' = NoExpansion
<1>1. CASE key \in ModifierKeys
  BY <1>1 DEF ExpanderHandleEvent, XShiftKey, XAltGrKey, XChordModifierKey, XNotAPress, XClear, XBackspace, XSpace,
              XUnmapped, XPrint, XPress, ReleaseExpansion, ResetExpander
<1>2. CASE value = 0 /\ key \notin ModifierKeys
  BY <1>2, KeyKinds DEF ExpanderHandleEvent, XShiftKey, XAltGrKey, XChordModifierKey, XNotAPress, XClear,
                        XBackspace, XSpace, XUnmapped, XPrint, XPress
<1>3. CASE key = "KEY_CAPSLOCK"
  <2>1. key \notin PrintingKeys \cup {"KEY_SPACE", "KEY_BACKSPACE"} /\ key \notin ModifierKeys
    BY <1>3, KeyKinds DEF PrintingKeys, Chars
  <2> QED
    BY <2>1, KeyKinds DEF ExpanderHandleEvent, XShiftKey, XAltGrKey, XChordModifierKey, XNotAPress, XClear,
                          XBackspace, XSpace, SpaceMode, XUnmapped, XPrint, ResetExpander
<1> QED
  BY <1>1, <1>2, <1>3 DEF Plain

LEMMA SilentCorrector ==
  ASSUME NEW key, NEW value, NEW mods, NEW capsOn \in BOOLEAN, ~Plain(key, value), pending = NoPending,
         CorrectorHandleEvent(key, value, mods, capsOn)
  PROVE  result'.plan = NoPlan /\ pending' = NoPending
<1>1. Outcome(key, value, mods, capsOn)
  BY CorrectorOutcome DEF AsText
<1> QED
  BY <1>1, NothingShapes DEF Outcome, Ignored, Released, Forgotten, TakenBack, Shortened, Extended, Committed, AsText,
                             NoResult

LEMMA SightedStep == ViewInv /\ Sighted /\ [Next]_vars => Sighted'
<1> SUFFICES ASSUME ViewInv, Sighted, [Next]_vars, ~misled' PROVE Sighted'
  BY DEF Sighted
<1>a. ~misled
  BY MisledLasts
<1>b. ASSUME UNCHANGED <<pending, epending, pc, ev, result, expansion>>, Blinded' => Blinded PROVE Sighted'
  BY <1>a, <1>b DEF Sighted, HasPlan, Plain
<1>c. blind \in [Devices -> SUBSET ModifierKeys] /\ ch \in Seq(KeyEvents) /\ caps \in BOOLEAN
  BY DEF ViewInv, ModifiersInv, KeyboardsTyped, TrackerTypeOK
<1>1. CASE User
  BY <1>1, <1>b, UserElsewhere DEF Elsewhere, correctorVars, expanderVars, histVars, forgetVars, Blinded
<1>2. CASE ReadEvent
  <2> DEFINE e == Head(ch)
  <2>1. CASE e.dev \notin monitored
    BY <1>2, <1>b, <2>1 DEF ReadEvent, correctorVars, expanderVars, forgetVars, Blinded
  <2>2. CASE e.dev \in monitored
    <3>1. /\ UNCHANGED <<pending, epending>> /\ ev' = e /\ pc' = "expander" /\ Told(e)
      BY <1>2, <2>2 DEF ReadEvent, correctorVars, expanderVars
    <3>2. Plain(e.key, e.value) => ~Blinded
      BY <1>2, <3>1, SightedWhenReading
    <3> HIDE DEF e
    <3>3. Blinded' => Blinded
      <4>1. blind' = blind \/ blind' = [blind EXCEPT ![e.dev] = @ \ {e.key}]
        BY <3>1 DEF Told
      <4>2. \A d \in Devices : blind'[d] \subseteq blind[d]
        BY <1>c, <4>1
      <4> QED
        BY <4>2 DEF Blinded
    <3> QED
      BY <1>a, <3>1, <3>2, <3>3 DEF Sighted, HasPlan, Plain
  <2> QED
    BY <2>1, <2>2
<1>3. CASE RunExpander
  <2>1. /\ pc = "expander" /\ UNCHANGED <<pending, ev, blind>>
        /\ ExpanderHandleEvent(ev.key, ev.value, Held, caps)
        /\ pc' = (IF expansion' # NoExpansion THEN "expand" ELSE "corrector")
    BY <1>3 DEF RunExpander, correctorVars, histVars, forgetVars
  <2>2. Blinded => epending = NoExpansion /\ ~Plain(ev.key, ev.value)
    BY <1>a, <2>1 DEF Sighted
  <2>3. Blinded => expansion' = NoExpansion /\ epending' = NoExpansion
    BY <2>1, <2>2, SilentExpander
  <2> QED
    BY <1>a, <2>1, <2>2, <2>3 DEF Sighted, HasPlan, Plain, Blinded
<1>4. CASE ApplyExpansion
  BY <1>4, <1>a DEF ApplyExpansion, Sighted, histVars, forgetVars, Blinded
<1>5. CASE RunCorrector
  <2>1. /\ pc = "corrector" /\ pc' = "act" /\ UNCHANGED <<epending, ev, blind>>
        /\ CorrectorHandleEvent(ev.key, ev.value, Held, caps)
    BY <1>5 DEF RunCorrector, expanderVars, histVars, forgetVars
  <2>2. Blinded => pending = NoPending /\ epending = NoExpansion /\ ~Plain(ev.key, ev.value)
    BY <1>a, <2>1 DEF Sighted
  <2>3. Blinded => result'.plan = NoPlan /\ pending' = NoPending
    BY <1>c, <2>1, <2>2, SilentCorrector
  <2> QED
    BY <2>1, <2>2, <2>3 DEF Sighted, HasPlan, Plain, Blinded
<1>6. CASE Act
  <2>1. /\ pc' = "select" /\ pending' \in {pending, NoPending} /\ epending' \in {epending, NoExpansion} /\ blind' = blind
    BY <1>6 DEF Act, ActOnExpansion, ActOnToggle, ApplyPlan, FailPlan, ActOnNothing, Finish, AfterExpansion,
                AfterFailure, AfterCorrection, Invalidate, ResetExpander, forgetVars
  <2> QED
    BY <1>a, <2>1 DEF Sighted, HasPlan, Blinded
<1>7. CASE Aside
  <2>1. UNCHANGED <<pending, epending, pc, ev, result, expansion>>
    BY <1>7 DEF Aside, DBusSetEnabled, ActiveWindow, SetLookup, Unplug, PlugIn, vars, correctorVars, expanderVars,
                loopVars
  <2>2. blind' = blind \/ \E d \in Devices : blind' = [blind EXCEPT ![d] = {}]
    BY <1>7 DEF Aside, DBusSetEnabled, ActiveWindow, SetLookup, Unplug, PlugIn, vars, histVars, forgetVars
  <2>3. \A d \in Devices : blind'[d] \subseteq blind[d]
    BY <1>c, <2>2
  <2> QED
    BY <1>b, <2>1, <2>3 DEF Blinded
<1>8. CASE Restarted
  <2>1. pc = "select" /\ pc' = "select"
    BY <1>8 DEF Restarted, ReloadConfig, KeyboardDone, RefreshKeyboards, loopVars
  <2>2. \/ pending' = NoPending /\ epending' = NoExpansion
        \/ pending' \in {pending, NoPending} /\ epending' = epending /\ blind' = blind
    BY <1>8 DEF Restarted, ReloadConfig, Reload, ApplySettings, SetOptions, Invalidate, KeyboardDone,
                RefreshKeyboards, ResetCorrector, ResetExpander, correctorVars, forgetVars
  <2> QED
    BY <1>a, <2>1, <2>2 DEF Sighted, HasPlan, Blinded
<1> QED
  BY <1>1, <1>2, <1>3, <1>4, <1>5, <1>6, <1>7, <1>8, TextStepKinds

LEMMA SightedInvariant ==
  ASSUME SteadyView
  PROVE  Spec => [](ViewInv /\ Sighted)
<1> QED
  BY SightedInit, SightedStep, ViewInvariant, PTL DEF Spec

LEMMA TextStep ==
  ASSUME MaxAhead = 1, SteadyView
  PROVE  ViewInv /\ Sighted /\ TextInv /\ [Next]_vars => misled' \/ TextInv'
<1> SUFFICES ASSUME ViewInv, Sighted, TextInv, [Next]_vars, ~misled' PROVE TextInv'
  OBVIOUS
<1>1. ModifiersInv /\ KeyboardsTyped /\ caps \in BOOLEAN /\ ~misled
  BY MisledLasts DEF ViewInv, ModifiersInv, TrackerTypeOK
<1> QED
  BY <1>1, TextStepKinds, UserKeepsText, ReadKeepsText, ExpanderKeepsText, CorrectorKeepsText, ActKeepsText,
     AsideKeepsText, RestartKeepsText

(* The invariant of the corrector's picture of the text.                   *)
THEOREM TextInvariant ==
  ASSUME MaxAhead = 1, SteadyView
  PROVE  Spec => [](ViewInv /\ Sighted /\ (misled \/ TextInv))
<1> QED
  BY TextInit, TextStep, MisledLasts, SightedInvariant, PTL DEF Spec

(* A word the corrector would act on is what stands before the cursor,     *)
(* whatever keys, edits, failures, calls, reloads and hotplugs came before:*)
(* the premise of every correction (commitWord in correct.go).  A key      *)
(* handled while a rescan had made the tracker forget a held modifier ends *)
(* the promise, here and in the theorems that follow (misled).             *)
ReliableWordIsScreenTail == Settled /\ ~overflow /\ ~suppressed /\ ~misled => IsSuffix(buf, text)

THEOREM ReliableWordOnScreen ==
  ASSUME MaxAhead = 1, SteadyView
  PROVE  Spec => []ReliableWordIsScreenTail
<1>1. misled \/ TextInv => ReliableWordIsScreenTail
  BY DEF TextInv, Picture, PictureOf, Unreliable, ReliableWordIsScreenTail, Settled
<1> QED
  BY <1>1, TextInvariant, PTL

(* A correction covers exactly the word and separator on the screen, both  *)
(* while it waits for Shift to go up and when it is handed to the writer   *)
(* ("Restore must be the exact text covered by Backspaces", output.go).    *)
CorrectionCoversScreen ==
  ~misled =>
    /\ Settled => IsSuffix(pending.plan.restore, text)
    /\ HasPlan /\ ~result.undo => IsSuffix(result.plan.restore, text)

THEOREM CorrectionsCoverScreen ==
  ASSUME MaxAhead = 1, SteadyView
  PROVE  Spec => []CorrectionCoversScreen
<1>1. misled \/ TextInv => CorrectionCoversScreen
  BY DEF TextInv, Picture, PlanPicture, PictureOf, CorrectionCoversScreen, Settled, HasPlan
<1> QED
  BY <1>1, TextInvariant, PTL

(* Where undo is switched off, or types with neither Shift nor AltGr held, *)
(* even an unreliable word is the end of the text (HandleEvent, tryUndo    *)
(* and Invalidate in correct.go).  An undo typed with Shift held shows     *)
(* other characters than the word it puts back in the buffer.              *)
THEOREM BufferOnScreen ==
  ASSUME MaxAhead = 1, SteadyView, UndoShown
  PROVE  Spec => []BufferIsScreenTail
<1>1. misled \/ TextInv => BufferIsScreenTail
  BY DEF TextInv, Picture, PictureOf, Unreliable, UndoShown, UndoUsed, BufferIsScreenTail, Settled
<1> QED
  BY <1>1, TextInvariant, PTL

-----------------------------------------------------------------------------
(* The finality of an undo: who may make a plan, and when.                 *)

WordKeys == {"KEY_Z", "KEY_O", "KEY_BACKSPACE"} \cup ModifierKeys

LEMMA LettersContinueWord ==
  ASSUME NEW key \in {"KEY_Z", "KEY_O"}, NEW mods
  PROVE  /\ ~IsSeparator(key, mods) /\ Char(key, mods) \notin Openers
         /\ key \in DOMAIN AltGr /\ key \in PrintingKeys
<1>1. /\ Chars["KEY_Z"].normal = "z" /\ Chars["KEY_Z"].shifted = "Z"
      /\ Chars["KEY_O"].normal = "o" /\ Chars["KEY_O"].shifted = "O"
      /\ key \in PrintingKeys
  BY DEF Chars, PrintingKeys
<1>2. Char(key, mods) \in {"z", "Z", "o", "O"}
  BY <1>1 DEF Char
<1>3. SeparatorOf(key, mods) = Char(key, mods)
  BY <1>1 DEF SeparatorOf
<1>4. DOMAIN AltGr = {"KEY_Z", "KEY_O"}
  BY DEF AltGr
<1> QED
  BY <1>1, <1>2, <1>3, <1>4, SeparatorTable DEF IsSeparator, Openers

(* A plan is made by an undo, by a word ended while correction is on and   *)
(* no shortcut modifier is held, or was deferred; a correction is deferred *)
(* under Shift or AltGr only, and a word not to be relied on stays so      *)
(* while its letters are typed.                                            *)
PlanMade(mods) ==
  /\ result'.plan # NoPlan =>
       \/ enabled /\ mods \cap ChordModifiers = {} /\ (result'.undo \/ ~suppressed)
       \/ pending # NoPending
  /\ pending' # NoPending => pending' = pending \/ (enabled /\ Deferred(mods) /\ ~suppressed)
  /\ result'.undo => suppressed' = TRUE /\ pending' = NoPending
  /\ result'.toggled => result'.plan = NoPlan /\ suppressed' = TRUE /\ pending' = NoPending

LEMMA NothingPlanned ==
  /\ NoResult.plan = NoPlan /\ NoResult.undo = FALSE /\ NoResult.toggled = FALSE
  /\ \A plan : Correction(plan).undo = FALSE /\ Correction(plan).toggled = FALSE
BY DEF NoResult, Correction

LEMMA CorrectorPlans ==
  ASSUME NEW key, NEW value, NEW mods, NEW capsOn, CorrectorHandleEvent(key, value, mods, capsOn)
  PROVE  PlanMade(mods)
<1> USE DEF PlanMade
<1>1. CASE OutputModifierKey(key, value, mods)
  BY <1>1, NothingPlanned DEF OutputModifierKey
<1>2. CASE IgnoredKey(key, value, mods)
  BY <1>2, NothingPlanned DEF IgnoredKey
<1>3. CASE CapsLockKey(key, value, mods)
  BY <1>3, NothingPlanned DEF CapsLockKey, DropPending
<1>4. CASE ToggleKey(key, value, mods)
  <2>1. result'.plan = NoPlan /\ result'.undo = FALSE
    BY <1>4 DEF ToggleKey, NoResult
  <2> QED
    BY <1>4, <2>1 DEF ToggleKey, Invalidate
<1>5. CASE DisabledKey(key, value, mods)
  BY <1>5, NothingPlanned DEF DisabledKey, DropPending
<1>6. CASE ChordKey(key, value, mods)
  BY <1>6, NothingPlanned DEF ChordKey, Invalidate
<1>7. CASE UndoKey(key, value, mods)
  <2>1. result'.undo = TRUE /\ result'.toggled = FALSE
    BY <1>7 DEF UndoKey
  <2> QED
    BY <1>7, <2>1 DEF UndoKey, DoNotRecorrect, DropPending, Typed, Interpreted, Active
<1>8. CASE BackspaceKey(key, value, mods)
  BY <1>8, NothingPlanned DEF BackspaceKey, DropPending
<1>9. CASE SeparatorKey(key, value, mods)
  <2>1. \A sep : Correctable(sep) => ~suppressed
    BY DEF Correctable, ReliableWord
  <2>2. enabled /\ mods \cap ChordModifiers = {}
    BY <1>9 DEF SeparatorKey, Typed, Interpreted, Active
  <2> QED
    BY <1>9, <2>1, <2>2, NothingPlanned DEF SeparatorKey, DropPending
<1>10. CASE DiacriticKey(key, value, mods, capsOn) \/ LetterKey(key, value, mods, capsOn)
         \/ OpenerKey(key, value, mods) \/ ImpureKey(key, value, mods) \/ UnknownKey(key, value, mods)
  BY <1>10, NothingPlanned DEF DiacriticKey, LetterKey, OpenerKey, ImpureKey, UnknownKey, DropPending
<1> QED
  BY <1>1, <1>2, <1>3, <1>4, <1>5, <1>6, <1>7, <1>8, <1>9, <1>10 DEF CorrectorHandleEvent

LEMMA DistrustLasts ==
  ASSUME NEW key, NEW value, NEW mods, NEW capsOn, CorrectorHandleEvent(key, value, mods, capsOn),
         enabled, suppressed = TRUE, key \in WordKeys \/ value = 0
  PROVE  suppressed' = TRUE
<1>1. CASE OutputModifierKey(key, value, mods)
  BY <1>1 DEF OutputModifierKey
<1>2. CASE IgnoredKey(key, value, mods)
  BY <1>2 DEF IgnoredKey
<1>3. CASE CapsLockKey(key, value, mods)
  BY <1>3 DEF CapsLockKey
<1>4. CASE ToggleKey(key, value, mods)
  BY <1>4 DEF ToggleKey, Invalidate
<1>5. CASE DisabledKey(key, value, mods)
  BY <1>5 DEF DisabledKey, Active
<1>6. CASE ChordKey(key, value, mods)
  BY <1>6 DEF ChordKey, Invalidate
<1>7. CASE UndoKey(key, value, mods)
  BY <1>7 DEF UndoKey, DoNotRecorrect
<1>8. CASE BackspaceKey(key, value, mods)
  BY <1>8 DEF BackspaceKey, DistrustWord
<1>a. Typed(key, value, mods) => key \notin ModifierKeys /\ value # 0
  BY DEF Typed, Interpreted, PlainKey
<1>9. CASE SeparatorKey(key, value, mods)
  <2>1. key \in {"KEY_Z", "KEY_O", "KEY_BACKSPACE"}
    BY <1>9, <1>a DEF SeparatorKey, WordKeys
  <2>2. ~IsSeparator("KEY_BACKSPACE", mods)
    BY SeparatorKeys, KeyKinds DEF ErasingKeys
  <2> QED
    BY <1>9, <2>1, <2>2, LettersContinueWord DEF SeparatorKey
<1>10. CASE DiacriticKey(key, value, mods, capsOn) \/ LetterKey(key, value, mods, capsOn)
         \/ ImpureKey(key, value, mods)
  BY <1>10 DEF DiacriticKey, LetterKey, ImpureKey
<1>11. CASE OpenerKey(key, value, mods)
  <2>1. key \in {"KEY_Z", "KEY_O"} /\ Char(key, mods) \in Openers
    BY <1>11, <1>a DEF OpenerKey, TypedChar, WordKeys
  <2> QED
    BY <2>1, LettersContinueWord
<1>12. CASE UnknownKey(key, value, mods)
  BY <1>12 DEF UnknownKey
<1> QED
  BY <1>1, <1>2, <1>3, <1>4, <1>5, <1>6, <1>7, <1>8, <1>9, <1>10, <1>11, <1>12 DEF CorrectorHandleEvent

(* The user holds Shift and AltGr or shortcut modifiers, not both: a       *)
(* correction deferred under Shift is released without looking at Ctrl.    *)
OneKindHeld ==
  \/ HeldKeys \cap (ShiftKeys \cup AltGrKeys) = {}
  \/ HeldKeys \subseteq ShiftKeys \cup AltGrKeys

(* After an undo and until the word is over: nothing is deferred, and the  *)
(* word is not to be relied on while correction is on.  At the end of an   *)
(* event the word goes on or the loop is about to forget the undo.         *)
Distrusted == pending = NoPending /\ (enabled => suppressed = TRUE)
UndoneInv ==
  /\ pc # "act" /\ undone => Distrusted
  /\ pc = "act" =>
       /\ undone /\ result.plan # NoPlan => result.undo
       /\ undone /\ StillInWord => Distrusted
       /\ result.undo => Distrusted
       /\ result.toggled => pending = NoPending /\ suppressed = TRUE

LEMMA UndoneStep ==
  ASSUME "dbus" \notin Disturbances
  PROVE  NoHotplug /\ UndoneInv /\ [Next]_vars => UndoneInv'
<1> SUFFICES ASSUME NoHotplug, UndoneInv, [Next]_vars PROVE UndoneInv'
  OBVIOUS
<1>a. ASSUME UNCHANGED <<pending, enabled, suppressed, pc, ev, result, undone>> PROVE UndoneInv'
  BY <1>a DEF UndoneInv, Distrusted, StillInWord
<1>1. CASE User
  BY <1>1, <1>a, UserElsewhere DEF Elsewhere, correctorVars, histVars
<1>2. CASE ReadEvent \/ RunExpander \/ ApplyExpansion
  <2>1. UNCHANGED <<pending, enabled, suppressed, undone>> /\ pc # "act" /\ pc' # "act"
    BY <1>2 DEF ReadEvent, RunExpander, ApplyExpansion, correctorVars, histVars
  <2> QED
    BY <2>1 DEF UndoneInv, Distrusted
<1>3. CASE RunCorrector
  <2>1. /\ pc # "act" /\ pc' = "act" /\ undone' = undone /\ ev' = ev /\ enabled' = enabled
        /\ CorrectorHandleEvent(ev.key, ev.value, Held, caps)
    BY <1>3 DEF RunCorrector, histVars, CorrectorHandleEvent, Environs
  <2>2. PlanMade(Held)
    BY <2>1, CorrectorPlans
  <2>3. undone => Distrusted
    BY <2>1 DEF UndoneInv
  <2>4. undone' /\ result'.plan # NoPlan => result'.undo
    BY <2>1, <2>2, <2>3 DEF PlanMade, Distrusted
  <2>5. undone' /\ StillInWord' => Distrusted'
    <3> SUFFICES ASSUME undone', StillInWord' PROVE Distrusted'
      OBVIOUS
    <3>1. Distrusted /\ (ev.key \in WordKeys \/ ev.value = 0)
      BY <2>1, <2>3 DEF StillInWord, WordKeys
    <3>2. pending' = NoPending
      BY <2>2, <3>1 DEF PlanMade, Distrusted
    <3>3. enabled => suppressed' = TRUE
      BY <2>1, <3>1, DistrustLasts DEF Distrusted
    <3> QED
      BY <2>1, <3>2, <3>3 DEF Distrusted
  <2> QED
    BY <2>1, <2>2, <2>4, <2>5 DEF UndoneInv, PlanMade, Distrusted
<1>4. CASE Act
  <2>1. pc = "act" /\ pc' # "act"
    BY <1>4 DEF Act, ActOnExpansion, ActOnToggle, ApplyPlan, FailPlan, HasPlan, ActOnNothing, Finish
  <2>2. CASE ActOnExpansion \/ FailPlan
    BY <2>1, <2>2 DEF ActOnExpansion, FailPlan, AfterExpansion, AfterFailure, Invalidate, UndoneInv, Distrusted
  <2>3. CASE ActOnToggle
    BY <2>1, <2>3 DEF ActOnToggle, UndoneInv, Distrusted
  <2>4. CASE ApplyPlan
    <3>1. UNCHANGED <<pending, enabled, suppressed>> /\ (undone' => result.undo \/ (undone /\ StillInWord))
      BY <2>4 DEF ApplyPlan
    <3> QED
      BY <2>1, <3>1 DEF UndoneInv, Distrusted
  <2>5. CASE ActOnNothing
    <3>1. UNCHANGED <<pending, enabled, suppressed>> /\ (undone' => undone /\ StillInWord)
      BY <2>5 DEF ActOnNothing, Remember
    <3> QED
      BY <2>1, <3>1 DEF UndoneInv, Distrusted
  <2> QED
    BY <1>4, <2>2, <2>3, <2>4, <2>5 DEF Act
<1>5. CASE Aside
  BY <1>5, <1>a DEF Aside, DBusSetEnabled, Disturb, ActiveWindow, SetLookup, Unplug, PlugIn, vars, correctorVars,
                    loopVars, histVars
<1>6. CASE Restarted
  <2>1. \E setup \in Setups : ReloadConfig(setup)
    BY <1>6 DEF Restarted, KeyboardDone, RefreshKeyboards, NoHotplug
  <2>2. /\ pc = "select" /\ pc' = "select" /\ (undone' => undone)
        /\ \/ pending' = NoPending /\ suppressed' = TRUE
           \/ UNCHANGED <<pending, enabled, suppressed>>
    BY <2>1 DEF ReloadConfig, ApplySettings, SetOptions, Invalidate, Remember, loopVars, correctorVars
  <2> QED
    BY <2>2 DEF UndoneInv, Distrusted
<1> QED
  BY <1>1, <1>2, <1>3, <1>4, <1>5, <1>6, TextStepKinds

(* A word the user restored with Backspace is not corrected again, however *)
(* far the user types ahead and whatever is reloaded: the suppression set  *)
(* by the undo (HandleEvent in correct.go) outlives everything but the     *)
(* word.  Hotplug resets it, and D-Bus may switch correction off and on.   *)
THEOREM UndoStaysFinal ==
  ASSUME "dbus" \notin Disturbances, "hotplug" \notin Disturbances
  PROVE  Spec => []UndoIsFinal
<1>1. Init => UndoneInv
  BY DEF Init, UndoneInv
<1>2. ViewInv => NoHotplug
  BY DEF ViewInv, CapsAgree, CapsFollows
<1>3. UndoneInv => UndoIsFinal
  BY DEF UndoneInv, UndoIsFinal, HasPlan
<1>4. SteadyView
  BY DEF SteadyView
<1>5. Spec => []ViewInv
  BY <1>4, ViewInvariant
<1> QED
  BY <1>1, <1>2, <1>3, <1>5, UndoneStep, PTL DEF Spec

-----------------------------------------------------------------------------
(* How long a deferred edit waits.                                         *)

OutputKeys == ShiftKeys \cup AltGrKeys
OutputHeld == Held \cap OutputModifiers # {}

(* While the loop handles the event of Shift or AltGr itself the modifier  *)
(* may be up already and the edit not yet released.                        *)
WaitInv ==
  /\ epending # NoExpansion => OutputHeld \/ (pc = "expander" /\ ev.key \in OutputKeys)
  /\ pending # NoPending =>
       OutputHeld \/ (pc \in {"expander", "expand", "corrector"} /\ ev.key \in OutputKeys)

LEMMA OutputKeyClasses ==
  /\ OutputKeys \subseteq ModifierKeys
  /\ \A k \in ModifierKeys : ModifierClass[k] \in OutputModifiers <=> k \in OutputKeys
BY KeyKinds DEF OutputModifiers, OutputKeys, ShiftKeys, AltGrKeys

LEMMA OtherKeysKeepOutputHeld ==
  ASSUME TrackerTypeOK, NEW d, NEW key, NEW value, Track(d, key, value), key \notin OutputKeys
  PROVE  OutputHeld' = OutputHeld
<1>1. CASE UNCHANGED counts
  BY <1>1 DEF OutputHeld, Held
<1>2. CASE key \in ModifierKeys /\ \E n : Count(ModifierClass[key], n)
  <2>1. PICK n : counts' = [counts EXCEPT ![ModifierClass[key]] = n]
    BY <1>2 DEF Count
  <2>2. ModifierClass[key] \notin OutputModifiers
    BY <1>2, OutputKeyClasses
  <2>3. \A c \in OutputModifiers \cap ModifierClasses : counts'[c] = counts[c]
    BY <2>1, <2>2 DEF TrackerTypeOK
  <2> QED
    BY <2>3 DEF OutputHeld, Held
<1> QED
  BY <1>1, <1>2 DEF Track, Changes

LEMMA ExpansionWaits ==
  ASSUME NEW key, NEW value, NEW mods, NEW capsOn, ExpanderHandleEvent(key, value, mods, capsOn),
         epending # NoExpansion => mods \cap OutputModifiers # {} \/ key \in OutputKeys
  PROVE  epending' # NoExpansion => mods \cap OutputModifiers # {}
<1>1. CASE XShiftKey(key, value, mods) \/ XAltGrKey(key, value, mods)
  BY <1>1 DEF XShiftKey, XAltGrKey, ReleaseExpansion, ExpandNow
<1>2. CASE XChordModifierKey(key, value, mods) \/ XNotAPress(key, value, mods)
  BY <1>2, OutputKeyClasses DEF XChordModifierKey, XNotAPress, ResetExpander, OutputKeys
<1>3. CASE XClear(key, value, mods) \/ XUnmapped(key, value, mods) \/ XBackspace(key, value, mods)
  BY <1>3 DEF XClear, XUnmapped, XBackspace, ResetExpander
<1>4. ASSUME NEW t, NEW extra, NEW other, Expand(t, extra, mods, other)
      PROVE  epending' # NoExpansion => mods \cap OutputModifiers # {}
  BY <1>4 DEF Expand, ExpandNow
<1>5. CASE XSpace(key, value, mods) \/ XPrint(key, value, mods, capsOn)
  BY <1>4, <1>5 DEF XSpace, XPrint
<1> QED
  BY <1>1, <1>2, <1>3, <1>5 DEF ExpanderHandleEvent

LEMMA CorrectionWaits ==
  ASSUME NEW key, NEW value, NEW mods, NEW capsOn, CorrectorHandleEvent(key, value, mods, capsOn),
         pending # NoPending => mods \cap OutputModifiers # {} \/ key \in OutputKeys
  PROVE  pending' # NoPending => mods \cap OutputModifiers # {}
<1>1. CASE key \in OutputKeys
  <2>1. key \in ModifierKeys
    BY <1>1, OutputKeyClasses
  <2>2. OutputModifierKey(key, value, mods)
    BY <1>1, <2>1 DEF CorrectorHandleEvent, IgnoredKey, CapsLockKey, ToggleKey, DisabledKey, ChordKey, UndoKey,
                      BackspaceKey, SeparatorKey, DiacriticKey, LetterKey, OpenerKey, ImpureKey, UnknownKey,
                      TypedChar, Typed, Interpreted, PlainKey, OutputKeys
  <2> QED
    BY <2>2 DEF OutputModifierKey, OutputModifiersUp
<1>2. CASE key \notin OutputKeys
  BY <1>2, CorrectorPlans DEF PlanMade, Deferred
<1> QED
  BY <1>1, <1>2

LEMMA WaitStep == ModifiersInv /\ WaitInv /\ [Next]_vars => WaitInv'
<1> SUFFICES ASSUME ModifiersInv, WaitInv, [Next]_vars PROVE WaitInv'
  OBVIOUS
<1>a. ASSUME UNCHANGED <<pending, epending, pc, ev, counts>> PROVE WaitInv'
  BY <1>a DEF WaitInv, OutputHeld, Held
<1>1. CASE User
  BY <1>1, <1>a, UserElsewhere DEF Elsewhere, correctorVars, expanderVars, trackerVars
<1>2. CASE ReadEvent
  <2> DEFINE e == Head(ch)
  <2>1. CASE e.dev \notin monitored
    BY <1>2, <1>a, <2>1 DEF ReadEvent, correctorVars, expanderVars, trackerVars
  <2>2. CASE e.dev \in monitored
    <3>1. /\ UNCHANGED <<pending, epending>> /\ ev' = e /\ pc' = "expander" /\ pc = "select"
          /\ Track(e.dev, e.key, e.value)
      BY <1>2, <2>2 DEF ReadEvent, correctorVars, expanderVars
    <3> HIDE DEF e
    <3>2. e.key \notin OutputKeys => OutputHeld' = OutputHeld
      BY <3>1, OtherKeysKeepOutputHeld DEF ModifiersInv
    <3> QED
      BY <3>1, <3>2 DEF WaitInv
  <2> QED
    BY <2>1, <2>2
<1>3. CASE RunExpander
  <2>1. /\ pc = "expander" /\ UNCHANGED <<pending, ev, counts>> /\ pc' \in {"expand", "corrector"}
        /\ ExpanderHandleEvent(ev.key, ev.value, Held, caps)
    BY <1>3 DEF RunExpander, correctorVars, trackerVars
  <2>2. epending' # NoExpansion => OutputHeld
    BY <2>1, ExpansionWaits DEF WaitInv, OutputHeld
  <2> QED
    BY <2>1, <2>2 DEF WaitInv, OutputHeld, Held
<1>4. CASE ApplyExpansion
  BY <1>4 DEF ApplyExpansion, WaitInv, OutputHeld, Held, correctorVars, expanderVars, trackerVars
<1>5. CASE RunCorrector
  <2>1. /\ pc = "corrector" /\ UNCHANGED <<epending, counts>>
        /\ CorrectorHandleEvent(ev.key, ev.value, Held, caps)
    BY <1>5 DEF RunCorrector, expanderVars, trackerVars
  <2>2. pending' # NoPending => OutputHeld
    BY <2>1, CorrectionWaits DEF WaitInv, OutputHeld
  <2> QED
    BY <2>1, <2>2 DEF WaitInv, OutputHeld, Held
<1>6. CASE Act
  <2>1. /\ pc = "act" /\ UNCHANGED counts
        /\ pending' \in {pending, NoPending} /\ epending' \in {epending, NoExpansion}
    BY <1>6 DEF Act, ActOnExpansion, ActOnToggle, ApplyPlan, FailPlan, HasPlan, ActOnNothing, Finish, AfterExpansion,
                AfterFailure, AfterCorrection, Invalidate, ResetExpander, trackerVars
  <2> QED
    BY <2>1 DEF WaitInv, OutputHeld, Held
<1>7. CASE Aside
  BY <1>7, <1>a DEF Aside, DBusSetEnabled, ActiveWindow, SetLookup, Unplug, PlugIn, vars, correctorVars,
                    expanderVars, trackerVars, loopVars
<1>8. CASE Restarted
  <2>1. \/ pending' = NoPending /\ epending' = NoExpansion
        \/ pc = "select" /\ pending' \in {pending, NoPending} /\ epending' = epending /\ UNCHANGED counts
    BY <1>8 DEF Restarted, ReloadConfig, Reload, ApplySettings, SetOptions, Invalidate, KeyboardDone,
                RefreshKeyboards, ResetCorrector, ResetExpander, correctorVars, trackerVars
  <2> QED
    BY <2>1 DEF WaitInv, OutputHeld, Held
<1> QED
  BY <1>1, <1>2, <1>3, <1>4, <1>5, <1>6, <1>7, <1>8, TextStepKinds

(* An edit put off because of Shift or AltGr waits for their release and   *)
(* no longer (HandleEvent in correct.go and expander.go): whatever the     *)
(* user types ahead and on however many keyboards, through calls, reloads, *)
(* failing output and rescans.                                             *)
THEOREM DeferredEditsWait == Spec => []DeferredWhileHeld
<1>1. Init => WaitInv
  BY DEF Init, CorrectorInit, ExpanderInit, WaitInv
<1>2. WaitInv => DeferredWhileHeld
  BY DEF WaitInv, DeferredWhileHeld, Settled, OutputHeld
<1> QED
  BY <1>1, <1>2, WaitStep, ModifiersInvariant, PTL DEF Spec

-----------------------------------------------------------------------------
(* What an undo will put back.                                             *)

(* The correction that u takes back ends at the end of t, and original is  *)
(* what taking it back would leave.                                        *)
Bare(t, u) ==
  u # NoUndo => IsSuffix(u.emitted, t) /\ original = CursorBack(t, u.outRunes) \o u.typed

(* The same with the separator that ended the word still there.            *)
Laid(t, u) ==
  u # NoUndo => t # <<>> /\ Last(t) \in Separators /\ Bare(Front(t), u)

(* The undo of a correction belongs to its plan.                           *)
Matches(plan, u) ==
  u # NoUndo => \E sep \in Separators : plan.type = Append(u.emitted, sep) /\ plan.restore = Append(u.typed, sep)

UndoEvent(e, mods) ==
  /\ ~Plain(e.key, e.value) => Laid(text, undo)
  /\ AsText(e.key, e.value, mods) /\ e.key \in ErasingKeys => Bare(text, undo)

UndoPlan ==
  IF result.plan = NoPlan THEN Laid(text, undo)
  ELSE IF result.undo
  THEN /\ undo = NoUndo /\ IsSuffix(result.plan.restore, text)
       /\ original = CursorBack(text, result.plan.backspaces) \o result.plan.type
  ELSE Matches(result.plan, undo)

UndoLaid ==
  /\ Matches(pending.plan, pending.undo)
  /\ pc = "select" /\ ch = <<>> => Laid(text, undo)
  /\ pc = "select" /\ ch # <<>> =>
       /\ UndoEvent(ch[1], PhysicalMods)
       /\ ch[1].dev \notin monitored => undo = NoUndo
  /\ pc = "expander" \/ (pc = "corrector" /\ expansion = NoExpansion) => UndoEvent(ev, Held)
  /\ pc = "act" /\ expansion = NoExpansion => UndoPlan

(* No edit is typed while a shortcut modifier is held, and only an undo    *)
(* while Shift or AltGr is: by the rules of deferral, for a user who holds *)
(* one kind of modifiers.                                                  *)
ClearToType ==
  /\ HeldKeys \cap (ShiftKeys \cup AltGrKeys) = {} => pending = NoPending
  /\ HasPlan => Held \cap ChordModifiers = {} /\ (result.undo \/ Held \cap OutputModifiers = {})

UndoInv == UndoLaid /\ ClearToType

(* A correction is handed over once neither Shift nor AltGr is held.       *)
LEMMA CorrectionClear ==
  ASSUME NEW key, NEW value, NEW mods, NEW capsOn, CorrectorHandleEvent(key, value, mods, capsOn)
  PROVE  result'.plan # NoPlan => result'.undo \/ mods \cap OutputModifiers = {}
<1>a. NoResult.plan = NoPlan
  BY DEF NoResult
<1>1. CASE OutputModifierKey(key, value, mods)
  BY <1>1, <1>a DEF OutputModifierKey, OutputModifiersUp
<1>2. CASE ToggleKey(key, value, mods)
  <2>1. result'.plan = NoPlan
    BY <1>2 DEF ToggleKey, NoResult
  <2> QED
    BY <2>1
<1>3. CASE UndoKey(key, value, mods)
  <2>1. result'.undo = TRUE
    BY <1>3 DEF UndoKey
  <2> QED
    BY <2>1
<1>4. CASE SeparatorKey(key, value, mods)
  BY <1>4, <1>a DEF SeparatorKey, Deferred
<1>5. CASE IgnoredKey(key, value, mods) \/ CapsLockKey(key, value, mods) \/ DisabledKey(key, value, mods)
        \/ ChordKey(key, value, mods) \/ BackspaceKey(key, value, mods)
  BY <1>5, <1>a DEF IgnoredKey, CapsLockKey, DisabledKey, ChordKey, BackspaceKey
<1>6. CASE DiacriticKey(key, value, mods, capsOn) \/ LetterKey(key, value, mods, capsOn)
        \/ OpenerKey(key, value, mods) \/ ImpureKey(key, value, mods) \/ UnknownKey(key, value, mods)
  BY <1>6, <1>a DEF DiacriticKey, LetterKey, OpenerKey, ImpureKey, UnknownKey
<1> QED
  BY <1>1, <1>2, <1>3, <1>4, <1>5, <1>6 DEF CorrectorHandleEvent

LEMMA UndoMatches ==
  /\ Matches(NoPlan, NoUndo)
  /\ \A u : UndoShape(u) /\ Matches(NoPlan, u) => u = NoUndo
  /\ \A t : Laid(t, NoUndo)
<1>1. ASSUME NEW u, UndoShape(u), Matches(NoPlan, u), u # NoUndo PROVE FALSE
  <2>1. PICK sep \in Separators : NoPlan.restore = Append(u.typed, sep)
    BY <1>1 DEF Matches
  <2>2. Append(u.typed, sep) = <<>>
    BY <2>1 DEF NoPlan
  <2>3. IsSequence(u.typed)
    BY <1>1 DEF UndoShape
  <2>4. Append(u.typed, sep) # <<>>
    BY <2>3, FrontAppend
  <2> QED
    BY <2>2, <2>4
<1> QED
  BY <1>1 DEF Matches, Laid

(* What the corrector makes of an event leaves every undo with its plan.   *)
LEMMA OutcomeUndo ==
  ASSUME NEW e, NEW mods, NEW capsOn, Outcome(e.key, e.value, mods, capsOn), Shapes,
         Matches(pending.plan, pending.undo), text' = text, original' = original
  PROVE  Matches(pending.plan, pending.undo)' /\ (UndoEvent(e, mods) => UndoPlan')
<1>a. ASSUME NoPlan = result'.plan, undo' = NoUndo PROVE UndoPlan'
  BY <1>a, UndoMatches DEF UndoPlan, Laid
<1>b. pending' = NoPending => Matches(pending.plan, pending.undo)'
  BY UndoMatches, NothingShapes DEF Matches
<1>1. CASE Ignored(e.key, e.value)
  <2>1. UndoEvent(e, mods) => Laid(text, undo)'
    BY <1>1 DEF Ignored, UndoEvent, Laid, Bare
  <2>2. result'.plan = NoPlan /\ pending' \in {pending, NoPending}
    BY <1>1, NothingShapes DEF Ignored
  <2> QED
    BY <1>b, <2>1, <2>2 DEF UndoPlan, Matches
<1>2. CASE Released(e.key, e.value)
  <2>1. /\ result'.plan = pending.plan /\ result'.undo = FALSE
        /\ undo' = pending.undo /\ pending' = NoPending
    BY <1>2, NothingShapes DEF Released
  <2>2. Matches(result.plan, undo)'
    BY <2>1 DEF Matches
  <2>3. result'.plan = NoPlan => undo' = NoUndo
    BY <2>1, UndoMatches DEF Shapes
  <2> QED
    BY <1>a, <1>b, <2>1, <2>2, <2>3 DEF UndoPlan
<1>3. CASE Forgotten
  BY <1>3, <1>a, <1>b DEF Forgotten
<1>4. CASE TakenBack(e.key, e.value, mods)
  <2> DEFINE plan == result'.plan
  <2>1. /\ plan = [backspaces |-> undo.outRunes, type |-> undo.typed, restore |-> undo.emitted]
        /\ result'.undo = TRUE /\ undo # NoUndo /\ undo' = NoUndo /\ pending' = NoPending
    BY <1>4 DEF TakenBack
  <2>2. UndoEvent(e, mods) => IsSuffix(undo.emitted, text) /\ original = CursorBack(text, undo.outRunes) \o undo.typed
    BY <1>4 DEF TakenBack, UndoEvent, Bare
  <2>3. plan.restore = undo.emitted /\ plan.backspaces = undo.outRunes /\ plan.type = undo.typed
    BY <2>1
  <2> HIDE DEF plan
  <2>4. UndoEvent(e, mods) => IsSuffix(plan.restore, text') /\ original' = CursorBack(text', plan.backspaces) \o plan.type
    BY <2>2, <2>3
  <2> QED
    BY <1>a, <1>b, <2>1, <2>4 DEF plan, UndoPlan
<1>5. CASE Shortened(e.key, e.value, mods) \/ Extended(e.key, e.value, mods, capsOn)
  BY <1>5, <1>a, <1>b, NothingShapes DEF Shortened, Extended
<1>6. CASE Committed(e.key, e.value, mods, capsOn)
  <2> DEFINE sep == Glyph(e.key, mods, capsOn)
  <2>1. /\ Correctable(sep)
        /\ \/ result' = Correction(PlanFor(sep)) /\ undo' = UndoFor /\ pending' = NoPending
           \/ result' = NoResult /\ undo' = NoUndo /\ pending' = [plan |-> PlanFor(sep), undo |-> UndoFor]
    BY <1>6 DEF Committed
  <2>2. sep \in Separators
    BY <2>1 DEF Correctable, CorrectHere, Separators
  <2> HIDE DEF sep
  <2>3. Matches(PlanFor(sep), UndoFor)
    <3>1. UndoFor # NoUndo => UndoFor.typed = buf /\ UndoFor.emitted = Corrected
      BY DEF UndoFor
    <3>2. PlanFor(sep).type = Append(Corrected, sep) /\ PlanFor(sep).restore = Append(buf, sep)
      BY DEF PlanFor
    <3> QED
      BY <2>2, <3>1, <3>2 DEF Matches
  <2> DEFINE plan == PlanFor(sep)
             u == UndoFor
  <2>4. Matches(plan, u) /\ plan # NoPlan
    <3>1. PlanFor(sep).backspaces = Len(buf) + 1 /\ NoPlan.backspaces = 0
      BY DEF PlanFor, NoPlan
    <3>2. Len(buf) \in Nat
      BY SequenceFacts DEF Shapes
    <3>3. plan # NoPlan
      BY <3>1, <3>2
    <3> QED
      BY <2>3, <3>3
  <2> HIDE DEF plan, u
  <2>5. CASE result' = Correction(plan) /\ undo' = u /\ pending' = NoPending
    <3>1. result'.plan = plan /\ result'.undo = FALSE
      BY <2>5, NothingShapes
    <3>2. Matches(result.plan, undo)'
      BY <2>4, <2>5, <3>1 DEF Matches
    <3>3. result'.plan # NoPlan
      BY <2>4, <3>1
    <3> QED
      BY <1>a, <1>b, <2>5, <3>1, <3>2, <3>3 DEF UndoPlan
  <2>6. CASE result' = NoResult /\ undo' = NoUndo /\ pending' = [plan |-> plan, undo |-> u]
    <3>1. pending'.plan = plan /\ pending'.undo = u /\ result'.plan = NoPlan
      BY <2>6, NothingShapes
    <3>2. Matches(pending.plan, pending.undo)'
      BY <2>4, <3>1 DEF Matches
    <3> QED
      BY <1>a, <2>6, <3>1, <3>2
  <2> QED
    BY <2>1, <2>5, <2>6 DEF plan, u
<1> QED
  BY <1>1, <1>2, <1>3, <1>4, <1>5, <1>6 DEF Outcome

(* With nothing held that would change it, an edit shows what it types.    *)
LEMMA PlanTyped ==
  ASSUME SteadyView, ViewInv, Sighted, ~misled, TextInv, ClearToType, ApplyPlan, result.undo => UndoShown
  PROVE  text' = Deleted(result.plan.backspaces) \o result.plan.type
<1>1. HasPlan /\ pc = "act" /\ ch = <<>>
  BY DEF ApplyPlan, HasPlan, TextInv, Phased
<1>2. View /\ led \in BOOLEAN
  BY <1>1, SettledView, SightedWhenEditing DEF ViewSettled, ViewInv, ModifiersInv, KeyboardsTyped
<1>3. UndoUsed \/ ~result.undo
  BY <1>1 DEF TextInv, Picture, PlanPicture, UndoPicture, HasPlan
<1>4. Held \cap OutputModifiers = {} /\ Held \cap ChordModifiers = {}
  BY <1>1, <1>3, HeldClasses DEF ClearToType, UndoShown
<1>5. PhysicalMods \cap OutputModifiers = {} /\ PhysicalMods \cap ChordModifiers = {} /\ caps = led
  BY <1>2, <1>4 DEF View
<1>6. text' = Rewritten(result.plan, Len(result.plan.type))
  BY <1>5 DEF ApplyPlan, Rewrite
<1>7. IsSequence(result.plan.type) /\ Typeable(result.plan.type)
  BY DEF TextInv, Shapes, PlanShape
<1> QED
  BY <1>2, <1>5, <1>6, <1>7, RewrittenText

LEMMA LaidStays ==
  ASSUME UNCHANGED <<text, undo>>, undo' # NoUndo => original' = original
  PROVE  /\ Laid(text, undo) => Laid(text, undo)'
         /\ Bare(text, undo) => Bare(text, undo)'
BY DEF Laid, Bare

LEMMA UserKeepsUndo ==
  ASSUME MaxAhead = 1, ModifiersInv, TextInv, UndoLaid, User
  PROVE  UndoLaid'
<1>a. KeyboardsTyped /\ AwayIsSilent /\ Phased
  BY DEF ModifiersInv, TextInv
<1>1. pc = "select" /\ ch = <<>> /\ Elsewhere /\ ch' # <<>>
  BY <1>a, UserSendsOne
<1>2. PICK e \in KeyEvents : ch' = <<e>> /\ UserShows(e)
  BY <1>a, UserSendsOne
<1>3. ch'[1] = e
  BY <1>2
<1>4. UNCHANGED <<undo, pending, result, original>> /\ pc' = "select" /\ monitored' = monitored
  BY <1>1 DEF Elsewhere, correctorVars, hotplugVars, histVars
<1>5. Laid(text, undo)
  BY <1>1 DEF UndoLaid
<1>6. UndoEvent(e, PhysicalMods)'
  <2>1. ~Plain(e.key, e.value) => Laid(text, undo)'
    BY <1>2, <1>4, <1>5 DEF UserShows, Laid, Bare
  <2>2. ASSUME AsText(e.key, e.value, PhysicalMods'), e.key \in ErasingKeys PROVE Bare(text, undo)'
    <3>1. ShowKey(e.key) /\ PhysicalMods' = PhysicalMods
      BY <1>2, <2>2 DEF UserShows, AsText, PhysicalMods
    <3>2. text' = Erase(text)
      BY <2>2, <3>1 DEF ShowKey, ErasingKeys, AsText, Plain
    <3>3. undo # NoUndo => text' = Front(text) /\ Bare(Front(text), undo)
      BY <1>5, <3>2 DEF Laid, Erase
    <3> QED
      BY <1>4, <3>3 DEF Bare
  <2> QED
    BY <2>1, <2>2 DEF UndoEvent
<1>7. e.dev \in monitored'
  <2>1. PICK d \in Devices, key \in Keys, value \in 0..2 : UserSends(d, key, value)
    BY <1>a, UserMoves
  <2>2. ch' = <<[dev |-> d, key |-> key, value |-> value]>> /\ d \in monitored
    BY <1>1, <2>1 DEF UserSends, Queue
  <2>3. e = [dev |-> d, key |-> key, value |-> value]
    BY <1>3, <2>2
  <2> QED
    BY <1>4, <2>2, <2>3
<1>8. Matches(pending.plan, pending.undo)'
  BY <1>4 DEF UndoLaid, Matches
<1> QED
  BY <1>1, <1>3, <1>4, <1>6, <1>7, <1>8 DEF UndoLaid, UndoEvent

LEMMA ReadKeepsUndo ==
  ASSUME MaxAhead = 1, SteadyView, ViewInv, TextInv, UndoLaid, ReadEvent, ~misled'
  PROVE  UndoLaid'
<1>a. KeyboardsTyped /\ Phased
  BY DEF ViewInv, ModifiersInv, TextInv
<1> DEFINE e == ch[1]
<1>1. pc = "select" /\ ch # <<>> /\ Len(ch) = 1 /\ ch' = <<>> /\ Head(ch) = e
  BY <1>a DEF ReadEvent, Phased, KeyboardsTyped
<1>2. UNCHANGED <<undo, pending, result, original, text, down, monitored>>
  BY DEF ReadEvent, correctorVars, screenVars, hotplugVars, histVars
<1>3. UndoEvent(e, PhysicalMods) /\ (e.dev \notin monitored => undo = NoUndo)
  BY <1>1 DEF UndoLaid
<1>4. \/ e.dev \notin monitored /\ pc' = "select"
      \/ Track(e.dev, e.key, e.value) /\ ev' = e /\ pc' = "expander"
  BY <1>1 DEF ReadEvent
<1>5. Matches(pending.plan, pending.undo)'
  BY <1>2 DEF UndoLaid, Matches
<1> HIDE DEF e
<1>6. CASE e.dev \notin monitored /\ pc' = "select"
  <2>1. Laid(text, undo)'
    BY <1>2, <1>3, <1>6 DEF Laid
  <2> QED
    BY <1>1, <1>5, <1>6, <2>1 DEF UndoLaid
<1>7. CASE Track(e.dev, e.key, e.value) /\ ev' = e /\ pc' = "expander"
  <2>1. AsText(e.key, e.value, Held') => AsText(e.key, e.value, PhysicalMods)
    <3> SUFFICES ASSUME Plain(e.key, e.value), Held' \cap ChordModifiers = {}
                 PROVE  PhysicalMods \cap ChordModifiers = {}
      BY DEF AsText
    <3>1. ViewSettled
      BY <1>1 DEF ViewSettled, MovesView, Plain, e
    <3>4. ~Blinded
      BY <1>1, <1>7, SightedWhenReading
    <3>2. PhysicalMods \subseteq Held
      BY <3>1, <3>4, SettledView DEF View
    <3>3. Held' = Held
      BY <1>7 DEF Track, Changes, Plain, Held
    <3> QED
      BY <3>2, <3>3
  <2>2. /\ ~Plain(e.key, e.value) => Laid(text, undo)'
        /\ AsText(e.key, e.value, Held') /\ e.key \in ErasingKeys => Bare(text, undo)'
    BY <1>2, <1>3, <2>1, LaidStays DEF UndoEvent
  <2>3. UndoEvent(ev, Held)'
    BY <1>7, <2>2 DEF UndoEvent, AsText, Plain
  <2> QED
    BY <1>5, <1>7, <2>3 DEF UndoLaid
<1> QED
  BY <1>4, <1>6, <1>7

LEMMA ExpanderKeepsUndo ==
  ASSUME TextInv, UndoLaid, RunExpander \/ ApplyExpansion
  PROVE  UndoLaid'
<1>1. UNCHANGED <<undo, pending, result, original, pressed, counts, ev>>
  BY DEF RunExpander, ApplyExpansion, correctorVars, trackerVars, histVars
<1>2. Held' = Held /\ Matches(pending.plan, pending.undo)'
  BY <1>1 DEF UndoLaid, Matches, Held
<1>3. CASE RunExpander
  <2>1. pc = "expander" /\ text' = text /\ pc' \in {"expand", "corrector"}
    BY <1>3 DEF RunExpander, screenVars
  <2>2. UndoEvent(ev, Held)
    BY <2>1 DEF UndoLaid
  <2>3. UndoEvent(ev, Held)'
    BY <1>1, <1>2, <2>1, <2>2, LaidStays DEF UndoEvent, Plain, AsText
  <2> QED
    BY <1>2, <2>1, <2>3 DEF UndoLaid
<1>4. CASE ApplyExpansion
  <2>1. pc = "expand" /\ pc' = "corrector" /\ expansion' = expansion
    BY <1>4 DEF ApplyExpansion, expanderVars
  <2>2. expansion' # NoExpansion
    BY <2>1 DEF TextInv, Phased
  <2> QED
    BY <1>2, <2>1, <2>2 DEF UndoLaid
<1> QED
  BY <1>3, <1>4

LEMMA CorrectorKeepsUndo ==
  ASSUME caps \in BOOLEAN, TextInv, UndoLaid, RunCorrector
  PROVE  UndoLaid'
<1>1. /\ pc = "corrector" /\ pc' = "act"
      /\ CorrectorHandleEvent(ev.key, ev.value, Held, caps)
      /\ UNCHANGED <<text, original, expansion>>
  BY DEF RunCorrector, expanderVars, screenVars, histVars
<1>2. Outcome(ev.key, ev.value, Held, caps)
  <2>1. "AltGr" \in Held /\ AsText(ev.key, ev.value, Held) => ev.key \in KnownLevels
    BY <1>1 DEF TextInv, LevelsKnown, KnownKey, AsText
  <2> QED
    BY <1>1, <2>1, CorrectorOutcome
<1>3. Shapes /\ Matches(pending.plan, pending.undo)
  BY DEF TextInv, UndoLaid
<1>6. Matches(pending.plan, pending.undo)'
  BY <1>1, <1>2, <1>3, OutcomeUndo
<1>4. CASE expansion = NoExpansion
  <2>1. UndoEvent(ev, Held)
    BY <1>1, <1>4 DEF UndoLaid
  <2>2. UndoPlan'
    BY <1>1, <1>2, <1>3, <2>1, OutcomeUndo
  <2> QED
    BY <1>1, <1>6, <2>2 DEF UndoLaid
<1>5. CASE expansion # NoExpansion
  BY <1>1, <1>5, <1>6 DEF UndoLaid
<1> QED
  BY <1>4, <1>5

LEMMA ApplyKeepsUndo ==
  ASSUME SteadyView, ViewInv, Sighted, ~misled, TextInv, UndoInv, ApplyPlan
  PROVE  Laid(text, undo)'
<1>1. HasPlan /\ UndoPlan /\ result.plan # NoPlan
  BY DEF UndoInv, UndoLaid, ApplyPlan, HasPlan
<1>2. /\ undo' = undo /\ original' = (IF undo # NoUndo THEN Front(text) ELSE <<>>)
  BY DEF ApplyPlan
<1>3. CASE undo = NoUndo
  BY <1>2, <1>3, UndoMatches DEF Laid
<1>4. CASE undo # NoUndo
  <2>1. ~result.undo /\ Matches(result.plan, undo)
    BY <1>1, <1>4 DEF UndoPlan
  <2>2. PICK sep \in Separators :
          result.plan.type = Append(undo.emitted, sep) /\ result.plan.restore = Append(undo.typed, sep)
    BY <1>4, <2>1 DEF Matches
  <2> DEFINE n == result.plan.backspaces
             q == Deleted(n)
             typed == undo.typed
             emitted == undo.emitted
  <2>3. text' = q \o Append(emitted, sep)
    BY <2>1, <2>2, PlanTyped DEF UndoInv
  <2>4. /\ IsSequence(text) /\ IsSequence(typed) /\ IsSequence(emitted)
        /\ undo.outRunes = Len(emitted) /\ n = Len(Append(typed, sep)) /\ IsSequence(Append(typed, sep))
    BY <2>2 DEF TextInv, Shapes, UndoShape, PlanShape
  <2>5. IsSuffix(Append(typed, sep), text)
    BY <1>1, <2>1, <2>2 DEF TextInv, Picture, PlanPicture, HasPlan
  <2>6. q = CursorBack(text, Len(Append(typed, sep)))
    BY <2>4 DEF Deleted, CursorBack
  <2> HIDE DEF typed, emitted, n, q
  <2>7. IsSequence(q) /\ text = q \o Append(typed, sep)
    BY <2>4, <2>5, <2>6, CursorBackSplits
  <2>8. Front(text) = q \o typed
    BY <2>4, <2>7, ConcatAppend
  <2>9. text' # <<>> /\ Last(text') = sep /\ Front(text') = q \o emitted
    <3>1. Front(q \o Append(emitted, sep)) = q \o emitted
      BY <2>4, <2>7, ConcatAppend
    <3>2. Last(q \o Append(emitted, sep)) = sep
      BY <2>4, <2>7, ConcatAppend
    <3> DEFINE v == q \o emitted
               w == q \o Append(emitted, sep)
    <3>a. w = Append(v, sep) /\ IsSequence(v)
      <4>1. IsSequence(q) /\ IsSequence(emitted)
        BY <2>4, <2>7
      <4>2. IsSequence(v)
        BY <4>1, ConcatIsSequence
      <4>3. w = Append(v, sep)
        BY <4>1, ConcatAppend
      <4> QED
        BY <4>2, <4>3
    <3> HIDE DEF v
    <3>b. Append(v, sep) # <<>>
      BY <3>a, FrontAppend
    <3> HIDE DEF w
    <3>c. w # <<>>
      BY <3>a, <3>b
    <3>3. q \o Append(emitted, sep) # <<>>
      BY <3>c DEF w
    <3> QED
      BY <2>3, <3>1, <3>2, <3>3
  <2>10. IsSuffix(emitted, q \o emitted) /\ CursorBack(q \o emitted, Len(emitted)) = q
    BY <2>4, <2>7, SuffixConcat, CursorBackOver
  <2>11. original' = q \o typed
    BY <1>2, <1>4, <2>8
  <2>12. /\ undo'.emitted = emitted /\ undo'.typed = typed /\ undo'.outRunes = Len(emitted)
    BY <1>2, <2>4 DEF emitted, typed
  <2> QED
    BY <2>9, <2>10, <2>11, <2>12 DEF Laid, Bare
<1> QED
  BY <1>3, <1>4

LEMMA ActKeepsUndo ==
  ASSUME SteadyView, ViewInv, Sighted, ~misled, TextInv, UndoInv, Act
  PROVE  UndoLaid'
<1>1. pc = "act" /\ pc' = "select" /\ ch' = ch /\ ch = <<>>
  BY DEF Act, ActOnExpansion, ActOnToggle, ApplyPlan, HasPlan, FailPlan, ActOnNothing, Finish, TextInv, Phased
<1>2. CASE ActOnExpansion \/ FailPlan
  <2>1. undo' = NoUndo /\ pending' = NoPending
    BY <1>2 DEF ActOnExpansion, FailPlan, AfterExpansion, AfterFailure, Invalidate
  <2> QED
    BY <1>1, <2>1, UndoMatches, NothingShapes DEF UndoLaid, Laid, Matches
<1>3. CASE ActOnToggle \/ ActOnNothing
  <2>1. /\ UNCHANGED <<text, undo, pending>> /\ (undo' # NoUndo => original' = original)
        /\ expansion = NoExpansion /\ (result.toggled \/ result.plan = NoPlan)
    BY <1>3 DEF ActOnToggle, ActOnNothing, Remember
  <2>2. result.plan = NoPlan
    BY <1>1, <2>1 DEF TextInv, Picture, PlanPicture
  <2>3. Laid(text, undo)
    BY <1>1, <2>1, <2>2 DEF UndoInv, UndoLaid, UndoPlan
  <2>4. Laid(text, undo)' /\ Matches(pending.plan, pending.undo)'
    BY <2>1, <2>3, LaidStays DEF UndoInv, UndoLaid, Matches
  <2> QED
    BY <1>1, <2>4 DEF UndoLaid
<1>4. CASE ApplyPlan
  <2>1. pending' = pending
    BY <1>4 DEF ApplyPlan
  <2>2. Laid(text, undo)' /\ Matches(pending.plan, pending.undo)'
    BY <1>4, <2>1, ApplyKeepsUndo DEF UndoInv, UndoLaid, Matches
  <2> QED
    BY <1>1, <2>2 DEF UndoLaid
<1> QED
  BY <1>2, <1>3, <1>4 DEF Act

LEMMA AsideKeepsUndo ==
  ASSUME UndoLaid, Aside
  PROVE  UndoLaid'
<1>1. UNCHANGED <<text, original, undo, pending, result, expansion, pressed, counts, ch, pc, ev, monitored>>
  BY DEF Aside, DBusSetEnabled, ActiveWindow, SetLookup, Unplug, PlugIn, vars, correctorVars, expanderVars,
         trackerVars, screenVars, loopVars, hotplugVars, histVars
<1>2. ch = <<>> \/ down' = down
  BY DEF Aside, DBusSetEnabled, ActiveWindow, SetLookup, Unplug, PlugIn, vars, screenVars
<1>3. Held' = Held /\ (ch # <<>> => PhysicalMods' = PhysicalMods)
  BY <1>1, <1>2 DEF Held, PhysicalMods
<1>4. /\ Laid(text, undo) => Laid(text, undo)'
      /\ Bare(text, undo) => Bare(text, undo)'
  BY <1>1, LaidStays
<1>5. UndoPlan => UndoPlan'
  BY <1>1, <1>4 DEF UndoPlan, Matches
<1>6. pc = "select" /\ ch # <<>> => UndoEvent(ch[1], PhysicalMods)'
  BY <1>1, <1>3, <1>4 DEF UndoLaid, UndoEvent, AsText, Plain
<1>7. pc = "expander" \/ (pc = "corrector" /\ expansion = NoExpansion) => UndoEvent(ev, Held)'
  BY <1>1, <1>3, <1>4 DEF UndoLaid, UndoEvent, AsText, Plain
<1>8. Matches(pending.plan, pending.undo)'
  BY <1>1 DEF UndoLaid, Matches
<1> QED
  BY <1>1, <1>4, <1>5, <1>6, <1>7, <1>8 DEF UndoLaid

LEMMA RestartKeepsUndo ==
  ASSUME UndoLaid, Restarted
  PROVE  UndoLaid'
<1>1. /\ pc = "select" /\ UNCHANGED <<text, down, ch, pc, ev>> /\ (undo' # NoUndo => original' = original)
      /\ \/ UNCHANGED <<undo, pending, monitored>>
         \/ undo' = NoUndo /\ pending' = NoPending
  BY DEF Restarted, ReloadConfig, ApplySettings, SetOptions, Invalidate, KeyboardDone, RefreshKeyboards,
         ResetCorrector, Remember, screenVars, loopVars, correctorVars, hotplugVars
<1>2. PhysicalMods' = PhysicalMods
  BY <1>1 DEF PhysicalMods
<1>3. CASE UNCHANGED <<undo, pending, monitored>>
  <2>1. /\ Laid(text, undo) => Laid(text, undo)'
        /\ Bare(text, undo) => Bare(text, undo)'
    BY <1>1, <1>3, LaidStays
  <2>2. ch # <<>> => UndoEvent(ch[1], PhysicalMods)'
    BY <1>1, <1>2, <2>1 DEF UndoLaid, UndoEvent, AsText, Plain
  <2> QED
    BY <1>1, <1>3, <2>1, <2>2 DEF UndoLaid, Matches
<1>4. CASE undo' = NoUndo /\ pending' = NoPending
  <2>1. Laid(text, undo)' /\ Bare(text, undo)' /\ Matches(pending.plan, pending.undo)'
    BY <1>4, UndoMatches, NothingShapes DEF Laid, Bare, Matches
  <2>2. ch # <<>> => UndoEvent(ch[1], PhysicalMods)'
    BY <2>1 DEF UndoEvent
  <2> QED
    BY <1>1, <1>4, <2>1, <2>2 DEF UndoLaid
<1> QED
  BY <1>1, <1>3, <1>4

LEMMA ClearStep ==
  ASSUME OneKindHeld
  PROVE  ViewInv /\ ClearToType /\ [Next]_vars => ClearToType'
<1> SUFFICES ASSUME ViewInv, ClearToType, [Next]_vars PROVE ClearToType'
  OBVIOUS
<1>a. ASSUME UNCHANGED <<pending, pc, result, expansion, pressed, counts>> PROVE ClearToType'
  BY <1>a DEF ClearToType, HasPlan, Held
<1>1. CASE User
  BY <1>1, <1>a, UserElsewhere DEF Elsewhere, correctorVars, expanderVars, trackerVars
<1>2. CASE ReadEvent \/ RunExpander \/ ApplyExpansion
  <2>1. pending' = pending /\ pc' # "act"
    BY <1>2 DEF ReadEvent, RunExpander, ApplyExpansion, correctorVars
  <2> QED
    BY <2>1 DEF ClearToType, HasPlan
<1>3. CASE RunCorrector
  <2>1. /\ PlanMade(Held) /\ Held' = Held
        /\ result'.plan # NoPlan => result'.undo \/ Held \cap OutputModifiers = {}
    BY <1>3, CorrectorPlans, CorrectionClear DEF RunCorrector, trackerVars, Held
  <2>2. HeldKeys \cap (ShiftKeys \cup AltGrKeys) = {} => ~Deferred(Held)
    BY HeldClasses DEF Deferred
  <2>3. pending # NoPending => Held \cap ChordModifiers = {}
    BY HeldClasses DEF ClearToType, OneKindHeld
  <2>4. result'.plan # NoPlan => Held \cap ChordModifiers = {}
    BY <2>1, <2>3 DEF PlanMade
  <2>5. pending' # NoPending => pending' = pending \/ Deferred(Held)
    BY <2>1 DEF PlanMade
  <2> QED
    BY <2>1, <2>2, <2>4, <2>5 DEF ClearToType, HasPlan
<1>4. CASE Act
  <2>1. pc = "act" /\ pc' # "act" /\ pending' \in {pending, NoPending}
    BY <1>4 DEF Act, ActOnExpansion, ActOnToggle, ApplyPlan, FailPlan, HasPlan, ActOnNothing, Finish,
                AfterExpansion, AfterFailure, Invalidate
  <2> QED
    BY <2>1 DEF ClearToType, HasPlan
<1>5. CASE Aside
  BY <1>5, <1>a DEF Aside, DBusSetEnabled, Disturb, ActiveWindow, SetLookup, Unplug, PlugIn, vars, correctorVars,
                    expanderVars, trackerVars, loopVars
<1>6. CASE Restarted
  <2>1. pc' # "act" /\ pending' \in {pending, NoPending}
    BY <1>6 DEF Restarted, ReloadConfig, ApplySettings, SetOptions, Invalidate, KeyboardDone, RefreshKeyboards,
                ResetCorrector, correctorVars, loopVars
  <2> QED
    BY <2>1 DEF ClearToType, HasPlan
<1> QED
  BY <1>1, <1>2, <1>3, <1>4, <1>5, <1>6, TextStepKinds

LEMMA UndoInvInit == Init => UndoInv
<1> SUFFICES ASSUME Init PROVE UndoInv
  OBVIOUS
<1>1. undo = NoUndo /\ pending = NoPending /\ pc = "select" /\ ch = <<>>
  BY DEF Init, CorrectorInit
<1> QED
  BY <1>1, UndoMatches, NothingShapes DEF UndoInv, UndoLaid, ClearToType, HasPlan

LEMMA UndoInvStep ==
  ASSUME MaxAhead = 1, SteadyView, OneKindHeld
  PROVE  ViewInv /\ Sighted /\ TextInv /\ UndoInv /\ [Next]_vars => misled' \/ UndoInv'
<1> SUFFICES ASSUME ViewInv, Sighted, TextInv, UndoInv, [Next]_vars, ~misled' PROVE UndoInv'
  OBVIOUS
<1>1. ModifiersInv /\ caps \in BOOLEAN /\ UndoLaid /\ ClearToType /\ ~misled
  BY MisledLasts DEF ViewInv, ModifiersInv, TrackerTypeOK, UndoInv
<1>2. UndoLaid'
  BY <1>1, TextStepKinds, UserKeepsUndo, ReadKeepsUndo, ExpanderKeepsUndo, CorrectorKeepsUndo, ActKeepsUndo,
     AsideKeepsUndo, RestartKeepsUndo
<1>3. ClearToType'
  BY <1>1, ClearStep
<1> QED
  BY <1>2, <1>3 DEF UndoInv

LEMMA UndoInvariant ==
  ASSUME MaxAhead = 1, SteadyView, OneKindHeld
  PROVE  Spec => [](ViewInv /\ Sighted /\ (misled \/ (TextInv /\ UndoInv)))
<1> QED
  BY UndoInvInit, UndoInvStep, MisledLasts, TextInvariant, PTL DEF Spec

(* While a correction can be undone, the corrected word and one separator  *)
(* stand directly before the cursor (undoState in correct.go): whatever    *)
(* was deferred, failed, reloaded or unplugged in between, unless a key    *)
(* was handled without a modifier a rescan had forgotten.  A correction    *)
(* released from Shift while Ctrl is held becomes shortcuts instead, so    *)
(* the user holds one kind of modifiers.                                   *)
THEOREM UndoOnScreen ==
  ASSUME MaxAhead = 1, SteadyView, OneKindHeld
  PROVE  Spec => []UndoCoversScreen
<1>1. misled \/ (TextInv /\ UndoInv) => UndoCoversScreen
  BY DEF UndoInv, UndoLaid, Laid, Bare, UndoCoversScreen, Settled
<1> QED
  BY <1>1, UndoInvariant, PTL

LEMMA DisturbancesCounted == Spec => [](disturbances \in Nat)
<1>1. disturbances \in Nat /\ [Next]_vars => (disturbances \in Nat)'
  <2> SUFFICES ASSUME disturbances \in Nat, [Next]_vars PROVE disturbances' \in {disturbances, disturbances + 1}
    OBVIOUS
  <2>1. CASE User
    BY <2>1, UserElsewhere DEF Elsewhere
  <2>2. CASE ReadEvent \/ RunExpander \/ ApplyExpansion \/ RunCorrector
    BY <2>2 DEF ReadEvent, RunExpander, ApplyExpansion, RunCorrector, Disturb
  <2>3. CASE Act
    BY <2>3 DEF Act, ActOnExpansion, ActOnToggle, ApplyPlan, FailPlan, ActOnNothing, Disturb
  <2>4. CASE Aside
    BY <2>4 DEF Aside, DBusSetEnabled, ActiveWindow, SetLookup, Unplug, PlugIn, Disturb, vars
  <2>5. CASE Restarted
    BY <2>5 DEF Restarted, ReloadConfig, KeyboardDone, RefreshKeyboards, Disturb
  <2> QED
    BY <2>1, <2>2, <2>3, <2>4, <2>5, TextStepKinds
<1>2. Init => disturbances \in Nat
  BY DEF Init
<1> QED
  BY <1>1, <1>2, PTL DEF Spec

(* A plan that leaves the loop has been typed, or its output has failed.   *)
LEMMA PlanSteps ==
  ASSUME MaxAhead = 1, ViewInv, TextInv, [Next]_vars, HasPlan, pc' = "select"
  PROVE  ApplyPlan \/ FailPlan
<1>1. pc = "act" /\ expansion = NoExpansion /\ result.plan # NoPlan /\ ~result.toggled
  BY DEF HasPlan, TextInv, Picture, PlanPicture
<1>2. ~User
  <2>1. KeyboardsTyped /\ Phased
    BY DEF ViewInv, ModifiersInv, TextInv
  <2> QED
    BY <1>1, <2>1, UserSendsOne
<1>3. ~ReadEvent /\ ~RunExpander /\ ~ApplyExpansion /\ ~RunCorrector
  BY <1>1 DEF ReadEvent, RunExpander, ApplyExpansion, RunCorrector
<1>4. ~Aside
  BY <1>1 DEF Aside, DBusSetEnabled, ActiveWindow, SetLookup, Unplug, PlugIn, vars, loopVars
<1>5. ~Restarted
  BY <1>1 DEF Restarted, ReloadConfig, KeyboardDone, RefreshKeyboards
<1>6. Act
  BY <1>2, <1>3, <1>4, <1>5, TextStepKinds
<1> QED
  BY <1>1, <1>6 DEF Act, ActOnExpansion, ActOnToggle, ActOnNothing

(* An undo puts back the text the user typed, to the last character        *)
(* (tryUndo and undoState in correct.go), where it is not typed with Shift *)
(* or AltGr held.                                                          *)
THEOREM UndoPutsBack ==
  ASSUME MaxAhead = 1, SteadyView, OneKindHeld, UndoShown
  PROVE  Spec => UndoRestores
<1> DEFINE Restores ==
             HasPlan /\ result.undo /\ pc' = "select" /\ disturbances' = disturbances /\ ~misled =>
               text' = original
<1>1. ViewInv /\ Sighted /\ (misled \/ (TextInv /\ UndoInv)) /\ disturbances \in Nat /\ [Next]_vars
        => [Restores]_vars
  <2> SUFFICES ASSUME ViewInv, Sighted, ~misled, TextInv, UndoInv, disturbances \in Nat, [Next]_vars,
                      HasPlan, result.undo, pc' = "select", disturbances' = disturbances
               PROVE  text' = original
    OBVIOUS
  <2>1. ~FailPlan
    <3>1. FailPlan => disturbances' = disturbances + 1
      BY DEF FailPlan, Disturb
    <3>2. disturbances + 1 # disturbances
      OBVIOUS
    <3> QED
      BY <3>1, <3>2
  <2>2. ApplyPlan
    BY <2>1, PlanSteps
  <2>3. text' = Deleted(result.plan.backspaces) \o result.plan.type
    BY <2>2, PlanTyped DEF UndoInv
  <2>4. original = CursorBack(text, result.plan.backspaces) \o result.plan.type
    BY DEF HasPlan, UndoInv, UndoLaid, UndoPlan
  <2> QED
    BY <2>3, <2>4 DEF Deleted, CursorBack
<1> QED
  BY <1>1, UndoInvariant, DisturbancesCounted, PTL DEF Spec, UndoRestores

-----------------------------------------------------------------------------
(* What an edit shows.                                                     *)

(* Replacements the virtual keyboard has keys for; the others go over the  *)
(* clipboard (Output).                                                     *)
TypeableSetups ==
  \A setup \in Setups : \A i \in DOMAIN setup.expander.matches : Typeable(setup.expander.matches[i].replace)

ClearToExpand ==
  /\ HeldKeys \cap (ShiftKeys \cup AltGrKeys) = {} => epending = NoExpansion
  /\ pc = "expand" => Held \cap (ChordModifiers \cup OutputModifiers) = {}
  /\ Typeable(expansion.match.replace) /\ Typeable(epending.match.replace)
  /\ \A i \in DOMAIN config.matches : Typeable(config.matches[i].replace)

(* An expansion begins with neither a shortcut modifier nor Shift nor      *)
(* AltGr held, or it has waited for the last of them to go up.             *)
LEMMA ExpansionClear ==
  ASSUME NEW key, NEW value, NEW mods, mods \subseteq ModifierClasses, NEW capsOn,
         config.matches \in Seq(Match), ClearToExpand,
         ExpanderHandleEvent(key, value, mods, capsOn)
  PROVE  /\ expansion' # NoExpansion =>
              /\ mods \cap OutputModifiers = {}
              /\ mods \cap ChordModifiers = {} \/ epending # NoExpansion
         /\ epending' # NoExpansion => epending # NoExpansion \/ mods \cap OutputModifiers # {}
         /\ Typeable(expansion'.match.replace) /\ Typeable(epending'.match.replace)
<1>a. Typeable(NoExpansion.match.replace)
  <2>1. NoExpansion.match.replace = <<>>
    BY DEF NoExpansion, NoMatch
  <2> QED
    BY <2>1 DEF Typeable
<1>b. Typeable(expansion.match.replace) /\ Typeable(epending.match.replace)
  BY DEF ClearToExpand
<1>1. ASSUME NEW t, NEW extra, NEW other, Expand(t, extra, mods, other), ~ClearsBuffer(key, mods)
      PROVE  /\ expansion' # NoExpansion => mods \cap OutputModifiers = {} /\ mods \cap ChordModifiers = {}
             /\ epending' # NoExpansion => mods \cap OutputModifiers # {}
             /\ Typeable(expansion'.match.replace) /\ Typeable(epending'.match.replace)
  <2>1. mods \cap ChordModifiers = {}
    BY <1>1 DEF ClearsBuffer, ChordModifiers
  <2>2. CASE Matching(t) = {}
    BY <1>a, <1>1, <2>2 DEF Expand
  <2>3. CASE Matching(t) # {}
    <3> DEFINE m == FirstMatch(t)
               e == [match |-> m, extra |-> extra]
    <3>1. Typeable(m.replace)
      BY <2>3, FirstMatchMatches DEF ClearToExpand
    <3>2. /\ expansion' = (IF ExpandNow(mods) THEN e ELSE NoExpansion)
          /\ epending'  = (IF ExpandNow(mods) THEN NoExpansion ELSE e)
      BY <1>1, <2>3 DEF Expand
    <3>3. e.match.replace = m.replace
      OBVIOUS
    <3> HIDE DEF m, e
    <3> QED
      BY <1>a, <2>1, <3>1, <3>2, <3>3 DEF ExpandNow
  <2> QED
    BY <2>2, <2>3
<1>2. CASE XShiftKey(key, value, mods) \/ XAltGrKey(key, value, mods)
  BY <1>2, <1>a, <1>b DEF XShiftKey, XAltGrKey, ReleaseExpansion, ExpandNow
<1>3. CASE XChordModifierKey(key, value, mods) \/ XNotAPress(key, value, mods)
        \/ XClear(key, value, mods) \/ XUnmapped(key, value, mods) \/ XBackspace(key, value, mods)
  BY <1>3, <1>a, <1>b DEF XChordModifierKey, XNotAPress, XClear, XUnmapped, XBackspace, ResetExpander
<1>4. CASE XSpace(key, value, mods)
  BY <1>4, <1>1 DEF XSpace
<1>5. CASE XPrint(key, value, mods, capsOn)
  <2> DEFINE typed == KeepLast(Append(ebuf, XChar(key, mods, capsOn)), MaxLen(config))
  <2>1. /\ ~ClearsBuffer(key, mods)
        /\ \/ Expand(typed, 0, mods, typed)
           \/ expansion' = NoExpansion /\ epending' = NoExpansion
    BY <1>5 DEF XPrint
  <2> HIDE DEF typed
  <2> QED
    BY <1>a, <1>1, <2>1
<1> QED
  BY <1>2, <1>3, <1>4, <1>5 DEF ExpanderHandleEvent

LEMMA ClearToExpandStep ==
  ASSUME OneKindHeld, TypeableSetups
  PROVE  ViewInv /\ TextInv /\ ClearToExpand /\ [Next]_vars => ClearToExpand'
<1> SUFFICES ASSUME ViewInv, TextInv, ClearToExpand, [Next]_vars PROVE ClearToExpand'
  OBVIOUS
<1>a. /\ config.matches \in Seq(Match) /\ Held \subseteq ModifierClasses
      /\ Typeable(NoExpansion.match.replace)
  <2>1. NoExpansion.match.replace = <<>>
    BY DEF NoExpansion, NoMatch
  <2> QED
    BY <2>1 DEF TextInv, ExpanderShapes, Held, Typeable
<1>b. ASSUME pc' # "expand", UNCHANGED config,
             epending' \in {epending, NoExpansion}, expansion' \in {expansion, NoExpansion}
      PROVE  ClearToExpand'
  BY <1>a, <1>b DEF ClearToExpand
<1>1. CASE User
  <2>1. Elsewhere
    BY <1>1, UserElsewhere
  <2>2. UNCHANGED <<config, epending, expansion, pc, pressed, counts>>
    BY <2>1 DEF Elsewhere, expanderVars, trackerVars
  <2> QED
    BY <2>2 DEF ClearToExpand, Held
<1>2. CASE ReadEvent \/ ApplyExpansion \/ RunCorrector
  <2>1. pc' # "expand" /\ UNCHANGED <<config, epending, expansion>>
    BY <1>2 DEF ReadEvent, ApplyExpansion, RunCorrector, expanderVars
  <2> QED
    BY <1>b, <2>1
<1>3. CASE RunExpander
  <2>1. /\ ExpanderHandleEvent(ev.key, ev.value, Held, caps) /\ UNCHANGED <<config, pressed, counts>>
        /\ pc' = "expand" => expansion' # NoExpansion
    BY <1>3 DEF RunExpander, ExpanderHandleEvent, trackerVars
  <2>2. Held' = Held
    BY <2>1 DEF Held
  <2>3. /\ expansion' # NoExpansion =>
             /\ Held \cap OutputModifiers = {}
             /\ Held \cap ChordModifiers = {} \/ epending # NoExpansion
        /\ epending' # NoExpansion => epending # NoExpansion \/ Held \cap OutputModifiers # {}
        /\ Typeable(expansion'.match.replace) /\ Typeable(epending'.match.replace)
    BY <1>a, <2>1, ExpansionClear
  <2>4. epending # NoExpansion => Held \cap ChordModifiers = {}
    BY HeldClasses DEF ClearToExpand, OneKindHeld
  <2>5. pc' = "expand" => Held' \cap (ChordModifiers \cup OutputModifiers) = {}
    BY <2>1, <2>2, <2>3, <2>4
  <2>6. HeldKeys \cap (ShiftKeys \cup AltGrKeys) = {} => epending' = NoExpansion
    BY <2>3, HeldClasses DEF ClearToExpand
  <2> QED
    BY <2>1, <2>3, <2>5, <2>6 DEF ClearToExpand
<1>4. CASE Act
  <2>1. pc' # "expand" /\ UNCHANGED config /\ epending' \in {epending, NoExpansion} /\ expansion' = NoExpansion
    BY <1>4 DEF Act, ActOnExpansion, ActOnToggle, ApplyPlan, FailPlan, ActOnNothing, Finish, AfterCorrection,
                ResetExpander
  <2> QED
    BY <1>b, <2>1
<1>5. CASE Aside
  <2>1. UNCHANGED <<config, epending, expansion, pc, pressed, counts>>
    BY <1>5 DEF Aside, DBusSetEnabled, ActiveWindow, SetLookup, Unplug, PlugIn, vars, expanderVars, trackerVars,
                loopVars
  <2> QED
    BY <2>1 DEF ClearToExpand, Held
<1>6. CASE Restarted
  <2>1. ASSUME NEW setup \in Setups, ReloadConfig(setup) PROVE ClearToExpand'
    <3>1. pc' # "expand" /\ config' = setup.expander /\ UNCHANGED <<epending, expansion>>
      BY <2>1 DEF ReloadConfig, Reload, loopVars
    <3>2. \A i \in DOMAIN config'.matches : Typeable(config'.matches[i].replace)
      BY <3>1 DEF TypeableSetups
    <3> QED
      BY <3>1, <3>2 DEF ClearToExpand
  <2>2. CASE (\E d \in Devices : KeyboardDone(d)) \/ RefreshKeyboards
    <3>1. pc' # "expand" /\ UNCHANGED <<config, expansion>> /\ epending' = NoExpansion
      BY <2>2 DEF KeyboardDone, RefreshKeyboards, ResetExpander, loopVars
    <3> QED
      BY <1>b, <3>1
  <2> QED
    BY <1>6, <2>1, <2>2 DEF Restarted
<1> QED
  BY <1>1, <1>2, <1>3, <1>4, <1>5, <1>6, TextStepKinds

LEMMA ClearToExpandInit ==
  ASSUME TypeableSetups
  PROVE  Init => ClearToExpand
<1> SUFFICES ASSUME Init PROVE ClearToExpand
  OBVIOUS
<1>1. PICK setup \in Setups : config = setup.expander
  BY DEF Init, ExpanderInit
<1>2. epending = NoExpansion /\ expansion = NoExpansion /\ pc = "select"
  BY DEF Init, ExpanderInit
<1>3. NoExpansion.match.replace = <<>>
  BY DEF NoExpansion, NoMatch
<1>4. Typeable(<<>>)
  BY DEF Typeable
<1> QED
  BY <1>1, <1>2, <1>3, <1>4 DEF ClearToExpand, TypeableSetups

(* A successful edit shows exactly the text it was asked to type, whatever *)
(* Caps Lock is and whichever modifiers the user holds (Apply and          *)
(* Uinput.Type in output.go, the deferral in correct.go and expander.go).  *)
THEOREM EditsAppear ==
  ASSUME MaxAhead = 1, SteadyView, OneKindHeld, UndoShown, TypeableSetups
  PROVE  Spec => EditAppears
<1> DEFINE Appears ==
             disturbances' = disturbances /\ ~misled =>
               /\ HasPlan /\ pc' = "select" => text' = Deleted(result.plan.backspaces) \o result.plan.type
               /\ pc = "expand" /\ pc' = "corrector" =>
                    LET edit == ExpansionEdit(expansion) IN
                    text' = CursorBack(Deleted(edit.backspaces) \o edit.type, expansion.match.back)
<1>0. misled => Appears
  OBVIOUS
<1>1. ViewInv /\ Sighted /\ ~misled /\ TextInv /\ UndoInv /\ ClearToExpand /\ disturbances \in Nat /\ [Next]_vars
        => Appears
  <2> SUFFICES ASSUME ViewInv, Sighted, ~misled, TextInv, UndoInv, ClearToExpand, disturbances \in Nat, [Next]_vars,
                      disturbances' = disturbances
               PROVE  Appears
    OBVIOUS
  <2>a. disturbances' # disturbances + 1
    OBVIOUS
  <2>1. ASSUME HasPlan, pc' = "select" PROVE text' = Deleted(result.plan.backspaces) \o result.plan.type
    <3>1. ApplyPlan
      BY <2>1, <2>a, PlanSteps DEF FailPlan, Disturb
    <3> QED
      BY <3>1, PlanTyped DEF UndoInv
  <2>2. ASSUME pc = "expand", pc' = "corrector"
        PROVE  LET edit == ExpansionEdit(expansion) IN
               text' = CursorBack(Deleted(edit.backspaces) \o edit.type, expansion.match.back)
    <3> DEFINE edit == ExpansionEdit(expansion)
               n == expansion.match.back
    <3>1. ch = <<>>
      BY <2>2 DEF TextInv, Phased
    <3>2. View /\ led \in BOOLEAN
      BY <2>2, <3>1, SettledView, SightedWhenEditing DEF ViewSettled, ViewInv, ModifiersInv, KeyboardsTyped
    <3>3. PhysicalMods \cap OutputModifiers = {} /\ PhysicalMods \cap ChordModifiers = {} /\ caps = led
      BY <2>2, <3>2 DEF View, ClearToExpand
    <3>4. ApplyExpansion
      <4>1. ~User /\ ~ReadEvent /\ ~RunExpander /\ ~RunCorrector /\ ~Act
        BY <2>2 DEF ReadEvent, RunExpander, RunCorrector, Act, ActOnExpansion, ActOnToggle, ApplyPlan, HasPlan,
                    FailPlan, ActOnNothing, User, PressModifier, ReleaseModifier, PressKey, RepeatKey, ReleaseKey,
                    Elsewhere
      <4>2. ~Aside /\ ~Restarted
        BY <2>2 DEF Aside, DBusSetEnabled, ActiveWindow, SetLookup, Unplug, PlugIn, vars, loopVars,
                    Restarted, ReloadConfig, KeyboardDone, RefreshKeyboards
      <4> QED
        BY <4>1, <4>2, TextStepKinds
    <3>5. \E t \in {Rewritten(edit, Len(edit.type))} \cup ChordEffects :
            Rewrite(edit, t) /\ text' = CursorBack(t, n)
      BY <3>4, <2>a DEF ApplyExpansion, Disturb
    <3>6. edit.type = expansion.match.replace /\ IsSequence(edit.type) /\ Typeable(edit.type)
      <4>1. expansion.match \in Match
        BY DEF TextInv, ExpanderShapes, Expansions
      <4>2. IsSequence(expansion.match.replace)
        BY <4>1, TypedIsSequence DEF Match
      <4> QED
        BY <4>2 DEF ExpansionEdit, ClearToExpand
    <3> HIDE DEF edit, n
    <3>7. text' = CursorBack(Rewritten(edit, Len(edit.type)), n)
      BY <3>3, <3>5 DEF Rewrite
    <3>8. Rewritten(edit, Len(edit.type)) = Deleted(edit.backspaces) \o edit.type
      BY <3>2, <3>3, <3>6, RewrittenText
    <3>9. text' = CursorBack(Deleted(edit.backspaces) \o edit.type, n)
      BY <3>7, <3>8
    <3> QED
      BY <3>9 DEF edit, n
  <2> QED
    BY <2>1, <2>2
<1> QED
  BY <1>0, <1>1, UndoInvariant, DisturbancesCounted, ClearToExpandInit, ClearToExpandStep, MisledLasts, PTL
     DEF Spec, EditAppears

-----------------------------------------------------------------------------
(* Whole words: what precedes the word the corrector would rewrite.        *)

(* What a word may follow, the word at the end of t that follows it, and a  *)
(* text that ends in the separator of a finished word.                     *)
Bounded(t) == t = <<>> \/ Last(t) \in Separators \cup Openers
Whole(word, t) == Bounded(CursorBack(t, Len(word)))
EndsWord(t) == t # <<>> /\ Last(t) \in Separators

(* A word the corrector may still rewrite, now or once Shift goes up.      *)
Ready == enabled /\ ~suppressed /\ ~overflow
WordKept(t) ==
  /\ Ready => Whole(buf, t)
  /\ pending # NoPending => Whole(pending.plan.restore, t)

(* While an event is on its way the text is one key ahead of the buffer.   *)
WordEvent(e, mods) ==
  /\ ~Plain(e.key, e.value) => WordKept(text)
  /\ AsText(e.key, e.value, mods) /\ Ready =>
       IF e.key \in ErasingKeys THEN buf # <<>> => Whole(Front(buf), text) ELSE Whole(buf, Front(text))

(* What the corrector made of the event.                                   *)
WordPlan ==
  /\ result.toggled => suppressed = TRUE
  /\ result.plan = NoPlan => WordKept(text)
  /\ result.plan # NoPlan /\ ~result.undo => Whole(result.plan.restore, text) /\ EndsWord(result.plan.type)

(* The inductive invariant behind WholeWord, by where the loop is.         *)
WordInv ==
  /\ pending # NoPending => EndsWord(pending.plan.type)
  /\ pc = "select" /\ ch = <<>> => WordKept(text)
  /\ pc = "select" /\ ch # <<>> => WordEvent(ch[1], PhysicalMods)
  /\ pc = "expander" \/ (pc = "corrector" /\ expansion = NoExpansion) => WordEvent(ev, Held)
  /\ pc = "act" /\ expansion = NoExpansion => WordPlan

(* How a whole word grows, shrinks and begins.                             *)
LEMMA WholeGrows ==
  ASSUME NEW t, IsSequence(t), t # <<>>, NEW word, IsSequence(word), Whole(word, Front(t)), NEW c
  PROVE  Whole(Append(word, c), t)
<1> DEFINE f == Front(t)
           l == Last(t)
           n == Len(word)
<1>1. IsSequence(f) /\ t = Append(f, l) /\ n \in Nat
  BY FrontIsSequence, AppendFront, SequenceFacts
<1>2. Len(Append(word, c)) = n + 1
  BY AppendIsSequence
<1>3. Bounded(CursorBack(f, n))
  BY DEF Whole
<1> HIDE DEF f, l, n
<1>4. CursorBack(t, n + 1) = CursorBack(f, n)
  BY <1>1, CursorBackAppend
<1> QED
  BY <1>2, <1>3, <1>4 DEF Whole

LEMMA WholeShrinks ==
  ASSUME NEW t, IsSequence(t), NEW word, IsSequence(word), word # <<>>, Whole(word, t)
  PROVE  Whole(Front(word), Erase(t))
<1> DEFINE w == Front(word)
           n == Len(w)
<1>1. /\ IsSequence(w) /\ Len(word) = n + 1 /\ n \in Nat
  <2>1. IsSequence(w) /\ word = Append(w, Last(word))
    BY FrontIsSequence, AppendFront
  <2>2. Len(Append(w, Last(word))) = Len(w) + 1
    BY <2>1, AppendIsSequence
  <2> QED
    BY <2>1, <2>2, SequenceFacts
<1>2. CASE t = <<>>
  <2>1. Erase(t) = <<>>
    BY <1>2 DEF Erase
  <2>2. CursorBack(<<>>, n) = <<>>
    BY <1>1, CursorBackInNothing
  <2> QED
    BY <2>1, <2>2 DEF Whole, Bounded
<1>3. CASE t # <<>>
  <2> DEFINE f == Front(t)
             l == Last(t)
  <2>1. IsSequence(f) /\ t = Append(f, l) /\ Erase(t) = f
    BY <1>3, FrontIsSequence, AppendFront DEF Erase
  <2> HIDE DEF f, l, n
  <2>2. CursorBack(t, n + 1) = CursorBack(f, n)
    BY <1>1, <2>1, CursorBackAppend
  <2> QED
    BY <1>1, <2>1, <2>2 DEF Whole, n
<1> QED
  BY <1>2, <1>3

LEMMA WholeNothing ==
  ASSUME NEW t, IsSequence(t), Bounded(t)
  PROVE  Whole(<<>>, t)
<1>1. Len(<<>>) = 0
  OBVIOUS
<1> QED
  BY <1>1, CursorBackNothing DEF Whole

(* What the corrector makes of an event: the word it keeps is whole, and   *)
(* so is every word a plan rewrites.                                       *)
LEMMA HandledWord ==
  ASSUME NEW e, NEW mods, NEW capsOn \in BOOLEAN, CorrectorHandleEvent(e.key, e.value, mods, capsOn),
         KnownKey(e, mods), EventPicture(e, mods, capsOn), WordEvent(e, mods), Shapes, text' = text,
         pending # NoPending => EndsWord(pending.plan.type)
  PROVE  WordPlan' /\ (pending' # NoPending => EndsWord(pending'.plan.type))
<1> DEFINE key == e.key
           value == e.value
           c == Glyph(key, mods, capsOn)
<1>a. /\ IsSequence(text) /\ IsSequence(buf) /\ enabled' = enabled
      /\ NoResult.plan = NoPlan /\ NoResult.toggled = FALSE /\ NoResult.undo = FALSE
  BY NothingPlanned DEF Shapes, CorrectorHandleEvent, Environs
<1>b. ASSUME pending' = NoPending, result'.plan = NoPlan, result'.toggled => suppressed' = TRUE,
             Ready' => Whole(buf', text)
      PROVE  WordPlan' /\ (pending' # NoPending => EndsWord(pending'.plan.type))
  BY <1>b DEF WordPlan, WordKept, Ready, Whole, Bounded
<1>c. ASSUME ~Plain(key, value), UNCHANGED <<buf, overflow, suppressed>>, pending' \in {pending, NoPending},
             result' = NoResult
      PROVE  WordPlan' /\ (pending' # NoPending => EndsWord(pending'.plan.type))
  <2>1. WordKept(text)
    BY <1>c DEF WordEvent
  <2>2. WordKept(text)'
    BY <1>a, <1>c, <2>1 DEF WordKept, Ready, Whole, Bounded
  <2> QED
    BY <1>a, <1>c, <2>2 DEF WordPlan
<1>d. Typed(key, value, mods) => AsText(key, value, mods) /\ enabled
  BY DEF Typed, Interpreted, PlainKey, Active, AsText, Plain
<1>e. AsText(key, value, mods) /\ Printing(key) => text # <<>> /\ Last(text) = c
  BY DEF EventPicture, AsText, OneKeyAhead, Printing
<1>f. AsText(key, value, mods) /\ Printing(key) /\ c \in Separators \cup Openers => Whole(<<>>, text)
  BY <1>a, <1>e, WholeNothing DEF Bounded
<1>g. AsText(key, value, mods) /\ Printing(key) /\ Ready => Whole(Append(buf, c), text)
  <2>1. AsText(key, value, mods) /\ Printing(key) /\ Ready => Whole(buf, Front(text))
    BY DEF WordEvent, Printing
  <2> QED
    BY <1>a, <1>e, <2>1, WholeGrows
<1>1. CASE OutputModifierKey(key, value, mods)
  <2>1. ~Plain(key, value) /\ UNCHANGED <<buf, overflow, suppressed>>
    BY <1>1, KeyKinds DEF OutputModifierKey, Plain, KeepWord
  <2>2. CASE pending # NoPending /\ OutputModifiersUp(mods)
    <3>1. result' = Correction(pending.plan) /\ pending' = NoPending
      BY <1>1, <2>2 DEF OutputModifierKey
    <3>2. result'.plan = pending.plan /\ result'.undo = FALSE /\ result'.toggled = FALSE
      BY <3>1 DEF Correction
    <3>3. Whole(pending.plan.restore, text) /\ EndsWord(pending.plan.type)
      BY <2>1, <2>2 DEF WordEvent, WordKept
    <3>4. result'.plan # NoPlan
      <4>1. pending.plan.type # <<>> /\ NoPlan.type = <<>>
        BY <3>3 DEF EndsWord, NoPlan
      <4> QED
        BY <3>2, <4>1
    <3>5. Whole(result'.plan.restore, text') /\ EndsWord(result'.plan.type)
      BY <3>2, <3>3
    <3> QED
      BY <3>1, <3>2, <3>4, <3>5 DEF WordPlan, Whole, EndsWord, Bounded
  <2>3. CASE ~(pending # NoPending /\ OutputModifiersUp(mods))
    <3>1. result' = NoResult /\ pending' = pending
      BY <1>1, <2>3 DEF OutputModifierKey
    <3> QED
      BY <1>c, <2>1, <3>1
  <2> QED
    BY <2>2, <2>3
<1>2. CASE IgnoredKey(key, value, mods) \/ CapsLockKey(key, value, mods)
  <2>1. ~Plain(key, value) /\ UNCHANGED <<buf, overflow, suppressed>> /\ result' = NoResult
        /\ pending' \in {pending, NoPending}
    BY <1>2 DEF IgnoredKey, CapsLockKey, Plain, KeepWord, DropPending
  <2> QED
    BY <1>c, <2>1
<1>3. CASE ToggleKey(key, value, mods)
  <2>1. result'.plan = NoPlan /\ suppressed' = TRUE /\ pending' = NoPending
    BY <1>3 DEF ToggleKey, Invalidate, NoResult
  <2> QED
    BY <1>b, <2>1 DEF Ready
<1>4. CASE DisabledKey(key, value, mods)
  <2>1. result' = NoResult /\ pending' = NoPending /\ ~enabled
    BY <1>4 DEF DisabledKey, DropPending, Active
  <2> QED
    BY <1>a, <1>b, <2>1 DEF Ready
<1>5. CASE ChordKey(key, value, mods)
  <2>1. result' = NoResult /\ pending' = NoPending /\ suppressed' = TRUE
    BY <1>5 DEF ChordKey, Invalidate
  <2> QED
    BY <1>a, <1>b, <2>1 DEF Ready
<1>6. CASE UndoKey(key, value, mods)
  <2>1. result'.undo = TRUE /\ result'.toggled = FALSE
    BY <1>6 DEF UndoKey
  <2>2. suppressed' = TRUE /\ pending' = NoPending
    BY <1>6 DEF UndoKey, DoNotRecorrect, DropPending
  <2> QED
    BY <2>1, <2>2 DEF WordPlan, WordKept, Ready
<1>7. CASE BackspaceKey(key, value, mods)
  <2>1. /\ result' = NoResult /\ pending' = NoPending /\ AsText(key, value, mods) /\ key \in ErasingKeys
        /\ IF buf # <<>> THEN buf' = Front(buf) /\ UNCHANGED suppressed ELSE suppressed' = TRUE
        /\ UNCHANGED overflow
    BY <1>7, <1>d DEF BackspaceKey, DistrustWord, DropPending, ErasingKeys
  <2>2. CASE buf = <<>>
    BY <1>a, <1>b, <2>1, <2>2 DEF Ready
  <2>3. CASE buf # <<>>
    <3>1. Ready' => Ready
      BY <1>a, <2>1, <2>3 DEF Ready
    <3>2. Ready' => Whole(Front(buf), text)
      BY <2>1, <2>3, <3>1 DEF WordEvent
    <3> QED
      BY <1>a, <1>b, <2>1, <2>3, <3>2
  <2> QED
    BY <2>2, <2>3
<1>8. CASE SeparatorKey(key, value, mods)
  <2>1. /\ AsText(key, value, mods) /\ enabled /\ IsSeparator(key, mods)
        /\ Printing(key)
    BY <1>8, <1>d, SeparatorKeys, KeyKinds DEF SeparatorKey, Printing
  <2>a. "AltGr" \in mods => key \in KnownLevels
    BY <2>1 DEF KnownKey, AsText
  <2>b. c = SeparatorOf(key, mods)
    BY <2>1, <2>a, GlyphIsSeparator
  <2>2. c = SeparatorOf(key, mods) /\ c \in Separators
    BY <2>1, <2>b DEF IsSeparator
  <2>3. Whole(<<>>, text)
    BY <1>f, <2>1, <2>2
  <2>4. buf' = <<>> /\ suppressed' = FALSE
    BY <1>8 DEF SeparatorKey, ClearWord
  <2>5. CASE ~Correctable(c)
    <3>1. result' = NoResult /\ pending' = NoPending
      BY <1>8, <2>2, <2>5 DEF SeparatorKey, DropPending
    <3> QED
      BY <1>a, <1>b, <2>3, <2>4, <3>1
  <2>6. CASE Correctable(c)
    <3> DEFINE plan == PlanFor(c)
    <3>1. \/ result' = Correction(plan) /\ pending' = NoPending
          \/ result' = NoResult /\ pending' = [plan |-> plan, undo |-> UndoFor]
      BY <1>8, <2>2, <2>6 DEF SeparatorKey, DropPending
    <3>2. Ready
      BY <2>1, <2>6 DEF Correctable, ReliableWord, Ready
    <3>3. plan.restore = Append(buf, c) /\ plan.type = Append(Corrected, c)
      BY DEF PlanFor
    <3>4. Whole(plan.restore, text)
      BY <1>g, <2>1, <3>2, <3>3
    <3>5. EndsWord(plan.type)
      <4>1. IsSequence(Corrected)
        BY <1>a, <2>6, CorrectedIsSequence
      <4> QED
        BY <2>2, <3>3, <4>1, FrontAppend DEF EndsWord
    <3>6. plan # NoPlan
      <4>1. plan.type # <<>> /\ NoPlan.type = <<>>
        BY <3>5 DEF EndsWord, NoPlan
      <4> QED
        BY <4>1
    <3> HIDE DEF plan, c
    <3>7. CASE result' = Correction(plan) /\ pending' = NoPending
      <4>1. result'.plan = plan /\ result'.toggled = FALSE
        BY <3>7 DEF Correction
      <4>2. Whole(result'.plan.restore, text') /\ EndsWord(result'.plan.type)
        BY <3>4, <3>5, <4>1
      <4> QED
        BY <3>6, <3>7, <4>1, <4>2 DEF WordPlan, Whole, EndsWord, Bounded
    <3>8. CASE result' = NoResult /\ pending' = [plan |-> plan, undo |-> UndoFor]
      <4>1. pending'.plan = plan /\ result'.plan = NoPlan /\ result'.toggled = FALSE
        BY <1>a, <3>8
      <4>2. Whole(pending'.plan.restore, text') /\ EndsWord(pending'.plan.type) /\ Whole(buf', text')
        BY <2>3, <2>4, <3>4, <3>5, <4>1
      <4>3. WordKept(text)'
        BY <4>2 DEF WordKept, Whole, Bounded
      <4> QED
        BY <4>1, <4>2, <4>3 DEF WordPlan
    <3> QED
      BY <3>1, <3>7, <3>8
  <2> QED
    BY <2>5, <2>6
<1>9. ASSUME NEW pure, TypedChar(key, value, mods), AppendRune(c, pure), Printing(key),
             result' = NoResult, pending' = NoPending, UNCHANGED suppressed
      PROVE  WordPlan' /\ (pending' # NoPending => EndsWord(pending'.plan.type))
  <2>1. AsText(key, value, mods)
    BY <1>9, <1>d DEF TypedChar
  <2>2. overflow' = TRUE \/ (buf' = Append(buf, c) /\ UNCHANGED overflow)
    BY <1>9 DEF AppendRune, MarkOverflow
  <2> HIDE DEF c
  <2>3. Ready' => Ready /\ buf' = Append(buf, c)
    BY <1>9, <1>a, <2>2 DEF Ready
  <2>4. Ready' => Whole(buf', text)
    BY <1>9, <1>g, <2>1, <2>3
  <2> QED
    BY <1>9, <1>a, <1>b, <2>4
<1>10. CASE DiacriticKey(key, value, mods, capsOn)
  <2>1. /\ TypedChar(key, value, mods) /\ key \in DOMAIN AltGr /\ "AltGr" \in mods
        /\ AppendRune(IF ("Shift" \in mods) # capsOn THEN Upper(AltGr[key]) ELSE AltGr[key], TRUE)
        /\ UNCHANGED suppressed /\ pending' = NoPending /\ result' = NoResult
    BY <1>10 DEF DiacriticKey, DropPending
  <2>a. c = IF ("Shift" \in mods) # capsOn THEN Upper(AltGr[key]) ELSE AltGr[key]
    BY <2>1, GlyphIsDiacritic
  <2>2. AppendRune(c, TRUE) /\ Printing(key)
    BY <2>1, <2>a, KeyKinds DEF Printing
  <2> QED
    BY <1>9, <2>1, <2>2
<1>11. CASE LetterKey(key, value, mods, capsOn)
  <2>1. /\ TypedChar(key, value, mods) /\ key \in PrintingKeys /\ "AltGr" \notin mods /\ Char(key, mods) \in Letters
        /\ AppendRune(IF ("Shift" \in mods) # capsOn THEN Upper(Char(key, mods)) ELSE Lower(Char(key, mods)), TRUE)
        /\ UNCHANGED suppressed /\ pending' = NoPending /\ result' = NoResult
    BY <1>11 DEF LetterKey, DropPending
  <2>2. AppendRune(c, TRUE) /\ Printing(key)
    BY <2>1, GlyphIsChar, KeyKinds DEF Printing
  <2> QED
    BY <1>9, <2>1, <2>2
<1>12. CASE ImpureKey(key, value, mods)
  <2>1. /\ TypedChar(key, value, mods) /\ key \in PrintingKeys /\ "AltGr" \notin mods
        /\ Char(key, mods) \notin Letters
        /\ AppendRune(Char(key, mods), FALSE)
        /\ UNCHANGED suppressed /\ pending' = NoPending /\ result' = NoResult
    BY <1>12 DEF ImpureKey, DropPending
  <2>2. AppendRune(c, FALSE) /\ Printing(key)
    BY <2>1, GlyphIsChar, KeyKinds DEF Printing
  <2> QED
    BY <1>9, <2>1, <2>2
<1>13. CASE OpenerKey(key, value, mods)
  <2>1. /\ TypedChar(key, value, mods) /\ key \in PrintingKeys /\ "AltGr" \notin mods
        /\ Char(key, mods) \in Openers /\ buf' = <<>> /\ pending' = NoPending /\ result' = NoResult
    BY <1>13 DEF OpenerKey, ClearWord, DropPending
  <2>2. AsText(key, value, mods) /\ Printing(key)
    BY <1>d, <2>1, KeyKinds DEF TypedChar, Printing
  <2>3. Openers \cap Letters = {}
    BY LetterTable DEF Openers, Letters
  <2>4. c = Char(key, mods)
    BY <2>1, <2>3, GlyphIsChar
  <2>5. Whole(<<>>, text)
    BY <1>f, <2>1, <2>2, <2>4
  <2> QED
    BY <1>a, <1>b, <2>1, <2>5
<1>14. CASE UnknownKey(key, value, mods)
  <2>1. result' = NoResult /\ pending' = NoPending /\ suppressed' = TRUE
    BY <1>14 DEF UnknownKey, DropPending
  <2> QED
    BY <1>a, <1>b, <2>1 DEF Ready
<1> QED
  BY <1>1, <1>2, <1>3, <1>4, <1>5, <1>6, <1>7, <1>8, <1>10, <1>11, <1>12, <1>13, <1>14 DEF CorrectorHandleEvent

LEMMA WordKeptStays ==
  ASSUME UNCHANGED <<text, buf, overflow, pending>>, Ready' => Ready
  PROVE  WordKept(text) => WordKept(text)'
BY DEF WordKept, Whole, Bounded

LEMMA WordForgotten ==
  ASSUME suppressed' = TRUE, pending' = NoPending
  PROVE  WordKept(text)' /\ \A e, mods : WordEvent(e, mods)'
BY DEF WordKept, WordEvent, Ready

LEMMA UserKeepsWord ==
  ASSUME MaxAhead = 1, ModifiersInv, TextInv, WordInv, User
  PROVE  WordInv'
<1>a. KeyboardsTyped /\ Phased /\ IsSequence(text) /\ IsSequence(buf)
  BY DEF ModifiersInv, TextInv, Shapes
<1>1. pc = "select" /\ ch = <<>> /\ Elsewhere /\ ch' # <<>>
  BY <1>a, UserSendsOne
<1>2. PICK e \in KeyEvents : ch' = <<e>> /\ UserShows(e)
  BY <1>a, UserSendsOne
<1>3. ch'[1] = e
  BY <1>2
<1>4. UNCHANGED <<enabled, buf, overflow, suppressed, pending>> /\ pc' = "select"
  BY <1>1 DEF Elsewhere, correctorVars
<1>5. WordKept(text) /\ (Ready' => Ready)
  BY <1>1, <1>4 DEF WordInv, Ready
<1>6. ~Plain(e.key, e.value) => WordKept(text)'
  BY <1>2, <1>4, <1>5, WordKeptStays DEF UserShows
<1>7. ASSUME AsText(e.key, e.value, PhysicalMods'), Ready'
      PROVE  IF e.key \in ErasingKeys THEN buf # <<>> => Whole(Front(buf), text') ELSE Whole(buf, Front(text'))
  <2>1. ShowKey(e.key) /\ PhysicalMods' = PhysicalMods
    BY <1>2, <1>7 DEF UserShows, AsText, PhysicalMods
  <2>2. Whole(buf, text)
    BY <1>5, <1>7 DEF WordKept
  <2>3. CASE e.key \in ErasingKeys
    <3>1. text' = Erase(text)
      BY <1>7, <2>1, <2>3 DEF ShowKey, ErasingKeys, AsText, Plain
    <3>2. buf # <<>> => Whole(Front(buf), Erase(text))
      BY <1>a, <2>2, WholeShrinks
    <3> QED
      BY <2>3, <3>1, <3>2
  <2>4. CASE e.key \notin ErasingKeys
    <3> DEFINE c == Glyph(e.key, PhysicalMods, led)
    <3>1. text' = Append(text, c)
      BY <1>7, <2>1, <2>4 DEF ShowKey, ErasingKeys, AsText, Plain
    <3> HIDE DEF c
    <3>2. Front(text') = text
      BY <1>a, <3>1, FrontAppend
    <3> QED
      BY <2>2, <2>4, <3>2
  <2> QED
    BY <2>3, <2>4
<1>8. WordEvent(e, PhysicalMods)'
  BY <1>4, <1>6, <1>7 DEF WordEvent, Whole, Bounded
<1> QED
  BY <1>1, <1>3, <1>4, <1>8 DEF WordInv, WordEvent

LEMMA ReadKeepsWord ==
  ASSUME NoHotplug, SteadyView, ViewInv, TextInv, WordInv, ReadEvent
  PROVE  WordInv'
<1>a. KeyboardsTyped /\ Phased
  BY DEF ViewInv, ModifiersInv, TextInv
<1> DEFINE e == ch[1]
<1>1. pc = "select" /\ ch # <<>> /\ Len(ch) = 1 /\ Head(ch) = e
  BY <1>a DEF ReadEvent, Phased, KeyboardsTyped
<1>2. UNCHANGED <<enabled, buf, overflow, suppressed, pending, text, down>>
  BY DEF ReadEvent, correctorVars, screenVars
<1>3. WordEvent(e, PhysicalMods)
  BY <1>1 DEF WordInv
<1>4. e.dev \in monitored
  <2>1. e \in KeyEvents
    BY <1>a, <1>1 DEF KeyboardsTyped
  <2> QED
    BY <2>1 DEF KeyEvents, NoHotplug
<1>5. Track(e.dev, e.key, e.value) /\ ev' = e /\ pc' = "expander"
  BY <1>1, <1>4 DEF ReadEvent
<1>8. Plain(e.key, e.value) => ViewSettled
  BY <1>1 DEF ViewSettled, MovesView, Plain, e
<1> HIDE DEF e
<1>6. AsText(e.key, e.value, Held') => AsText(e.key, e.value, PhysicalMods)
  <2> SUFFICES ASSUME Plain(e.key, e.value), Held' \cap ChordModifiers = {}
               PROVE  PhysicalMods \cap ChordModifiers = {}
    BY DEF AsText
  <2>1. PhysicalMods \subseteq Held
    BY <1>8, SettledView DEF View, NoHotplug
  <2>2. Held' = Held
    BY <1>5 DEF Track, Changes, Plain, Held
  <2> QED
    BY <2>1, <2>2
<1>7. WordEvent(ev, Held)'
  BY <1>2, <1>3, <1>5, <1>6, WordKeptStays DEF WordEvent, Ready, Whole, Bounded, AsText, Plain
<1> QED
  BY <1>2, <1>5, <1>7 DEF WordInv, EndsWord

LEMMA ExpanderKeepsWord ==
  ASSUME TextInv, WordInv, RunExpander \/ ApplyExpansion
  PROVE  WordInv'
<1>1. UNCHANGED <<enabled, buf, overflow, suppressed, pending, pressed, counts, ev>> /\ Held' = Held
  BY DEF RunExpander, ApplyExpansion, correctorVars, trackerVars, Held
<1>2. pending' # NoPending => EndsWord(pending'.plan.type)
  BY <1>1 DEF WordInv
<1>3. CASE RunExpander
  <2>1. pc = "expander" /\ text' = text /\ pc' \in {"expand", "corrector"}
    BY <1>3 DEF RunExpander, screenVars
  <2>2. WordEvent(ev, Held)
    BY <2>1 DEF WordInv
  <2>3. WordEvent(ev, Held)'
    BY <1>1, <2>1, <2>2, WordKeptStays DEF WordEvent, Ready, Whole, Bounded, AsText, Plain
  <2> QED
    BY <1>2, <2>1, <2>3 DEF WordInv, EndsWord
<1>4. CASE ApplyExpansion
  <2>1. pc = "expand" /\ pc' = "corrector" /\ expansion' = expansion
    BY <1>4 DEF ApplyExpansion, expanderVars
  <2>2. expansion' # NoExpansion
    BY <2>1 DEF TextInv, Phased
  <2> QED
    BY <1>2, <2>1, <2>2 DEF WordInv, EndsWord
<1> QED
  BY <1>3, <1>4

(* A correction ends with the separator that ended the word.               *)
LEMMA PlansEndWords ==
  ASSUME NEW c, Correctable(c), IsSequence(buf)
  PROVE  EndsWord(PlanFor(c).type)
<1>1. IsSequence(Corrected) /\ c \in Separators
  BY CorrectedIsSequence DEF Correctable, CorrectHere, Separators
<1>2. PlanFor(c).type = Append(Corrected, c)
  BY DEF PlanFor
<1> DEFINE w == Corrected
<1>3. IsSequence(w)
  BY <1>1
<1> HIDE DEF w
<1>4. Append(w, c) # <<>> /\ Last(Append(w, c)) = c
  BY <1>3, FrontAppend
<1>5. PlanFor(c).type = Append(w, c)
  BY <1>2 DEF w
<1> QED
  BY <1>1, <1>4, <1>5 DEF EndsWord

LEMMA CorrectorKeepsWord ==
  ASSUME caps \in BOOLEAN, TextInv, WordInv, RunCorrector
  PROVE  WordInv'
<1>1. /\ pc = "corrector" /\ pc' = "act"
      /\ CorrectorHandleEvent(ev.key, ev.value, Held, caps)
      /\ UNCHANGED <<text, expansion>>
  BY DEF RunCorrector, expanderVars, screenVars
<1>2. /\ Shapes /\ KnownKey(ev, Held)
      /\ pending # NoPending => EndsWord(pending.plan.type)
  BY <1>1 DEF TextInv, LevelsKnown, WordInv
<1>3. CASE expansion = NoExpansion
  <2>1. WordEvent(ev, Held) /\ EventPicture(ev, Held, caps)
    BY <1>1, <1>3 DEF WordInv, TextInv, Picture
  <2>2. WordPlan' /\ (pending' # NoPending => EndsWord(pending'.plan.type))
    BY <1>1, <1>2, <2>1, HandledWord
  <2> QED
    BY <1>1, <2>2 DEF WordInv, EndsWord
<1>4. CASE expansion # NoExpansion
  <2>1. Outcome(ev.key, ev.value, Held, caps)
    <3>1. "AltGr" \in Held /\ AsText(ev.key, ev.value, Held) => ev.key \in KnownLevels
      BY <1>2 DEF KnownKey, AsText
    <3> QED
      BY <1>1, <3>1, CorrectorOutcome
  <2>2. \/ pending' \in {pending, NoPending}
        \/ \E c : Correctable(c) /\ pending'.plan = PlanFor(c)
    BY <2>1 DEF Outcome, Ignored, Released, Forgotten, TakenBack, Shortened, Extended, Committed
  <2>3. pending' # NoPending => EndsWord(pending'.plan.type)
    BY <1>2, <2>2, PlansEndWords DEF Shapes
  <2> QED
    BY <1>1, <1>4, <2>3 DEF WordInv, EndsWord
<1> QED
  BY <1>3, <1>4

LEMMA ApplyKeepsWord ==
  ASSUME SteadyView, ViewInv, Sighted, ~misled, TextInv, ClearToType, WordInv, ApplyPlan
  PROVE  WordKept(text)'
<1>1. HasPlan /\ WordPlan /\ PlanPicture /\ UNCHANGED <<enabled, buf, overflow, suppressed, pending>>
  BY DEF ApplyPlan, HasPlan, WordInv, TextInv, Picture
<1>2. CASE result.undo
  BY <1>1, <1>2, WordForgotten DEF PlanPicture, UndoPicture, HasPlan
<1>3. CASE ~result.undo
  <2> DEFINE n == result.plan.backspaces
             q == Deleted(n)
             type == result.plan.type
             sep == Last(type)
             w == Front(type)
  <2>1. IsSequence(q) /\ IsSequence(type) /\ type # <<>> /\ sep \in Separators /\ Wiped
    <3>1. IsSequence(text) /\ n \in Nat /\ IsSequence(type)
      BY SequenceFacts DEF TextInv, Shapes, PlanShape
    <3> QED
      BY <1>1, <1>3, <3>1, DeletedIsSequence DEF WordPlan, EndsWord, HasPlan, PlanPicture
  <2>2. text' = q \o type
    BY <1>3, PlanTyped
  <2>3. type = Append(w, sep) /\ IsSequence(w)
    BY <2>1, AppendFront, FrontIsSequence
  <2> HIDE DEF q, sep, w
  <2>4. q \o Append(w, sep) = Append(q \o w, sep)
    BY <2>1, <2>3, ConcatAppend
  <2> DEFINE u == q \o w
  <2>5. IsSequence(u)
    BY <2>1, <2>3, ConcatIsSequence
  <2>6. text' = Append(u, sep)
    BY <2>2, <2>3, <2>4
  <2> HIDE DEF u, type
  <2> DEFINE t == Append(u, sep)
  <2>7. IsSequence(t) /\ Last(t) = sep
    BY <2>5, FrontAppend, AppendIsSequence
  <2> HIDE DEF t
  <2>8. Whole(<<>>, t)
    BY <2>1, <2>7, WholeNothing DEF Bounded
  <2>9. text' = t /\ buf' = <<>> /\ pending' = NoPending
    BY <1>1, <2>1, <2>6 DEF Wiped, t
  <2> QED
    BY <2>8, <2>9 DEF WordKept, Whole, Bounded
<1> QED
  BY <1>2, <1>3

LEMMA ActKeepsWord ==
  ASSUME SteadyView, ViewInv, Sighted, ~misled, TextInv, ClearToType, WordInv, Act
  PROVE  WordInv'
<1>1. pc = "act" /\ pc' = "select" /\ ch' = <<>>
  BY DEF Act, ActOnExpansion, ActOnToggle, ApplyPlan, HasPlan, FailPlan, ActOnNothing, Finish, TextInv, Phased
<1>2. pending' \in {pending, NoPending}
  BY DEF Act, ActOnExpansion, ActOnToggle, ApplyPlan, FailPlan, ActOnNothing, AfterExpansion, AfterFailure,
         Invalidate
<1>3. pending' # NoPending => EndsWord(pending'.plan.type)
  BY <1>2 DEF WordInv
<1>4. WordKept(text)'
  <2>1. CASE ActOnExpansion \/ FailPlan
    BY <2>1, WordForgotten DEF ActOnExpansion, FailPlan, AfterExpansion, AfterFailure, Invalidate
  <2>2. CASE ActOnToggle \/ ActOnNothing
    <3>1. /\ UNCHANGED <<text, buf, overflow, suppressed, pending>> /\ expansion = NoExpansion
          /\ (result.toggled \/ (enabled' = enabled /\ result.plan = NoPlan))
      BY <2>2 DEF ActOnToggle, ActOnNothing
    <3>2. WordPlan /\ (result.toggled => result.plan = NoPlan)
      BY <1>1, <3>1 DEF WordInv, TextInv, Picture, PlanPicture
    <3>3. WordKept(text) /\ (Ready' => Ready)
      BY <3>1, <3>2 DEF WordPlan, Ready
    <3> QED
      BY <3>1, <3>3, WordKeptStays
  <2>3. CASE ApplyPlan
    BY <2>3, ApplyKeepsWord
  <2> QED
    BY <2>1, <2>2, <2>3 DEF Act
<1> QED
  BY <1>1, <1>3, <1>4 DEF WordInv, EndsWord

LEMMA AsideKeepsWord ==
  ASSUME "dbus" \notin Disturbances, "hotplug" \notin Disturbances, WordInv, Aside
  PROVE  WordInv'
<1>1. UNCHANGED <<text, enabled, buf, overflow, suppressed, pending, result, expansion, pressed, counts, down,
                  ch, pc, ev>>
  BY DEF Aside, DBusSetEnabled, Disturb, ActiveWindow, SetLookup, Unplug, PlugIn, vars, correctorVars,
         expanderVars, trackerVars, screenVars, loopVars
<1>2. Held' = Held /\ PhysicalMods' = PhysicalMods /\ Ready' = Ready
  BY <1>1 DEF Held, PhysicalMods, Ready
<1>3. WordKept(text) => WordKept(text)'
  BY <1>1, <1>2, WordKeptStays
<1>4. WordPlan => WordPlan'
  BY <1>1, <1>3 DEF WordPlan, Whole, Bounded, EndsWord
<1>5. WordEvent(ev, Held) => WordEvent(ev, Held)'
  BY <1>1, <1>2, <1>3 DEF WordEvent, Whole, Bounded, AsText, Plain
<1>6. WordEvent(ch[1], PhysicalMods) => WordEvent(ch[1], PhysicalMods)'
  BY <1>1, <1>2, <1>3 DEF WordEvent, Whole, Bounded, AsText, Plain
<1> QED
  BY <1>1, <1>3, <1>4, <1>5, <1>6 DEF WordInv, EndsWord

LEMMA RestartKeepsWord ==
  ASSUME NoHotplug, WordInv, Restarted
  PROVE  WordInv'
<1>1. \E setup \in Setups : ReloadConfig(setup)
  BY DEF Restarted, KeyboardDone, RefreshKeyboards, NoHotplug
<1>2. /\ pc = "select" /\ UNCHANGED <<text, down, ch, pc, ev>>
      /\ \/ UNCHANGED <<enabled, buf, overflow, suppressed, pending>>
         \/ suppressed' = TRUE /\ pending' = NoPending
  BY <1>1 DEF ReloadConfig, ApplySettings, SetOptions, Invalidate, screenVars, loopVars, correctorVars
<1>3. CASE UNCHANGED <<enabled, buf, overflow, suppressed, pending>>
  <2>1. PhysicalMods' = PhysicalMods /\ Ready' = Ready
    BY <1>2, <1>3 DEF PhysicalMods, Ready
  <2>2. WordKept(text) => WordKept(text)'
    BY <1>2, <1>3, <2>1, WordKeptStays
  <2>3. WordEvent(ch[1], PhysicalMods) => WordEvent(ch[1], PhysicalMods)'
    BY <1>2, <1>3, <2>1, <2>2 DEF WordEvent, Whole, Bounded, AsText, Plain
  <2> QED
    BY <1>2, <1>3, <2>2, <2>3 DEF WordInv, EndsWord
<1>4. CASE suppressed' = TRUE /\ pending' = NoPending
  BY <1>2, <1>4, WordForgotten DEF WordInv
<1> QED
  BY <1>2, <1>3, <1>4

LEMMA WordInvInit == Init => WordInv
<1> SUFFICES ASSUME Init PROVE WordInv
  OBVIOUS
<1>1. buf = <<>> /\ text = <<>> /\ pending = NoPending /\ pc = "select" /\ ch = <<>>
  BY DEF Init, CorrectorInit
<1>2. Whole(<<>>, <<>>)
  BY EmptyIsSequence, WholeNothing DEF Bounded
<1> QED
  BY <1>1, <1>2 DEF WordInv, WordKept, Ready

LEMMA WordInvStep ==
  ASSUME MaxAhead = 1, "dbus" \notin Disturbances, "hotplug" \notin Disturbances
  PROVE  NoHotplug /\ ViewInv /\ Sighted /\ TextInv /\ UndoInv /\ WordInv /\ [Next]_vars => WordInv'
<1> SUFFICES ASSUME NoHotplug, ViewInv, Sighted, TextInv, UndoInv, WordInv, [Next]_vars PROVE WordInv'
  OBVIOUS
<1>1. ModifiersInv /\ caps \in BOOLEAN /\ ClearToType /\ SteadyView /\ ~misled
  BY DEF ViewInv, ModifiersInv, TrackerTypeOK, UndoInv, SteadyView, NoHotplug
<1> QED
  BY <1>1, TextStepKinds, UserKeepsWord, ReadKeepsWord, ExpanderKeepsWord, CorrectorKeepsWord, ActKeepsWord,
     AsideKeepsWord, RestartKeepsWord

(* A correction rewrites whole words only: before the word it replaces     *)
(* stands a separator, an opener or nothing, so the end of a longer word   *)
(* is never taken for a word (the meaning of suppressed in correct.go),    *)
(* whatever failed or was expanded, erased, reloaded or undone before.     *)
(* D-Bus can switch correction on in the middle of a word, a hotplug       *)
(* starts afresh in the middle of one, and a correction released under     *)
(* Ctrl is a row of shortcuts: those three are excluded.                   *)
THEOREM WholeWordsOnly ==
  ASSUME MaxAhead = 1, OneKindHeld, "dbus" \notin Disturbances, "hotplug" \notin Disturbances
  PROVE  Spec => []WholeWord
<1>1. SteadyView
  BY DEF SteadyView
<1>2. ViewInv => NoHotplug
  BY DEF ViewInv, CapsAgree, CapsFollows
<1>3. TextInv /\ WordInv => WholeWord
  <2> SUFFICES ASSUME TextInv, WordInv, HasPlan, ~result.undo
               PROVE  Bounded(Deleted(result.plan.backspaces))
    BY DEF WholeWord, Bounded
  <2>1. Whole(result.plan.restore, text) /\ result.plan.backspaces = Len(result.plan.restore)
    BY DEF WordInv, WordPlan, HasPlan, TextInv, Shapes, PlanShape
  <2> QED
    BY <2>1 DEF Whole, Deleted, CursorBack
<1>4. Spec => [](ViewInv /\ Sighted /\ (misled \/ (TextInv /\ UndoInv)))
  BY <1>1, UndoInvariant
<1>5. NoHotplug => ~misled
  BY DEF NoHotplug
<1> QED
  BY <1>2, <1>3, <1>4, <1>5, WordInvInit, WordInvStep, PTL DEF Spec

-----------------------------------------------------------------------------
(* The expander's picture, for keys it understands: autorepeat and the     *)
(* keypad print characters it never sees.                                  *)

PlainTyping == RepeatKeys = {} /\ "KEY_KP1" \notin TypedKeys

Legible(e) == e.value \in {0, 1} /\ e.key \in Keys \ {"KEY_KP1"}
AllLegible ==
  /\ ch # <<>> => Legible(ch[1])
  /\ pc # "select" => Legible(ev)

(* While a replacement is deferred nothing has been typed after it.        *)
DeferredAlone == epending # NoExpansion => ebuf = <<>>

Covers(e, t) == IsSuffix(ExpansionEdit(e).restore, t)
TypedPicture(t) == IsSuffix(ebuf, t) /\ Covers(epending, t)
TypedEventPicture(e, mods, capsOn) ==
  IF ~Plain(e.key, e.value) THEN TypedPicture(text) ELSE OneKeyAhead(ebuf, e.key, mods, capsOn)
TypedWiped == ebuf = <<>> /\ epending = NoExpansion

ExpanderPicture ==
  /\ pc = "select" /\ ch = <<>> => TypedPicture(text)
  /\ pc = "select" /\ ch # <<>> =>
       /\ TypedEventPicture(ch[1], PhysicalMods, led)
       /\ ch[1].dev \notin monitored => TypedWiped
  /\ pc = "expander" => TypedEventPicture(ev, Held, caps)
  /\ pc = "expand" => TypedWiped /\ Covers(expansion, text)
  /\ pc \in {"corrector", "act"} =>
       IF expansion = NoExpansion THEN TypedPicture(text) ELSE TypedWiped

ExpanderInv == AllLegible /\ DeferredAlone /\ ExpanderPicture

LEMMA OneAppended ==
  ASSUME NEW s, IsSequence(s), NEW e
  PROVE  s \o [i \in 1..1 |-> e] = Append(s, e)
<1> DEFINE P == Range(s) \cup {e}
<1>1. s \in Seq(P) /\ e \in P
  <2>1. s \in Seq(Range(s)) /\ Range(s) \subseteq P
    BY DEF IsSequence
  <2> QED
    BY <2>1
<1>2. [i \in 1..1 |-> e] = <<e>>
  OBVIOUS
<1> HIDE DEF P
<1>3. s \o <<e>> = Append(s, e)
  BY <1>1
<1> QED
  BY <1>2, <1>3

LEMMA NothingCovered ==
  ASSUME NEW t, IsSequence(t)
  PROVE  Covers(NoExpansion, t)
<1> DEFINE spaces == [i \in 1..0 |-> " "]
<1>1. ExpansionEdit(NoExpansion).restore = <<>> \o spaces
  BY DEF ExpansionEdit, NoExpansion, NoMatch
<1>2. spaces = <<>>
  OBVIOUS
<1>3. <<>> \o <<>> = <<>>
  OBVIOUS
<1> HIDE DEF spaces
<1>4. ExpansionEdit(NoExpansion).restore = <<>>
  BY <1>1, <1>2, <1>3
<1> QED
  BY <1>4, SuffixEmpty DEF Covers

LEMMA TypedWipedPicture ==
  ASSUME NEW t, IsSequence(t), TypedWiped
  PROVE  TypedPicture(t)
BY SuffixEmpty, NothingCovered DEF TypedWiped, TypedPicture

(* What a trigger covers: itself, and the space that set it off.           *)
LEMMA CoversTrigger ==
  ASSUME NEW m \in Match, NEW s, IsSequence(s), IsSequence(text), IsSuffix(m.trigger, s)
  PROVE  /\ IsSuffix(s, text) => Covers([match |-> m, extra |-> 0], text)
         /\ text # <<>> /\ Last(text) = " " /\ IsSuffix(s, Front(text))
              => Covers([match |-> m, extra |-> 1], text)
<1>1. IsSequence(m.trigger)
  <2>1. m.trigger \in Seq(Runes)
    BY DEF Match
  <2> QED
    BY <2>1, TypedIsSequence
<1>2. ExpansionEdit([match |-> m, extra |-> 0]).restore = m.trigger
  <2> DEFINE spaces == [i \in 1..0 |-> " "]
  <2>1. ExpansionEdit([match |-> m, extra |-> 0]).restore = m.trigger \o spaces
    BY DEF ExpansionEdit
  <2>2. spaces = <<>>
    OBVIOUS
  <2>3. m.trigger \in Seq(Runes)
    BY DEF Match
  <2>4. m.trigger \o <<>> = m.trigger
    BY <2>3
  <2> HIDE DEF spaces
  <2> QED
    BY <2>1, <2>2, <2>4
<1>3. ExpansionEdit([match |-> m, extra |-> 1]).restore = Append(m.trigger, " ")
  <2> DEFINE spaces == [i \in 1..1 |-> " "]
  <2>1. ExpansionEdit([match |-> m, extra |-> 1]).restore = m.trigger \o spaces
    BY DEF ExpansionEdit
  <2>2. m.trigger \o spaces = Append(m.trigger, " ")
    BY <1>1, OneAppended
  <2> QED
    BY <2>1, <2>2
<1>4. ASSUME IsSuffix(s, text) PROVE Covers([match |-> m, extra |-> 0], text)
  BY <1>1, <1>2, <1>4, SuffixTransitive DEF Covers
<1>5. ASSUME text # <<>>, Last(text) = " ", IsSuffix(s, Front(text))
      PROVE  Covers([match |-> m, extra |-> 1], text)
  <2>1. text = Append(Front(text), " ") /\ IsSequence(Front(text))
    BY <1>5, AppendFront, FrontIsSequence
  <2>2. IsSuffix(m.trigger, Front(text))
    BY <1>1, <1>5, <2>1, SuffixTransitive
  <2> DEFINE f == Front(text)
  <2>3. IsSequence(f) /\ IsSuffix(m.trigger, f) /\ text = Append(f, " ")
    BY <2>1, <2>2
  <2> HIDE DEF f
  <2>4. IsSuffix(Append(m.trigger, " "), text)
    BY <1>1, <2>3, SuffixAppend
  <2> QED
    BY <1>3, <2>4 DEF Covers
<1> QED
  BY <1>4, <1>5

LEMMA AheadOfPart ==
  ASSUME NEW word, IsSequence(word), NEW part, IsSequence(part), IsSuffix(part, word), IsSequence(text),
         NEW key, NEW mods, NEW capsOn, OneKeyAhead(word, key, mods, capsOn)
  PROVE  OneKeyAhead(part, key, mods, capsOn)
<1>a. /\ text # <<>> => IsSequence(Front(text))
      /\ word # <<>> => IsSequence(Front(word))
      /\ part # <<>> => IsSequence(Front(part))
  BY FrontIsSequence
<1>1. part = <<>> \/ (word # <<>> /\ IsSuffix(Front(part), Front(word)))
  BY SuffixFront
<1>2. ASSUME text # <<>>, IsSuffix(word, Front(text)) PROVE IsSuffix(part, Front(text))
  BY <1>a, <1>2, SuffixTransitive
<1>3. ASSUME word # <<>>, part # <<>>, IsSuffix(Front(word), text) PROVE IsSuffix(Front(part), text)
  BY <1>a, <1>1, <1>3, SuffixTransitive
<1> QED
  BY <1>1, <1>2, <1>3 DEF OneKeyAhead

(* The expander handles a key: its buffer is the text again, or a trigger  *)
(* that ends the text is on its way to being replaced.                     *)
LEMMA ExpanderReads ==
  ASSUME NEW key \in PrintingKeys, NEW mods, mods \subseteq {"Shift"}, NEW capsOn
  PROVE  XChar(key, mods, capsOn) = Glyph(key, mods, capsOn)
<1>1. PrintingKeys = {"KEY_Z", "KEY_O", "KEY_1", "KEY_DOT", "KEY_LEFTBRACE", "KEY_SPACE"}
  BY DEF PrintingKeys, Chars
<1> QED
  BY <1>1 DEF XChar, Glyph

ExpanderOutcome ==
  /\ DeferredAlone'
  /\ IF expansion' = NoExpansion THEN TypedPicture(text)' ELSE TypedWiped' /\ Covers(expansion, text)'

LEMMA ExpandOutcome ==
  ASSUME config.matches \in Seq(Match), IsSequence(text), text' = text,
         NEW s, IsSequence(s), NEW extra \in {0, 1}, NEW other, IsSuffix(other, text),
         IF extra = 0 THEN IsSuffix(s, text)
         ELSE text # <<>> /\ Last(text) = " " /\ IsSuffix(s, Front(text)),
         NEW mods, Expand(s, extra, mods, other)
  PROVE  ExpanderOutcome
<1>a. Covers(NoExpansion, text) /\ IsSuffix(<<>>, text)
  BY NothingCovered, SuffixEmpty
<1>1. CASE Matching(s) = {}
  <2>1. ebuf' = other /\ expansion' = NoExpansion /\ epending' = NoExpansion
    BY <1>1 DEF Expand
  <2> QED
    BY <1>a, <2>1 DEF ExpanderOutcome, DeferredAlone, TypedPicture, Covers
<1>2. CASE Matching(s) # {}
  <2> DEFINE m == FirstMatch(s)
             e == [match |-> m, extra |-> extra]
  <2>1. m \in Match /\ IsSuffix(m.trigger, s)
    BY <1>2, FirstMatchMatches
  <2>2. /\ ebuf' = <<>>
        /\ \/ expansion' = e /\ epending' = NoExpansion
           \/ expansion' = NoExpansion /\ epending' = e
    BY <1>2 DEF Expand
  <2> HIDE DEF m
  <2>3. Covers(e, text)
    BY <2>1, CoversTrigger
  <2> HIDE DEF e
  <2> QED
    BY <1>a, <2>2, <2>3 DEF ExpanderOutcome, DeferredAlone, TypedPicture, TypedWiped, Covers
<1> QED
  BY <1>1, <1>2

LEMMA ExpanderHandles ==
  ASSUME ExpanderShapes, DeferredAlone, IsSequence(text), text' = text,
         NEW e, Legible(e), NEW mods, mods \subseteq ModifierClasses, NEW capsOn,
         TypedEventPicture(e, mods, capsOn), ExpanderHandleEvent(e.key, e.value, mods, capsOn)
  PROVE  ExpanderOutcome
<1>a. Covers(NoExpansion, text) /\ IsSuffix(<<>>, text) /\ config.matches \in Seq(Match) /\ IsSequence(ebuf)
  BY NothingCovered, SuffixEmpty DEF ExpanderShapes
<1> DEFINE key == e.key
           value == e.value
<1>b. value \in {0, 1} /\ key # "KEY_KP1" /\ key \in Keys
  BY DEF Legible
<1>c. ASSUME ebuf' = <<>>, epending' = NoExpansion, expansion' = NoExpansion PROVE ExpanderOutcome
  BY <1>a, <1>c DEF ExpanderOutcome, DeferredAlone, TypedPicture, Covers
<1>d. ~Plain(key, value) => TypedPicture(text)
  BY DEF TypedEventPicture
<1>e. ASSUME TypedPicture(text), ebuf' = ebuf, expansion' = NoExpansion, epending' \in {epending, NoExpansion}
      PROVE  ExpanderOutcome
  BY <1>a, <1>e DEF ExpanderOutcome, DeferredAlone, TypedPicture, Covers
<1>f. ASSUME TypedPicture(text), ReleaseExpansion(mods), ebuf' = ebuf PROVE ExpanderOutcome
  <2>1. CASE expansion' = NoExpansion /\ epending' = epending
    BY <1>e, <1>f, <2>1
  <2>2. CASE epending # NoExpansion /\ expansion' = epending /\ epending' = NoExpansion
    BY <1>f, <2>2 DEF ExpanderOutcome, DeferredAlone, TypedPicture, TypedWiped, Covers
  <2> QED
    BY <1>f, <2>1, <2>2 DEF ReleaseExpansion
<1>1. CASE XShiftKey(key, value, mods)
  <2>1. ~Plain(key, value) /\ ReleaseExpansion(mods) /\ ebuf' = ebuf
    BY <1>1, KeyKinds DEF XShiftKey, Plain
  <2> QED
    BY <1>d, <1>f, <2>1
<1>2. CASE XAltGrKey(key, value, mods)
  <2>1. ~Plain(key, value) /\ ReleaseExpansion(mods)
        /\ (ebuf' = ebuf \/ (ebuf' = <<>> /\ epending = NoExpansion))
    BY <1>2, KeyKinds DEF XAltGrKey, Plain
  <2>2. CASE ebuf' = ebuf
    BY <1>d, <1>f, <2>1, <2>2
  <2>3. CASE ebuf' = <<>> /\ epending = NoExpansion
    BY <1>c, <2>1, <2>3 DEF ReleaseExpansion
  <2> QED
    BY <2>1, <2>2, <2>3
<1>3. CASE XChordModifierKey(key, value, mods)
  <2>1. ~Plain(key, value)
    BY <1>3 DEF XChordModifierKey, Plain
  <2> QED
    BY <1>3, <1>c, <1>d, <1>e, <2>1 DEF XChordModifierKey, ResetExpander
<1>4. CASE XNotAPress(key, value, mods)
  <2>1. ~Plain(key, value)
    BY <1>4, <1>b DEF XNotAPress, Plain
  <2> QED
    BY <1>4, <1>d, <1>e, <2>1 DEF XNotAPress
<1>5. CASE XClear(key, value, mods)
  BY <1>5, <1>c DEF XClear, ResetExpander
<1>g. ASSUME ~ClearsBuffer(key, mods)
      PROVE  mods \subseteq {"Shift"} /\ mods \cap ChordModifiers = {} /\ key \notin {"KEY_ENTER", "KEY_LEFT"}
  BY <1>g DEF ClearsBuffer, BufferResetKeys, ChordModifiers
<1>6. CASE XBackspace(key, value, mods)
  <2>1. /\ key = "KEY_BACKSPACE" /\ value = 1 /\ ~ClearsBuffer(key, mods)
        /\ key \notin ModifierKeys
    BY <1>6 DEF XBackspace, XPress
  <2>2. OneKeyAhead(ebuf, key, mods, capsOn)
    BY <2>1 DEF TypedEventPicture, Plain
  <2>3. ebuf = <<>> \/ IsSuffix(Front(ebuf), text)
    BY <1>g, <2>1, <2>2 DEF OneKeyAhead, ErasingKeys
  <2>4. IsSuffix(ebuf', text)
    BY <1>6, <1>a, <2>3 DEF XBackspace
  <2> QED
    BY <1>6, <1>a, <2>4 DEF XBackspace, ExpanderOutcome, DeferredAlone, TypedPicture, Covers
<1>7. CASE XUnmapped(key, value, mods)
  <2>1. key \notin PrintingKeys \cup {"KEY_BACKSPACE"} /\ ~ClearsBuffer(key, mods) /\ value = 1
        /\ key \notin ModifierKeys
    BY <1>7 DEF XUnmapped, XPress
  <2>2. CASE key = "KEY_CAPSLOCK"
    <3>1. ~Plain(key, value)
      BY <2>2 DEF Plain
    <3> QED
      BY <1>7, <1>d, <1>e, <3>1 DEF XUnmapped
  <2>3. CASE key # "KEY_CAPSLOCK"
    <3>1. key \in PrintingKeys \cup {"KEY_ENTER", "KEY_BACKSPACE", "KEY_LEFT"}
      BY <1>b, <2>1, <2>3 DEF Keys, TextKeys, OtherKeys
    <3> QED
      BY <1>g, <2>1, <3>1
  <2> QED
    BY <2>2, <2>3
<1>h. ASSUME key \in PrintingKeys, value = 1, key \notin ModifierKeys, ~ClearsBuffer(key, mods)
      PROVE  text # <<>> /\ Last(text) = Glyph(key, mods, capsOn) /\ IsSuffix(ebuf, Front(text))
  <2>1. key \notin ErasingKeys /\ key # "KEY_CAPSLOCK"
    BY <1>h, KeyKinds DEF ErasingKeys, PrintingKeys, Chars
  <2>2. OneKeyAhead(ebuf, key, mods, capsOn)
    BY <1>h, <2>1 DEF TypedEventPicture, Plain
  <2> QED
    BY <1>g, <1>h, <2>1, <2>2 DEF OneKeyAhead
<1>8. CASE XSpace(key, value, mods)
  <2>1. key = "KEY_SPACE" /\ value = 1 /\ key \notin ModifierKeys /\ ~ClearsBuffer(key, mods)
        /\ Expand(ebuf, 1, mods, <<>>)
    BY <1>8 DEF XSpace, XPress, SpaceMode
  <2>2. Glyph("KEY_SPACE", mods, capsOn) = " " /\ "KEY_SPACE" \in PrintingKeys
    <3>1. Chars["KEY_SPACE"].normal = " " /\ Chars["KEY_SPACE"].shifted = " "
          /\ "KEY_SPACE" \in PrintingKeys
      BY DEF Chars, PrintingKeys
    <3> QED
      BY <3>1 DEF Glyph
  <2>3. text # <<>> /\ Last(text) = " " /\ IsSuffix(ebuf, Front(text))
    BY <1>h, <2>1, <2>2
  <2>4. Expand(ebuf, 1, mods, <<>>) /\ IsSuffix(<<>>, text) /\ IsSequence(ebuf)
    BY <1>a, <2>1
  <2> DEFINE nothing == <<>>
             one == 1
  <2>5. one \in {0, 1} /\ one # 0 /\ Expand(ebuf, one, mods, nothing) /\ IsSuffix(nothing, text)
    BY <2>4
  <2> HIDE DEF nothing, one
  <2> QED
    BY <1>a, <2>3, <2>5, ExpandOutcome
<1>9. CASE XPrint(key, value, mods, capsOn)
  <2> DEFINE c == XChar(key, mods, capsOn)
             typed == KeepLast(Append(ebuf, c), MaxLen(config))
  <2>1. key \in PrintingKeys /\ value = 1 /\ key \notin ModifierKeys /\ ~ClearsBuffer(key, mods)
        /\ \/ Expand(typed, 0, mods, typed)
           \/ ebuf' = typed /\ expansion' = NoExpansion /\ epending' = NoExpansion
    BY <1>9 DEF XPrint, XPress
  <2>2. text # <<>> /\ Last(text) = c /\ IsSuffix(ebuf, Front(text))
    BY <1>g, <1>h, <2>1, ExpanderReads
  <2>3. IsSuffix(Append(ebuf, c), text) /\ IsSequence(Append(ebuf, c))
    <3>1. text = Append(Front(text), c) /\ IsSequence(Front(text))
      BY <2>2, AppendFront, FrontIsSequence
    <3> DEFINE f == Front(text)
    <3>2. text = Append(f, c) /\ IsSequence(f) /\ IsSuffix(ebuf, f)
      BY <2>2, <3>1
    <3> HIDE DEF c, f
    <3> QED
      BY <1>a, <3>2, SuffixAppend, AppendIsSequence
  <2> HIDE DEF c
  <2>4. IsSequence(typed) /\ IsSuffix(typed, text)
    <3>1. IsSequence(typed) /\ IsSuffix(typed, Append(ebuf, c))
      BY <1>a, <2>3, LongestTrigger, KeepLastIsSuffix
    <3> QED
      BY <2>3, <3>1, SuffixTransitive
  <2> HIDE DEF typed
  <2>5. CASE Expand(typed, 0, mods, typed)
    BY <1>a, <2>4, <2>5, ExpandOutcome
  <2>6. CASE ebuf' = typed /\ expansion' = NoExpansion /\ epending' = NoExpansion
    BY <1>a, <2>4, <2>6 DEF ExpanderOutcome, DeferredAlone, TypedPicture, Covers
  <2> QED
    BY <2>1, <2>5, <2>6
<1> QED
  BY <1>1, <1>2, <1>3, <1>4, <1>5, <1>6, <1>7, <1>8, <1>9 DEF ExpanderHandleEvent

(* The steps.                                                              *)
LEMMA TypedPictureKept ==
  ASSUME UNCHANGED <<text, ebuf, epending>>
  PROVE  /\ TypedPicture(text)' <=> TypedPicture(text)
         /\ DeferredAlone' <=> DeferredAlone
         /\ TypedWiped' <=> TypedWiped
BY DEF TypedPicture, Covers, DeferredAlone, TypedWiped

LEMMA UserKeepsTyped ==
  ASSUME MaxAhead = 1, PlainTyping, ViewInv, OnlyHeldKeys', TextInv, ExpanderInv, User
  PROVE  ExpanderInv'
<1>a. KeyboardsTyped /\ AwayIsSilent /\ Phased /\ Shapes /\ ExpanderShapes /\ heldKey = NoKey
  BY DEF ViewInv, ModifiersInv, TextInv, PlainTyping, KeyboardsTyped
<1>1. pc = "select" /\ ch = <<>> /\ Elsewhere /\ ch' # <<>> /\ Len(ch') = 1
  BY <1>a, UserSendsOne
<1>2. PICK e \in KeyEvents : ch' = <<e>> /\ UserShows(e)
  BY <1>a, UserSendsOne
<1>3. ch'[1] = e
  BY <1>2
<1>4. UNCHANGED <<config, ebuf, epending, expansion>> /\ pc' = "select" /\ monitored' = monitored
  BY <1>1 DEF Elsewhere, expanderVars, hotplugVars
<1>5. e.value \in {0, 1} /\ e.dev \in monitored
  <2>1. PICK d \in Devices, key \in Keys, value \in 0..2 :
          UserSends(d, key, value) /\ (MovesModifier(d, key, value) \/ MovesText(key, value))
    BY <1>a, UserMoves
  <2>2. e = [dev |-> d, key |-> key, value |-> value] /\ d \in monitored
    BY <1>1, <1>3, <2>1 DEF UserSends, Queue
  <2>3. value \in {0, 1}
    BY <1>a, <2>1 DEF MovesModifier, MovesText
  <2> QED
    BY <2>2, <2>3
<1>6. Legible(e)
  <2>1. e.key \in HeldKeys \cup TypedKeys
    BY <1>2, <1>3 DEF OnlyHeldKeys
  <2>2. HeldKeys \subseteq Keys \ {"KEY_KP1"} /\ TypedKeys \subseteq Keys /\ "KEY_KP1" \notin TypedKeys
    BY TypingAssumption, KeyKinds, TextKeysFacts DEF PlainTyping, ModifierKeys, ModifierClass
  <2> QED
    BY <1>5, <2>1, <2>2 DEF Legible
<1>7. TypedPicture(text)
  BY <1>1 DEF ExpanderInv, ExpanderPicture
<1>8. TypedEventPicture(e, PhysicalMods, led)'
  <2>1. CASE ~Plain(e.key, e.value)
    <3>1. text' = text
      BY <1>2, <2>1 DEF UserShows
    <3>2. TypedPicture(text)'
      BY <1>4, <1>7, <3>1, TypedPictureKept
    <3> QED
      BY <2>1, <3>2 DEF TypedEventPicture, Plain
  <2>2. CASE Plain(e.key, e.value)
    <3>1. OneKeyAhead(ebuf, e.key, PhysicalMods, led)'
      <4>1. IsSequence(text) /\ IsSequence(ebuf) /\ IsSuffix(ebuf, text)
        BY <1>a, <1>7 DEF Shapes, ExpanderShapes, TypedPicture
      <4>2. ebuf' = ebuf
        BY <1>4
      <4> QED
        BY <1>2, <2>2, <4>1, <4>2, ShownKey DEF OneKeyAhead
    <3> QED
      BY <2>2, <3>1 DEF TypedEventPicture, Plain
  <2> QED
    BY <2>1, <2>2
<1>9. AllLegible' /\ DeferredAlone'
  BY <1>1, <1>3, <1>4, <1>6 DEF AllLegible, Legible, ExpanderInv, DeferredAlone
<1>10. ExpanderPicture'
  BY <1>1, <1>3, <1>4, <1>5, <1>8 DEF ExpanderPicture, TypedEventPicture, OneKeyAhead, Plain, TypedPicture
<1> QED
  BY <1>9, <1>10 DEF ExpanderInv

LEMMA ReadKeepsTyped ==
  ASSUME MaxAhead = 1, SteadyView, ViewInv, TextInv, ExpanderInv, ReadEvent, ~misled'
  PROVE  ExpanderInv'
<1>a. KeyboardsTyped /\ Phased /\ Shapes /\ TrackerTypeOK
  BY DEF ViewInv, ModifiersInv, TextInv
<1> DEFINE e == ch[1]
<1>1. pc = "select" /\ ch # <<>> /\ Len(ch) = 1 /\ ch' = <<>> /\ Head(ch) = e
  BY <1>a DEF ReadEvent, Phased, KeyboardsTyped
<1>2. UNCHANGED <<ebuf, epending, expansion, text, down, led, monitored>>
  BY DEF ReadEvent, expanderVars, screenVars, hotplugVars
<1>3. TypedEventPicture(e, PhysicalMods, led) /\ (e.dev \notin monitored => TypedWiped) /\ Legible(e)
  BY <1>1 DEF ExpanderInv, ExpanderPicture, AllLegible
<1>4. \/ e.dev \notin monitored /\ pc' = "select"
      \/ Track(e.dev, e.key, e.value) /\ ev' = e /\ pc' = "expander"
  BY <1>1 DEF ReadEvent
<1>5. DeferredAlone'
  BY <1>2, TypedPictureKept DEF ExpanderInv
<1>6. CASE e.dev \notin monitored /\ pc' = "select"
  <2>1. TypedPicture(text)
    BY <1>a, <1>3, <1>6, TypedWipedPicture DEF Shapes
  <2>2. TypedPicture(text)'
    BY <1>2, <2>1, TypedPictureKept
  <2> QED
    BY <1>1, <1>5, <1>6, <2>2 DEF ExpanderInv, ExpanderPicture, AllLegible
<1>7. CASE Track(e.dev, e.key, e.value) /\ ev' = e /\ pc' = "expander"
  <2>1. AllLegible'
    <3>1. Legible(ev)'
      BY <1>3, <1>7 DEF Legible
    <3> QED
      BY <1>1, <3>1 DEF AllLegible
  <2>2. TypedEventPicture(ev, Held, caps)'
    <3>1. CASE ~Plain(e.key, e.value)
      <4>1. TypedPicture(text)'
        BY <1>2, <1>3, <3>1, TypedPictureKept DEF TypedEventPicture
      <4> QED
        BY <1>7, <3>1, <4>1 DEF TypedEventPicture, Plain
    <3>2. CASE Plain(e.key, e.value)
      <4>1. View
        <5>1. ViewSettled
          BY <1>1, <3>2 DEF ViewSettled, MovesView, Plain
        <5>2. ~Blinded
          BY <1>1, <1>7, <3>2, SightedWhenReading
        <5> QED
          BY <5>1, <5>2, SettledView
      <4>2. Held' = Held /\ caps' = caps
        <5>1. UNCHANGED <<pressed, counts>>
          BY <1>7, <3>2 DEF Track, Changes, Plain
        <5>2. caps' = (caps # FALSE)
          BY <1>7, <3>2 DEF Track, CapsKey, Plain
        <5>3. caps \in BOOLEAN
          BY <1>a DEF TrackerTypeOK
        <5> QED
          BY <5>1, <5>2, <5>3 DEF Held
      <4>3. /\ PhysicalMods \cap ChordModifiers # {} => Held \cap ChordModifiers # {}
            /\ "Shift" \in Held <=> "Shift" \in PhysicalMods
            /\ "AltGr" \in Held <=> "AltGr" \in PhysicalMods
            /\ caps = led
        BY <4>1 DEF View, OutputModifiers
      <4> HIDE DEF e
      <4> DEFINE mods == PhysicalMods
                 held == Held
      <4>4. Glyph(e.key, held, caps) = Glyph(e.key, mods, led)
        BY <4>3 DEF Glyph, ShiftLevel
      <4>5. OneKeyAhead(ebuf, e.key, held, caps)
        BY <1>3, <3>2, <4>3, <4>4 DEF TypedEventPicture, OneKeyAhead
      <4>6. ev' = e /\ Held' = held /\ caps' = caps
        BY <1>7, <4>2
      <4> HIDE DEF held
      <4> QED
        BY <1>2, <3>2, <4>5, <4>6 DEF TypedEventPicture, OneKeyAhead, Plain
    <3> QED
      BY <3>1, <3>2
  <2> QED
    BY <1>5, <1>7, <2>1, <2>2 DEF ExpanderInv, ExpanderPicture
<1> QED
  BY <1>4, <1>6, <1>7

LEMMA ExpanderKeepsTyped ==
  ASSUME TrackerTypeOK, TextInv, TextInv', ExpanderInv, RunExpander \/ ApplyExpansion
  PROVE  ExpanderInv'
<1>a. Shapes /\ ExpanderShapes /\ Shapes' /\ AllLegible /\ DeferredAlone /\ Phased
  BY DEF TextInv, ExpanderInv
<1>1. UNCHANGED <<ch, ev>> /\ pc # "select" /\ pc' # "select"
  BY DEF RunExpander, ApplyExpansion
<1>2. AllLegible'
  BY <1>a, <1>1 DEF AllLegible, Legible
<1>3. CASE RunExpander
  <2>1. /\ pc = "expander" /\ text' = text
        /\ ExpanderHandleEvent(ev.key, ev.value, Held, caps)
        /\ pc' = (IF expansion' # NoExpansion THEN "expand" ELSE "corrector")
    BY <1>3 DEF RunExpander, screenVars
  <2>2. Held \subseteq ModifierClasses
    BY DEF Held, TrackerTypeOK
  <2>3. TypedEventPicture(ev, Held, caps) /\ Legible(ev)
    BY <1>a, <2>1 DEF ExpanderInv, ExpanderPicture, AllLegible
  <2> DEFINE held == Held
             event == ev
  <2>4. ExpanderOutcome
    BY <1>a, <2>1, <2>2, <2>3, ExpanderHandles DEF Shapes
  <2> QED
    BY <1>2, <2>1, <2>4 DEF ExpanderInv, ExpanderOutcome, ExpanderPicture
<1>4. CASE ApplyExpansion
  <2>1. pc = "expand" /\ pc' = "corrector" /\ UNCHANGED <<ebuf, epending, expansion>>
    BY <1>4 DEF ApplyExpansion, expanderVars
  <2>2. TypedWiped' /\ expansion' # NoExpansion
    BY <1>a, <2>1, TypedPictureKept DEF ExpanderInv, ExpanderPicture, TypedWiped, Phased
  <2> QED
    BY <1>2, <2>1, <2>2 DEF ExpanderInv, ExpanderPicture, DeferredAlone, TypedWiped
<1> QED
  BY <1>3, <1>4

LEMMA CorrectorKeepsTyped ==
  ASSUME ExpanderInv, RunCorrector
  PROVE  ExpanderInv'
<1>1. pc = "corrector" /\ pc' = "act" /\ UNCHANGED <<ebuf, epending, expansion, text, ch, ev>>
  BY DEF RunCorrector, expanderVars, screenVars
<1>2. /\ TypedPicture(text) => TypedPicture(text)'
      /\ DeferredAlone'
      /\ TypedWiped => TypedWiped'
  BY <1>1, TypedPictureKept DEF ExpanderInv
<1> QED
  BY <1>1, <1>2 DEF ExpanderInv, ExpanderPicture, AllLegible, Legible

LEMMA ActKeepsTyped ==
  ASSUME TextInv, TextInv', ExpanderInv, Act
  PROVE  ExpanderInv'
<1>a. IsSequence(text') /\ Phased
  BY DEF TextInv, Shapes
<1>1. pc = "act" /\ pc' = "select" /\ expansion' = NoExpansion /\ ch' = ch
  BY DEF Act, ActOnExpansion, ActOnToggle, ApplyPlan, HasPlan, FailPlan, ActOnNothing, Finish
<1>2. ch = <<>>
  BY <1>a, <1>1 DEF Phased
<1>3. TypedPicture(text)' /\ DeferredAlone'
  <2>1. CASE TypedWiped'
    <3>1. IsSuffix(ebuf', text')
      BY <1>a, <2>1, SuffixEmpty DEF TypedWiped
    <3>2. IsSuffix(ExpansionEdit(epending').restore, text')
      BY <1>a, <2>1, NothingCovered DEF TypedWiped, Covers
    <3> QED
      BY <2>1, <3>1, <3>2 DEF TypedPicture, Covers, DeferredAlone, TypedWiped
  <2>2. CASE ActOnExpansion
    <3>1. TypedWiped
      BY <1>1, <2>2 DEF ExpanderInv, ExpanderPicture, ActOnExpansion
    <3>2. TypedWiped'
      BY <2>2, <3>1 DEF ActOnExpansion, TypedWiped
    <3> QED
      BY <2>1, <3>2
  <2>3. CASE ApplyPlan \/ FailPlan
    BY <2>1, <2>3 DEF ApplyPlan, FailPlan, AfterCorrection, ResetExpander, TypedWiped
  <2>4. CASE ActOnToggle \/ ActOnNothing
    <3>1. UNCHANGED <<text, ebuf, epending>> /\ expansion = NoExpansion
      BY <2>4 DEF ActOnToggle, ActOnNothing
    <3>2. TypedPicture(text) /\ DeferredAlone
      BY <1>1, <3>1 DEF ExpanderInv, ExpanderPicture
    <3> QED
      BY <3>1, <3>2, TypedPictureKept
  <2> QED
    BY <2>2, <2>3, <2>4 DEF Act
<1> QED
  BY <1>1, <1>2, <1>3 DEF ExpanderInv, ExpanderPicture, AllLegible

LEMMA AsideKeepsTyped ==
  ASSUME ExpanderInv, Aside
  PROVE  ExpanderInv'
<1>1. UNCHANGED <<text, ebuf, epending, expansion, pressed, counts, caps, led, ch, pc, ev, monitored>>
  BY DEF Aside, DBusSetEnabled, ActiveWindow, SetLookup, Unplug, PlugIn, vars, expanderVars, trackerVars,
         screenVars, loopVars, hotplugVars
<1>2. ch # <<>> => PhysicalMods' = PhysicalMods
  <2>1. ch = <<>> \/ down' = down
    BY DEF Aside, DBusSetEnabled, ActiveWindow, SetLookup, Unplug, PlugIn, vars, screenVars
  <2> QED
    BY <2>1 DEF PhysicalMods
<1>3. Held' = Held
  BY <1>1 DEF Held
<1>4. /\ TypedPicture(text)' <=> TypedPicture(text)
      /\ DeferredAlone' <=> DeferredAlone
      /\ TypedWiped' <=> TypedWiped
  BY <1>1, TypedPictureKept
<1>5. AllLegible' /\ DeferredAlone'
  BY <1>1, <1>4 DEF ExpanderInv, AllLegible, Legible
<1>6. ch # <<>> /\ TypedEventPicture(ch[1], PhysicalMods, led) => TypedEventPicture(ch[1], PhysicalMods, led)'
  BY <1>1, <1>2, <1>4 DEF TypedEventPicture, OneKeyAhead, Plain
<1>7. TypedEventPicture(ev, Held, caps) => TypedEventPicture(ev, Held, caps)'
  BY <1>1, <1>3, <1>4 DEF TypedEventPicture, OneKeyAhead, Plain
<1>8. Covers(expansion, text)' <=> Covers(expansion, text)
  BY <1>1 DEF Covers
<1> QED
  BY <1>1, <1>4, <1>5, <1>6, <1>7, <1>8 DEF ExpanderInv, ExpanderPicture

LEMMA RestartKeepsTyped ==
  ASSUME KeyboardsTyped, TextInv, ExpanderInv, Restarted
  PROVE  ExpanderInv'
<1>a. Shapes /\ ExpanderShapes /\ DeferredAlone
  BY DEF TextInv, ExpanderInv
<1>1. pc = "select" /\ UNCHANGED <<text, down, led, expansion, ch, pc, ev>>
  BY DEF Restarted, ReloadConfig, ApplySettings, SetOptions, Reload, KeyboardDone, RefreshKeyboards, screenVars,
         loopVars, correctorVars
<1>2. PhysicalMods' = PhysicalMods
  BY <1>1 DEF PhysicalMods
<1>3. /\ IsSequence(ebuf') /\ IsSuffix(ebuf', ebuf)
      /\ epending' = epending \/ epending' = NoExpansion
      /\ TypedWiped' \/ (monitored' = monitored /\ epending' = epending)
  <2>1. ASSUME NEW setup \in Setups, ReloadConfig(setup)
        PROVE  /\ IsSequence(ebuf') /\ IsSuffix(ebuf', ebuf)
               /\ monitored' = monitored /\ epending' = epending
    <3>1. setup.expander.matches \in Seq(Match)
      BY TypingAssumption DEF Match
    <3>2. ebuf' = KeepLast(ebuf, MaxLen(setup.expander)) /\ epending' = epending /\ monitored' = monitored
      BY <2>1 DEF ReloadConfig, Reload, hotplugVars
    <3> QED
      BY <1>a, <3>1, <3>2, LongestTrigger, KeepLastIsSuffix DEF ExpanderShapes
  <2>2. CASE (\E d \in Devices : KeyboardDone(d)) \/ RefreshKeyboards
    <3>1. TypedWiped'
      BY <2>2 DEF KeyboardDone, RefreshKeyboards, ResetExpander, TypedWiped
    <3> QED
      BY <1>a, <3>1, EmptyIsSequence, SuffixEmpty DEF TypedWiped, ExpanderShapes
  <2> QED
    BY <2>1, <2>2 DEF Restarted
<1>4. AllLegible'
  BY <1>1 DEF ExpanderInv, AllLegible, Legible
<1>5. ebuf = <<>> => ebuf' = <<>>
  <2> DEFINE word == ebuf
             part == ebuf'
  <2>1. IsSequence(word) /\ IsSequence(part) /\ IsSuffix(part, word)
    BY <1>a, <1>3 DEF ExpanderShapes
  <2> HIDE DEF word, part
  <2>2. part = <<>> \/ word # <<>>
    BY <2>1, SuffixFront
  <2> QED
    BY <2>2 DEF word, part
<1>6. DeferredAlone'
  BY <1>3, <1>5, <1>a DEF DeferredAlone
<1>7. TypedPicture(text) => TypedPicture(text)'
  <2>1. IsSuffix(ebuf, text) => IsSuffix(ebuf', text)
    BY <1>a, <1>3, SuffixTransitive DEF Shapes, ExpanderShapes
  <2>2. Covers(epending, text) => Covers(epending', text)
    BY <1>3, <1>a, NothingCovered DEF Shapes
  <2> QED
    BY <1>1, <2>1, <2>2 DEF TypedPicture, Covers
<1>8. TypedWiped => TypedWiped'
  BY <1>3, <1>5 DEF TypedWiped
<1>9. ch # <<>> => TypedEventPicture(ch[1], PhysicalMods, led)'
  <2> SUFFICES ASSUME ch # <<>> PROVE TypedEventPicture(ch[1], PhysicalMods, led)'
    OBVIOUS
  <2>1. TypedEventPicture(ch[1], PhysicalMods, led)
    BY <1>1 DEF ExpanderInv, ExpanderPicture
  <2>2. CASE ~Plain(ch[1].key, ch[1].value)
    BY <1>1, <1>7, <2>1, <2>2 DEF TypedEventPicture, Plain
  <2>3. CASE Plain(ch[1].key, ch[1].value)
    <3>1. OneKeyAhead(ebuf, ch[1].key, PhysicalMods, led)
      BY <2>1, <2>3 DEF TypedEventPicture
    <3> DEFINE word == ebuf
               part == ebuf'
               key == ch[1].key
               mods == PhysicalMods
               lit == led
    <3>2. IsSequence(word) /\ IsSequence(part) /\ IsSuffix(part, word) /\ IsSequence(text)
          /\ OneKeyAhead(word, key, mods, lit)
      BY <1>a, <1>3, <3>1 DEF Shapes, ExpanderShapes
    <3>3. OneKeyAhead(part, key, mods, lit)
      <4> HIDE DEF word, part, key, mods, lit
      <4> QED
        BY <3>2, AheadOfPart
    <3> QED
      BY <1>1, <1>2, <2>3, <3>3 DEF TypedEventPicture, OneKeyAhead, Plain
  <2> QED
    BY <2>2, <2>3
<1>10. ExpanderPicture'
  <2>1. ch = <<>> => TypedPicture(text)'
    BY <1>1, <1>7 DEF ExpanderInv, ExpanderPicture
  <2>2. ch # <<>> /\ ch[1].dev \notin monitored' => TypedWiped'
    BY <1>1, <1>3, <1>8 DEF ExpanderInv, ExpanderPicture
  <2> QED
    BY <1>1, <1>9, <2>1, <2>2 DEF ExpanderPicture
<1> QED
  BY <1>4, <1>6, <1>10 DEF ExpanderInv

LEMMA ExpanderInvInit == TextInv /\ Init => ExpanderInv
<1> SUFFICES ASSUME TextInv, Init PROVE ExpanderInv
  OBVIOUS
<1>1. ch = <<>> /\ pc = "select" /\ ebuf = <<>> /\ epending = NoExpansion
  BY DEF Init, ExpanderInit
<1>2. TypedPicture(text)
  BY <1>1, TypedWipedPicture DEF TypedWiped, TextInv, Shapes
<1> QED
  BY <1>1, <1>2 DEF ExpanderInv, AllLegible, DeferredAlone, ExpanderPicture

LEMMA ExpanderInvStep ==
  ASSUME MaxAhead = 1, SteadyView, PlainTyping
  PROVE  ViewInv /\ ViewInv' /\ TextInv /\ TextInv' /\ ExpanderInv /\ [Next]_vars => misled' \/ ExpanderInv'
<1> SUFFICES ASSUME ViewInv, ViewInv', TextInv, TextInv', ExpanderInv, [Next]_vars, ~misled' PROVE ExpanderInv'
  OBVIOUS
<1>1. KeyboardsTyped /\ TrackerTypeOK /\ OnlyHeldKeys'
  BY DEF ViewInv, ModifiersInv
<1> QED
  BY <1>1, TextStepKinds, UserKeepsTyped, ReadKeepsTyped, ExpanderKeepsTyped, CorrectorKeepsTyped, ActKeepsTyped,
     AsideKeepsTyped, RestartKeepsTyped

LEMMA ExpanderInvariant ==
  ASSUME MaxAhead = 1, SteadyView, PlainTyping
  PROVE  Spec => [](misled \/ (TextInv /\ ExpanderInv))
<1> QED
  BY TextInit, ExpanderInvInit, ExpanderInvStep, MisledLasts, TextInvariant, PTL DEF Spec

(* What the expander believes was typed last is the end of the text        *)
(* (HandleEvent in expander.go), through expansions, corrections, failures,*)
(* reloads and keyboards that come and go, until a key is handled without  *)
(* a modifier a rescan had forgotten.                                      *)
THEOREM ExpanderBufferOnScreen ==
  ASSUME MaxAhead = 1, SteadyView, PlainTyping
  PROVE  Spec => []ExpanderBufferIsScreenTail
<1>1. misled \/ ExpanderInv => ExpanderBufferIsScreenTail
  BY DEF ExpanderInv, ExpanderPicture, TypedPicture, ExpanderBufferIsScreenTail, Settled
<1> QED
  BY <1>1, ExpanderInvariant, PTL

(* A correction or a replacement that waits for Shift or AltGr to go up    *)
(* covers the text before the cursor (pending in correct.go,               *)
(* pendingExpansion in expander.go).                                       *)
THEOREM PendingOnScreen ==
  ASSUME MaxAhead = 1, SteadyView, PlainTyping
  PROVE  Spec => []PendingCoversScreen
<1>1. misled \/ (TextInv /\ ExpanderInv) => PendingCoversScreen
  BY DEF TextInv, Picture, PictureOf, ExpanderInv, ExpanderPicture, TypedPicture, Covers, PendingCoversScreen,
         Settled
<1> QED
  BY <1>1, ExpanderInvariant, PTL

(* Every edit handed to the writer covers exactly the text it deletes      *)
(* ("Restore must be the exact text covered by Backspaces", output.go):    *)
(* corrections, undos and replacements of every kind.                      *)
THEOREM EditsCoverScreen ==
  ASSUME MaxAhead = 1, SteadyView, PlainTyping, ~UndoUsed \/ OneKindHeld
  PROVE  Spec => []EditCoversScreen
<1>1. misled \/ (TextInv /\ ExpanderInv /\ (~UndoUsed \/ UndoInv)) => EditCoversScreen
  BY DEF TextInv, Picture, PlanPicture, UndoPicture, UndoInv, UndoLaid, UndoPlan, ExpanderInv, ExpanderPicture,
         Covers, EditCoversScreen, HasPlan
<1>2. CASE ~UndoUsed
  BY <1>1, <1>2, ExpanderInvariant, PTL
<1>3. CASE OneKindHeld
  <2>1. Spec => [](misled \/ UndoInv)
    BY <1>3, UndoInvariant, PTL
  <2> QED
    BY <1>1, <2>1, ExpanderInvariant, PTL
<1> QED
  BY <1>2, <1>3

-----------------------------------------------------------------------------
(* Types.  Corrections keep the number of letters of a word, and an undo    *)
(* puts back a word that was once in the buffer.                           *)

PlanEven(p) == Len(p.type) = p.backspaces /\ Len(p.type) <= BufCap + 1 /\ Typeable(p.type)
UndoEven(u) == Len(u.typed) = Len(u.emitted) /\ Len(u.typed) <= BufCap /\ Typeable(u.typed)
CorrectorTypes ==
  /\ CorrectorTypeOK
  /\ UndoEven(undo) /\ UndoEven(pending.undo)
  /\ PlanEven(pending.plan) /\ PlanEven(result.plan)

LEMMA NothingTyped ==
  /\ PlanOK(NoPlan) /\ PlanEven(NoPlan) /\ UndoOK(NoUndo) /\ UndoEven(NoUndo)
  /\ NoPending.plan = NoPlan /\ NoPending.undo = NoUndo /\ NoResult.plan = NoPlan
  /\ <<>> \in Seq(Runes) /\ Len(<<>>) = 0 /\ Len(<<>>) <= BufCap
BY CorrectorAssumption DEF PlanOK, PlanEven, UndoOK, UndoEven, NoPlan, NoUndo, NoPending, NoResult, Typeable

(* A sequence whose elements are characters.                               *)
LEMMA SequenceOver ==
  ASSUME NEW s, IsSequence(s), NEW S, \A i \in DOMAIN s : s[i] \in S
  PROVE  s \in Seq(S)
<1> DEFINE n == Len(s)
<1>1. n \in Nat /\ DOMAIN s = 1..n /\ s = [i \in 1..n |-> s[i]]
  BY SequenceFacts
<1> HIDE DEF n
<1>2. [i \in 1..n |-> s[i]] \in Seq(S)
  BY <1>1
<1> QED
  BY <1>1, <1>2

LEMMA PartOver ==
  ASSUME NEW S, NEW s \in Seq(S), NEW m \in Nat \ {0}, NEW n \in Nat, n <= Len(s)
  PROVE  SubSeq(s, m, n) \in Seq(S) /\ Len(SubSeq(s, m, n)) = IF m <= n THEN n - m + 1 ELSE 0
<1> DEFINE t == SubSeq(s, m, n)
<1>1. IsSequence(s) /\ Len(s) \in Nat /\ \A i \in 1..Len(s) : s[i] \in S
  BY TypedIsSequence
<1>2. /\ IsSequence(t) /\ Len(t) = IF m <= n THEN n - m + 1 ELSE 0
      /\ \A i \in 1..Len(t) : t[i] = s[m + i - 1]
  BY <1>1, SubSeqIsSequence
<1> HIDE DEF t
<1>3. ASSUME NEW i \in DOMAIN t PROVE t[i] \in S
  <2>1. i \in 1..Len(t) /\ m <= n
    BY <1>2, SequenceFacts
  <2>2. m + i - 1 \in 1..Len(s)
    BY <1>1, <1>2, <2>1
  <2> QED
    BY <1>1, <1>2, <2>1, <2>2
<1>4. t \in Seq(S)
  BY <1>2, <1>3, SequenceOver
<1> QED
  BY <1>2, <1>4 DEF t

LEMMA CharactersAreRunes ==
  /\ Letters \cup Separators \cup {"unknown"} \subseteq Runes
  /\ \A c \in Runes : Upper(c) \in Runes /\ Lower(c) \in Runes
  /\ \A key \in PrintingKeys : Chars[key].normal \in Runes /\ Chars[key].shifted \in Runes
  /\ \A key \in DOMAIN AltGr : AltGr[key] \in Runes
<1>1. Letters \cup Separators \cup {"unknown"} \subseteq Runes
  BY SeparatorTable DEF Runes
<1>2. \A c \in Runes : Upper(c) \in Runes /\ Lower(c) \in Runes
  <2>1. \A c \in Letters : Upper(c) \in Letters /\ Lower(c) \in Letters
    BY LetterForms DEF Letters
  <2>2. \A c : c \notin Letters => Upper(c) = c /\ Lower(c) = c
    BY DEF Upper, Lower, Letters
  <2> QED
    BY <1>1, <2>1, <2>2
<1>3. ASSUME NEW key \in PrintingKeys PROVE Chars[key].normal \in Runes /\ Chars[key].shifted \in Runes
  <2>1. key \in {"KEY_Z", "KEY_O", "KEY_1", "KEY_DOT", "KEY_LEFTBRACE", "KEY_SPACE"}
    BY DEF PrintingKeys, Chars
  <2>2. /\ Chars["KEY_Z"].normal = "z" /\ Chars["KEY_Z"].shifted = "Z"
        /\ Chars["KEY_O"].normal = "o" /\ Chars["KEY_O"].shifted = "O"
        /\ Chars["KEY_1"].normal = "1" /\ Chars["KEY_1"].shifted = "!"
        /\ Chars["KEY_DOT"].normal = "." /\ Chars["KEY_DOT"].shifted = ">"
        /\ Chars["KEY_LEFTBRACE"].normal = "[" /\ Chars["KEY_LEFTBRACE"].shifted = "{"
        /\ Chars["KEY_SPACE"].normal = " " /\ Chars["KEY_SPACE"].shifted = " "
    BY DEF Chars
  <2>3. {"z", "o", "Z", "O", "1", "!", ".", ">", "[", "{", " "} \subseteq Runes
    BY LetterForms DEF Runes
  <2> QED
    BY <2>1, <2>2, <2>3
<1>4. \A key \in DOMAIN AltGr : AltGr[key] \in Runes
  <2>1. DOMAIN AltGr = {"KEY_Z", "KEY_O"} /\ AltGr["KEY_Z"] = "zdot" /\ AltGr["KEY_O"] = "oacute"
    BY DEF AltGr
  <2> QED
    BY <1>1, <2>1, LetterForms
<1> QED
  BY <1>1, <1>2, <1>3, <1>4

LEMMA AppendedRune ==
  ASSUME CorrectorTypes, NEW c \in Runes, NEW pure \in BOOLEAN, AppendRune(c, pure)
  PROVE  buf' \in Seq(Runes) /\ Len(buf') <= BufCap /\ impure' \in BOOLEAN /\ overflow' \in BOOLEAN
<1>1. buf \in Seq(Runes) /\ Len(buf) <= BufCap /\ impure \in BOOLEAN /\ overflow \in BOOLEAN /\ BufCap \in Nat
  BY CorrectorAssumption DEF CorrectorTypes, CorrectorTypeOK
<1>2. impure' \in BOOLEAN
  BY <1>1 DEF AppendRune
<1>3. overflow' \in BOOLEAN
  BY <1>1 DEF AppendRune, MarkOverflow
<1>4. CASE BufferFull
  BY <1>1, <1>2, <1>3, <1>4 DEF AppendRune
<1>5. CASE ~BufferFull
  <2>1. buf' = Append(buf, c) /\ Len(buf) < BufCap
    BY <1>1, <1>5 DEF AppendRune, BufferFull
  <2>2. Append(buf, c) \in Seq(Runes) /\ Len(Append(buf, c)) = Len(buf) + 1
    BY <1>1
  <2>3. Len(buf) \in Nat
    BY <1>1
  <2> QED
    BY <1>1, <1>2, <1>3, <2>1, <2>2, <2>3
<1> QED
  BY <1>4, <1>5

LEMMA CorrectionTyped ==
  ASSUME CorrectorTypes, NEW sep, Correctable(sep)
  PROVE  PlanOK(PlanFor(sep)) /\ PlanEven(PlanFor(sep)) /\ UndoOK(UndoFor) /\ UndoEven(UndoFor)
<1>1. buf \in Seq(Runes) /\ Len(buf) <= BufCap /\ sep \in Runes
  BY CharactersAreRunes DEF CorrectorTypes, CorrectorTypeOK, Correctable, CorrectHere, Separators
<1> DEFINE w == Corrected
<1>2. w \in Seq(Runes) /\ Len(w) = Len(buf)
  <2>1. IsSequence(buf)
    BY <1>1, TypedIsSequence
  <2>2. IsSequence(Corrected) /\ Len(Corrected) = Len(buf) /\ \A i \in DOMAIN Corrected : Corrected[i] \in Letters
    BY <2>1, CorrectedIsSequence
  <2>3. \A i \in DOMAIN Corrected : Corrected[i] \in Runes
    BY <2>2, CharactersAreRunes
  <2> QED
    BY <2>2, <2>3, SequenceOver
<1>3. /\ PlanFor(sep).backspaces = Len(buf) + 1
      /\ PlanFor(sep).type = Append(w, sep) /\ PlanFor(sep).restore = Append(buf, sep)
  BY DEF PlanFor
<1>4. UndoFor = [typed |-> buf, emitted |-> w, outRunes |-> Len(w)] \/ UndoFor = NoUndo
  BY DEF UndoFor
<1>t. Typeable(Append(w, sep)) /\ Typeable(buf) /\ BufCap \in Nat
  <2>1. IsSequence(buf)
    BY <1>1, TypedIsSequence
  <2>2. PlanShape(PlanFor(sep))
    BY <2>1, PlanForShape
  <2>3. \A i \in DOMAIN buf : buf[i] \in Letters
    BY DEF Correctable
  <2> QED
    BY <1>3, <2>2, <2>3, WordsTypeable, CorrectorAssumption DEF PlanShape, Typeable
<1> HIDE DEF w
<1>5. /\ Append(w, sep) \in Seq(Runes) /\ Len(Append(w, sep)) = Len(w) + 1
      /\ Append(buf, sep) \in Seq(Runes) /\ Len(Append(buf, sep)) = Len(buf) + 1
  BY <1>1, <1>2
<1>6. PlanOK(PlanFor(sep)) /\ PlanEven(PlanFor(sep))
  <2>1. Len(w) = Len(buf) /\ Len(buf) \in Nat
    BY <1>1, <1>2
  <2> DEFINE a == Append(w, sep)
             l == Len(buf)
             p == PlanFor(sep)
  <2>2. Len(a) = l + 1 /\ l \in Nat /\ l <= BufCap /\ a \in Seq(Runes) /\ Typeable(a)
    BY <1>1, <1>t, <1>5, <2>1
  <2>3. p.type = a /\ p.backspaces = l + 1 /\ p.restore \in Seq(Runes) /\ Len(p.restore) = l + 1
    BY <1>3, <1>5
  <2> HIDE DEF a, l, p
  <2>4. PlanOK(p) /\ PlanEven(p)
    BY <1>t, <2>2, <2>3 DEF PlanOK, PlanEven
  <2> QED
    BY <2>4 DEF p
<1>7. UndoOK(UndoFor) /\ UndoEven(UndoFor)
  <2>1. CASE UndoFor = NoUndo
    BY <2>1, NothingTyped
  <2>2. CASE UndoFor = [typed |-> buf, emitted |-> w, outRunes |-> Len(w)]
    <3>1. UndoFor.typed = buf /\ UndoFor.emitted = w /\ UndoFor.outRunes = Len(w)
      BY <2>2
    <3> QED
      BY <1>1, <1>2, <1>t, <3>1 DEF UndoOK, UndoEven
  <2> QED
    BY <1>4, <2>1, <2>2
<1> QED
  BY <1>6, <1>7

(* Every branch of the corrector's HandleEvent keeps the types.            *)
LEMMA CorrectorTyped ==
  ASSUME CorrectorTypes, NEW key, NEW value, NEW mods, NEW capsOn, CorrectorHandleEvent(key, value, mods, capsOn)
  PROVE  CorrectorTypes'
<1>a. /\ buf \in Seq(Runes) /\ Len(buf) <= BufCap /\ <<>> \in Seq(Runes) /\ Len(<<>>) <= BufCap
      /\ impure \in BOOLEAN /\ overflow \in BOOLEAN /\ suppressed \in BOOLEAN
      /\ UNCHANGED <<enabled, lookup>> /\ enabled \in BOOLEAN /\ lookup \in BOOLEAN
      /\ UndoOK(undo) /\ UndoEven(undo) /\ UndoOK(pending.undo) /\ UndoEven(pending.undo)
      /\ PlanOK(pending.plan) /\ PlanEven(pending.plan)
  BY CorrectorAssumption DEF CorrectorTypes, CorrectorTypeOK, CorrectorHandleEvent, Environs
<1>b. ASSUME buf' \in {buf, <<>>}, impure' \in BOOLEAN, overflow' \in BOOLEAN, suppressed' \in BOOLEAN,
             undo' \in {undo, pending.undo, NoUndo}, pending' \in {pending, NoPending},
             result'.plan \in {NoPlan, pending.plan}
      PROVE  CorrectorTypes'
  BY <1>a, <1>b, NothingTyped DEF CorrectorTypes, CorrectorTypeOK
<1>n. NoResult.plan = NoPlan
  BY NothingTyped
<1>1. CASE OutputModifierKey(key, value, mods) \/ IgnoredKey(key, value, mods) \/ CapsLockKey(key, value, mods)
  <2>1. result'.plan \in {NoPlan, pending.plan}
    BY <1>1, <1>n DEF OutputModifierKey, IgnoredKey, CapsLockKey, Correction
  <2> QED
    BY <1>1, <1>a, <1>b, <2>1 DEF OutputModifierKey, IgnoredKey, CapsLockKey, KeepWord, DropPending
<1>2. CASE ToggleKey(key, value, mods)
  <2>1. result'.plan = NoPlan
    BY <1>2, <1>n DEF ToggleKey, NoResult
  <2> QED
    BY <1>2, <1>b, <2>1 DEF ToggleKey, Invalidate, ClearWord
<1>3. CASE DisabledKey(key, value, mods) \/ ChordKey(key, value, mods)
  BY <1>3, <1>a, <1>b, <1>n DEF DisabledKey, ChordKey, Invalidate, ClearWord, KeepWord, DropPending
<1>4. CASE UndoKey(key, value, mods)
  <2>1. /\ result'.plan.backspaces = undo.outRunes /\ result'.plan.type = undo.typed
        /\ result'.plan.restore = undo.emitted
    BY <1>4 DEF UndoKey
  <2>2. /\ buf' = undo.typed /\ impure' = FALSE /\ overflow' = FALSE /\ suppressed' = TRUE
        /\ undo' = NoUndo /\ pending' = NoPending
    BY <1>4 DEF UndoKey, DoNotRecorrect, DropPending
  <2>3. PlanOK(result'.plan) /\ PlanEven(result'.plan)
    <3>1. BufCap \in Nat /\ Len(undo.typed) \in Nat
      BY <1>a, CorrectorAssumption DEF UndoOK
    <3> QED
      BY <1>a, <2>1, <3>1 DEF PlanOK, PlanEven, UndoOK, UndoEven
  <2>4. buf' \in Seq(Runes) /\ Len(buf') <= BufCap
    BY <1>a, <2>2 DEF UndoOK, UndoEven
  <2> QED
    BY <1>a, <2>2, <2>3, <2>4, NothingTyped DEF CorrectorTypes, CorrectorTypeOK
<1>5. CASE BackspaceKey(key, value, mods)
  <2>1. /\ undo' = NoUndo /\ pending' = NoPending /\ UNCHANGED <<impure, overflow>> /\ result' = NoResult
        /\ IF buf # <<>> THEN buf' = Front(buf) /\ UNCHANGED suppressed ELSE suppressed' = TRUE /\ UNCHANGED buf
    BY <1>5 DEF BackspaceKey, DropPending, DistrustWord
  <2>2. buf' \in Seq(Runes) /\ Len(buf') <= BufCap /\ suppressed' \in BOOLEAN
    <3>1. CASE buf = <<>>
      BY <1>a, <2>1, <3>1
    <3>2. CASE buf # <<>>
      <4>1. Len(buf) \in Nat \ {0} /\ BufCap \in Nat /\ buf' = SubSeq(buf, 1, Len(buf) - 1)
        BY <1>a, <2>1, <3>2, CorrectorAssumption DEF Front
      <4> DEFINE n == Len(buf) - 1
      <4>2. n \in Nat /\ n <= Len(buf) /\ 1 \in Nat \ {0} /\ n <= BufCap
        BY <1>a, <4>1
      <4> HIDE DEF n
      <4>3. SubSeq(buf, 1, n) \in Seq(Runes) /\ Len(SubSeq(buf, 1, n)) = IF 1 <= n THEN n - 1 + 1 ELSE 0
        BY <1>a, <4>2, PartOver
      <4>4. Len(SubSeq(buf, 1, n)) = n
        BY <4>2, <4>3
      <4> QED
        BY <1>a, <2>1, <3>2, <4>1, <4>2, <4>3, <4>4 DEF n
    <3> QED
      BY <3>1, <3>2
  <2> QED
    BY <1>a, <1>n, <2>1, <2>2, NothingTyped DEF CorrectorTypes, CorrectorTypeOK
<1>6. CASE SeparatorKey(key, value, mods)
  <2> DEFINE sep == SeparatorOf(key, mods)
             plan == PlanFor(sep)
             taken == UndoFor
  <2>1. /\ buf' = <<>> /\ impure' = FALSE /\ overflow' = FALSE /\ suppressed' = FALSE
        /\ \/ Correctable(sep) /\ result' = Correction(plan) /\ undo' = taken /\ pending' = NoPending
           \/ Correctable(sep) /\ pending' = [plan |-> plan, undo |-> taken] /\ result' = NoResult /\ undo' = NoUndo
           \/ result' = NoResult /\ undo' = NoUndo /\ pending' = NoPending
    BY <1>6 DEF SeparatorKey, DropPending, ClearWord
  <2>2. Correctable(sep) => PlanOK(plan) /\ PlanEven(plan) /\ UndoOK(taken) /\ UndoEven(taken)
    BY CorrectionTyped
  <2>3. Correction(plan).plan = plan
    BY DEF Correction
  <2> HIDE DEF sep, plan, taken
  <2>4. /\ buf' \in Seq(Runes) /\ Len(buf') <= BufCap
        /\ impure' \in BOOLEAN /\ overflow' \in BOOLEAN /\ suppressed' \in BOOLEAN
    BY <1>a, <2>1
  <2>5. UndoOK(undo') /\ UndoEven(undo')
    BY <2>1, <2>2, NothingTyped
  <2>6. PlanOK(result'.plan) /\ PlanEven(result'.plan)
    BY <1>n, <2>1, <2>2, <2>3, NothingTyped
  <2>7. /\ PlanOK(pending'.plan) /\ PlanEven(pending'.plan)
        /\ UndoOK(pending'.undo) /\ UndoEven(pending'.undo)
    <3>1. CASE pending' = NoPending
      BY <3>1, NothingTyped
    <3>2. CASE Correctable(sep) /\ pending' = [plan |-> plan, undo |-> taken]
      <4>1. pending'.plan = plan /\ pending'.undo = taken
        BY <3>2
      <4> QED
        BY <2>2, <3>2, <4>1
    <3> QED
      BY <2>1, <3>1, <3>2
  <2> QED
    BY <1>a, <2>4, <2>5, <2>6, <2>7 DEF CorrectorTypes, CorrectorTypeOK
<1>c. ASSUME NEW c \in Runes, NEW pure \in BOOLEAN, AppendRune(c, pure), undo' = NoUndo, pending' = NoPending,
             UNCHANGED suppressed, result' = NoResult
      PROVE  CorrectorTypes'
  BY <1>a, <1>c, <1>n, AppendedRune, NothingTyped DEF CorrectorTypes, CorrectorTypeOK
<1>d. key \in PrintingKeys => Char(key, mods) \in Runes
  BY CharactersAreRunes DEF Char
<1>7. CASE DiacriticKey(key, value, mods, capsOn)
  <2> DEFINE c == IF ("Shift" \in mods) # capsOn THEN Upper(AltGr[key]) ELSE AltGr[key]
  <2>1. /\ key \in DOMAIN AltGr /\ AppendRune(c, TRUE) /\ undo' = NoUndo /\ pending' = NoPending
        /\ UNCHANGED suppressed /\ result' = NoResult
    BY <1>7 DEF DiacriticKey, CommitUndo, DropPending
  <2>2. c \in Runes
    BY <2>1, CharactersAreRunes
  <2> QED
    BY <1>c, <2>1, <2>2
<1>8. CASE LetterKey(key, value, mods, capsOn)
  <2> DEFINE c == IF ("Shift" \in mods) # capsOn THEN Upper(Char(key, mods)) ELSE Lower(Char(key, mods))
  <2>1. /\ key \in PrintingKeys /\ AppendRune(c, TRUE) /\ undo' = NoUndo /\ pending' = NoPending
        /\ UNCHANGED suppressed /\ result' = NoResult
    BY <1>8 DEF LetterKey, CommitUndo, DropPending
  <2>2. c \in Runes
    BY <1>d, <2>1, CharactersAreRunes
  <2> QED
    BY <1>c, <2>1, <2>2
<1>9. CASE ImpureKey(key, value, mods)
  <2>1. /\ key \in PrintingKeys /\ AppendRune(Char(key, mods), FALSE) /\ undo' = NoUndo /\ pending' = NoPending
        /\ UNCHANGED suppressed /\ result' = NoResult
    BY <1>9 DEF ImpureKey, CommitUndo, DropPending
  <2> QED
    BY <1>c, <1>d, <2>1
<1>10. CASE OpenerKey(key, value, mods) \/ UnknownKey(key, value, mods)
  BY <1>10, <1>a, <1>b, <1>n DEF OpenerKey, UnknownKey, ClearWord, CommitUndo, DropPending
<1> QED
  BY <1>1, <1>2, <1>3, <1>4, <1>5, <1>6, <1>7, <1>8, <1>9, <1>10 DEF CorrectorHandleEvent

LEMMA CorrectorTypesInit == Init => CorrectorTypes
<1> SUFFICES ASSUME Init PROVE CorrectorTypes
  OBVIOUS
<1>1. PICK setup \in Setups : CorrectorInit(setup.enabled, TRUE, setup.options)
  BY DEF Init
<1>2. setup.enabled \in BOOLEAN
  BY TypingAssumption
<1>3. /\ enabled \in BOOLEAN /\ lookup \in BOOLEAN /\ impure = FALSE /\ overflow = FALSE /\ suppressed = FALSE
      /\ buf = <<>> /\ undo = NoUndo /\ pending = NoPending /\ result = NoResult
  BY <1>1, <1>2 DEF CorrectorInit
<1>4. buf \in Seq(Runes) /\ Len(buf) <= BufCap
  BY <1>3, NothingTyped
<1> QED
  BY <1>3, <1>4, NothingTyped DEF CorrectorTypes, CorrectorTypeOK

LEMMA CorrectorTypesStep == CorrectorTypes /\ [Next]_vars => CorrectorTypes'
<1> SUFFICES ASSUME CorrectorTypes, [Next]_vars PROVE CorrectorTypes'
  OBVIOUS
<1>a. /\ enabled \in BOOLEAN /\ lookup \in BOOLEAN /\ impure \in BOOLEAN /\ overflow \in BOOLEAN
      /\ suppressed \in BOOLEAN /\ buf \in Seq(Runes) /\ Len(buf) <= BufCap
      /\ UndoOK(undo) /\ UndoEven(undo) /\ UndoOK(pending.undo) /\ UndoEven(pending.undo)
      /\ PlanOK(pending.plan) /\ PlanEven(pending.plan) /\ PlanOK(result.plan) /\ PlanEven(result.plan)
  BY DEF CorrectorTypes, CorrectorTypeOK
<1>b. ASSUME enabled' \in BOOLEAN, lookup' \in BOOLEAN, result' \in {result, NoResult},
             \/ UNCHANGED <<buf, impure, overflow, suppressed, undo, pending>>
             \/ /\ buf' = <<>> /\ impure' = FALSE /\ overflow' = FALSE /\ suppressed' \in BOOLEAN
                /\ undo' = NoUndo /\ pending' = NoPending
      PROVE  CorrectorTypes'
  <2>1. /\ impure' \in BOOLEAN /\ overflow' \in BOOLEAN /\ suppressed' \in BOOLEAN /\ buf' \in Seq(Runes)
        /\ Len(buf') <= BufCap
    BY <1>a, <1>b, NothingTyped
  <2>2. /\ UndoOK(undo') /\ UndoEven(undo') /\ UndoOK(pending'.undo) /\ UndoEven(pending'.undo)
        /\ PlanOK(pending'.plan) /\ PlanEven(pending'.plan)
    BY <1>a, <1>b, NothingTyped
  <2>3. PlanOK(result'.plan) /\ PlanEven(result'.plan)
    BY <1>a, <1>b, NothingTyped
  <2> QED
    BY <1>b, <2>1, <2>2, <2>3 DEF CorrectorTypes, CorrectorTypeOK
<1>1. CASE User \/ ReadEvent \/ RunExpander \/ ApplyExpansion
  <2>1. UNCHANGED correctorVars
    BY <1>1, UserElsewhere DEF Elsewhere, ReadEvent, RunExpander, ApplyExpansion
  <2> QED
    BY <1>a, <1>b, <2>1 DEF correctorVars
<1>2. CASE RunCorrector
  BY <1>2, CorrectorTyped DEF RunCorrector
<1>3. CASE Act
  <2>1. enabled' \in BOOLEAN /\ lookup' = lookup /\ result' = NoResult
    BY <1>a, <1>3 DEF Act, ActOnExpansion, ActOnToggle, ApplyPlan, FailPlan, ActOnNothing, Finish
  <2>2. \/ UNCHANGED <<buf, impure, overflow, suppressed, undo, pending>>
        \/ /\ buf' = <<>> /\ impure' = FALSE /\ overflow' = FALSE /\ suppressed' \in BOOLEAN
           /\ undo' = NoUndo /\ pending' = NoPending
    BY <1>3 DEF Act, ActOnExpansion, ActOnToggle, ApplyPlan, FailPlan, ActOnNothing, AfterExpansion, AfterFailure,
                Invalidate, ClearWord
  <2> QED
    BY <1>a, <1>b, <2>1, <2>2
<1>4. CASE Aside
  BY <1>4, <1>a, <1>b DEF Aside, DBusSetEnabled, SetEnabled, ActiveWindow, SetLookup, Unplug, PlugIn, vars,
                          correctorVars
<1>5. CASE Restarted
  <2>1. ASSUME NEW setup \in Setups, ReloadConfig(setup) PROVE CorrectorTypes'
    <3>1. setup.enabled \in BOOLEAN
      BY TypingAssumption
    <3> QED
      BY <1>a, <1>b, <2>1, <3>1 DEF ReloadConfig, ApplySettings, SetOptions, Invalidate, ClearWord, correctorVars
  <2>2. CASE (\E d \in Devices : KeyboardDone(d)) \/ RefreshKeyboards
    BY <1>a, <1>b, <2>2 DEF KeyboardDone, RefreshKeyboards, ResetCorrector, ClearWord
  <2> QED
    BY <1>5, <2>1, <2>2 DEF Restarted
<1> QED
  BY <1>1, <1>2, <1>3, <1>4, <1>5, TextStepKinds

(* The corrector's buffer never outgrows its capacity, and every edit it   *)
(* plans, at once, deferred or as an undo, deletes exactly as many         *)
(* characters as it could put back (appendRune, commitWord and HandleEvent *)
(* in correct.go): for any number of keys typed ahead and any disturbance. *)
THEOREM CorrectorKeepsTypes == Spec => []CorrectorTypeOK
<1>1. CorrectorTypes => CorrectorTypeOK
  BY DEF CorrectorTypes
<1> QED
  BY <1>1, CorrectorTypesInit, CorrectorTypesStep, PTL DEF Spec

(* The expander's buffer.                                                  *)
BufferTyped ==
  /\ config.matches \in Seq(Match)
  /\ ebuf \in Seq(Runes) /\ Len(ebuf) <= MaxLen(config)

LEMMA LastKept ==
  ASSUME NEW S, NEW s \in Seq(S), NEW n \in Nat
  PROVE  KeepLast(s, n) \in Seq(S) /\ Len(KeepLast(s, n)) <= n
<1>1. CASE Len(s) <= n
  BY <1>1 DEF KeepLast
<1>2. CASE Len(s) > n
  <2> DEFINE m == Len(s) - n + 1
             l == Len(s)
  <2>1. m \in Nat \ {0} /\ l \in Nat /\ l <= Len(s) /\ KeepLast(s, n) = SubSeq(s, m, l)
    BY <1>2 DEF KeepLast
  <2>2. m = l - n + 1
    OBVIOUS
  <2> HIDE DEF m, l
  <2>3. SubSeq(s, m, l) \in Seq(S) /\ Len(SubSeq(s, m, l)) = IF m <= l THEN l - m + 1 ELSE 0
    BY <2>1, PartOver
  <2>4. (IF m <= l THEN l - m + 1 ELSE 0) <= n
    BY <2>1, <2>2
  <2> QED
    BY <2>1, <2>3, <2>4
<1> QED
  BY <1>1, <1>2

LEMMA BufferTypedStep == BufferTyped /\ [Next]_vars => BufferTyped'
<1> SUFFICES ASSUME BufferTyped, [Next]_vars PROVE BufferTyped'
  OBVIOUS
<1>a. /\ config.matches \in Seq(Match) /\ ebuf \in Seq(Runes) /\ Len(ebuf) <= MaxLen(config)
      /\ MaxLen(config) \in Nat /\ <<>> \in Seq(Runes) /\ Len(<<>>) = 0
  BY LongestTrigger DEF BufferTyped
<1>b. ASSUME config' = config, ebuf' \in {ebuf, <<>>} PROVE BufferTyped'
  <2>1. CASE ebuf' = ebuf
    BY <1>a, <1>b, <2>1 DEF BufferTyped
  <2>2. CASE ebuf' = <<>>
    <3> DEFINE n == MaxLen(config)
    <3>1. MaxLen(config') = n /\ n \in Nat
      BY <1>a, <1>b
    <3> HIDE DEF n
    <3>2. ebuf' \in Seq(Runes) /\ Len(ebuf') = 0
      BY <1>a, <2>2
    <3> QED
      BY <1>a, <1>b, <3>1, <3>2 DEF BufferTyped
  <2> QED
    BY <1>b, <2>1, <2>2
<1>1. CASE User \/ ReadEvent \/ ApplyExpansion \/ RunCorrector \/ Aside
  <2>1. UNCHANGED expanderVars
    BY <1>1, UserElsewhere DEF Elsewhere, ReadEvent, ApplyExpansion, RunCorrector, Aside, DBusSetEnabled,
       ActiveWindow, SetLookup, Unplug, PlugIn, vars
  <2> QED
    BY <1>b, <2>1 DEF expanderVars
<1>2. CASE RunExpander
  <2> DEFINE key == ev.key
             value == ev.value
  <2>1. ExpanderHandleEvent(key, value, Held, caps) /\ config' = config
    BY <1>2 DEF RunExpander, ExpanderHandleEvent
  <2>2. CASE \/ XShiftKey(key, value, Held) \/ XAltGrKey(key, value, Held)
             \/ XChordModifierKey(key, value, Held) \/ XNotAPress(key, value, Held)
             \/ XClear(key, value, Held) \/ XUnmapped(key, value, Held)
    BY <1>b, <2>1, <2>2 DEF XShiftKey, XAltGrKey, XChordModifierKey, XNotAPress, XClear, XUnmapped, ResetExpander
  <2>3. CASE XBackspace(key, value, Held)
    <3>1. CASE ebuf = <<>>
      BY <1>b, <2>1, <2>3, <3>1 DEF XBackspace
    <3>2. CASE ebuf # <<>>
      <4> DEFINE n == Len(ebuf) - 1
      <4>1. n \in Nat /\ n <= Len(ebuf) /\ n <= MaxLen(config) /\ 1 \in Nat \ {0} /\ ebuf' = SubSeq(ebuf, 1, n)
        BY <1>a, <2>3, <3>2 DEF XBackspace, Front
      <4> HIDE DEF n
      <4>2. SubSeq(ebuf, 1, n) \in Seq(Runes) /\ Len(SubSeq(ebuf, 1, n)) = IF 1 <= n THEN n - 1 + 1 ELSE 0
        BY <1>a, <4>1, PartOver
      <4>3. Len(SubSeq(ebuf, 1, n)) = n
        BY <4>1, <4>2
      <4> QED
        BY <1>a, <2>1, <4>1, <4>2, <4>3 DEF BufferTyped
    <3> QED
      BY <3>1, <3>2
  <2>4. CASE XSpace(key, value, Held)
    BY <1>b, <2>1, <2>4 DEF XSpace, Expand
  <2>5. CASE XPrint(key, value, Held, caps)
    <3> DEFINE x == XChar(key, Held, caps)
               typed == KeepLast(Append(ebuf, x), MaxLen(config))
    <3>1. key \in PrintingKeys /\ ebuf' \in {typed, <<>>}
      BY <2>5 DEF XPrint, Expand
    <3>2. x \in Runes
      BY <3>1, CharactersAreRunes DEF XChar
    <3> HIDE DEF x
    <3>3. Append(ebuf, x) \in Seq(Runes)
      BY <1>a, <3>2
    <3>4. typed \in Seq(Runes) /\ Len(typed) <= MaxLen(config)
      BY <1>a, <3>3, LastKept
    <3> HIDE DEF typed
    <3>5. CASE ebuf' = typed
      BY <1>a, <2>1, <3>4, <3>5 DEF BufferTyped
    <3>6. CASE ebuf' = <<>>
      BY <1>b, <2>1, <3>6
    <3> QED
      BY <3>1, <3>5, <3>6
  <2> QED
    BY <2>1, <2>2, <2>3, <2>4, <2>5 DEF ExpanderHandleEvent
<1>3. CASE Act
  <2>1. config' = config /\ ebuf' \in {ebuf, <<>>}
    BY <1>3 DEF Act, ActOnExpansion, ActOnToggle, ApplyPlan, FailPlan, ActOnNothing, Finish, AfterCorrection,
                ResetExpander
  <2> QED
    BY <1>b, <2>1
<1>4. CASE Restarted
  <2>1. ASSUME NEW setup \in Setups, ReloadConfig(setup) PROVE BufferTyped'
    <3>1. setup.expander.matches \in Seq(Match)
      BY TypingAssumption DEF Match
    <3>2. config' = setup.expander /\ ebuf' = KeepLast(ebuf, MaxLen(setup.expander))
      BY <2>1 DEF ReloadConfig, Reload
    <3> QED
      BY <1>a, <3>1, <3>2, LongestTrigger, LastKept DEF BufferTyped
  <2>2. CASE (\E d \in Devices : KeyboardDone(d)) \/ RefreshKeyboards
    BY <1>b, <2>2 DEF KeyboardDone, RefreshKeyboards, ResetExpander
  <2> QED
    BY <1>4, <2>1, <2>2 DEF Restarted
<1> QED
  BY <1>1, <1>2, <1>3, <1>4, TextStepKinds

LEMMA BufferTypedInit == Init => BufferTyped
<1> SUFFICES ASSUME Init PROVE BufferTyped
  OBVIOUS
<1>1. PICK setup \in Setups : ExpanderInit(setup.expander)
  BY DEF Init
<1>2. config.matches \in Seq(Match) /\ ebuf = <<>>
  BY <1>1, TypingAssumption DEF ExpanderInit, Match
<1> QED
  BY <1>2, LongestTrigger DEF BufferTyped

(* The text.  A replacement that is no longer than its trigger and fits the *)
(* text, in characters the virtual keyboard has, keeps the text within the *)
(* bound; a correction has the length of the word it replaces.             *)
Lean(m) == Typeable(m.replace) /\ Len(m.replace) <= Len(m.trigger) /\ Len(m.replace) <= MaxText
LeanSetups ==
  \A setup \in Setups : \A i \in DOMAIN setup.expander.matches : Lean(setup.expander.matches[i])

TextTyped == text \in Seq(Runes) /\ Len(text) <= MaxText
LeanExpansion(e) == e.match \in Match /\ e.extra \in 0..1 /\ Lean(e.match)
LeanMatches ==
  /\ LeanExpansion(expansion) /\ LeanExpansion(epending)
  /\ \A i \in DOMAIN config.matches : Lean(config.matches[i])
TextFits ==
  /\ TextTyped /\ LeanMatches
  /\ pc \in {"select", "expander", "expand", "corrector", "act"} /\ Len(ch) <= MaxAhead

LEMMA NothingFits == LeanExpansion(NoExpansion) /\ MaxText \in Nat /\ <<>> \in Seq(Runes) /\ Len(<<>>) = 0
<1>1. NoExpansion.match.replace = <<>> /\ NoExpansion.match.trigger = <<>>
  BY DEF NoExpansion, NoMatch
<1>2. Len(<<>>) = 0 /\ MaxText \in Nat /\ 0 <= MaxText
  BY TypingAssumption
<1>3. NoExpansion.match \in Match /\ NoExpansion.extra = 0 /\ <<>> \in Seq(Runes)
  BY DEF NoExpansion, NoMatch, Match
<1> QED
  BY <1>1, <1>2, <1>3 DEF LeanExpansion, Lean, Typeable

LEMMA GlyphsAreRunes ==
  ASSUME NEW key \in Keys \ (ModifierKeys \cup ErasingKeys \cup {"KEY_CAPSLOCK"}), NEW mods, NEW capsOn
  PROVE  Glyph(key, mods, capsOn) \in Runes
<1>1. key \in PrintingKeys \cup {"KEY_ENTER", "KEY_KP1"}
  BY DEF Keys, TextKeys, OtherKeys, ErasingKeys
<1>2. "nl" \in Runes /\ "1" \in Runes /\ "unknown" \in Runes
  BY DEF Runes
<1>3. CASE key \in {"KEY_ENTER", "KEY_KP1"}
  BY <1>2, <1>3 DEF Glyph
<1>4. CASE key \notin {"KEY_ENTER", "KEY_KP1"}
  BY <1>1, <1>2, <1>4, CharactersAreRunes DEF Glyph
<1> QED
  BY <1>3, <1>4

LEMMA ShownIsRune ==
  ASSUME NEW c \in DOMAIN ReverseKey
  PROVE  Shown(c) \in Runes
<1>1. ReverseKey[c] \in Strokes
  BY ReverseTypes
<1>2. ReverseKey[c].key \in PrintingKeys \cup {"KEY_ENTER"}
  BY <1>1 DEF Strokes
<1>3. PrintingKeys \cup {"KEY_ENTER"} \subseteq Keys \ (ModifierKeys \cup ErasingKeys \cup {"KEY_CAPSLOCK"})
  BY DEF PrintingKeys, Chars, Keys, TextKeys, OtherKeys, ModifierKeys, ModifierClass, ErasingKeys
<1> DEFINE key == ReverseKey[c].key
           mods == StrokeMods(c) \cup PhysicalMods
<1>4. key \in Keys \ (ModifierKeys \cup ErasingKeys \cup {"KEY_CAPSLOCK"}) /\ Shown(c) = Glyph(key, mods, led)
  BY <1>2, <1>3 DEF Shown
<1> HIDE DEF key, mods
<1> QED
  BY <1>4, GlyphsAreRunes

LEMMA KeptFits ==
  ASSUME NEW t \in Seq(Runes), NEW n \in Nat
  PROVE  KeepFirst(t, n) \in Seq(Runes) /\ Len(KeepFirst(t, n)) <= n /\ Len(KeepFirst(t, n)) <= Len(t)
<1> DEFINE l == Len(t)
           k == IF l > n THEN n ELSE l
<1>1. l \in Nat
  OBVIOUS
<1>2. KeepFirst(t, n) = SubSeq(t, 1, k)
  BY DEF KeepFirst
<1>3. l = Len(t)
  OBVIOUS
<1> HIDE DEF l
<1>4. k \in Nat /\ k <= l /\ k <= n /\ 1 \in Nat \ {0}
  BY <1>1
<1> HIDE DEF k
<1>5. SubSeq(t, 1, k) \in Seq(Runes) /\ Len(SubSeq(t, 1, k)) = IF 1 <= k THEN k - 1 + 1 ELSE 0
  BY <1>3, <1>4, PartOver
<1>6. Len(SubSeq(t, 1, k)) = k
  BY <1>4, <1>5
<1> QED
  BY <1>2, <1>3, <1>4, <1>5, <1>6

LEMMA CursorBackFits ==
  ASSUME NEW t \in Seq(Runes), Len(t) <= MaxText, NEW n \in Nat
  PROVE  /\ CursorBack(t, n) \in Seq(Runes) /\ Len(CursorBack(t, n)) <= MaxText
         /\ Len(CursorBack(t, n)) <= (IF Len(t) > n THEN Len(t) - n ELSE 0)
<1> DEFINE l == Len(t)
           k == IF l > n THEN l - n ELSE 0
<1>1. l \in Nat /\ MaxText \in Nat /\ l <= MaxText
  BY TypingAssumption
<1>2. CursorBack(t, n) = KeepFirst(t, k) /\ l = Len(t)
  BY DEF CursorBack
<1>3. k = IF Len(t) > n THEN Len(t) - n ELSE 0
  OBVIOUS
<1> HIDE DEF l
<1>4. k \in Nat
  BY <1>1
<1> HIDE DEF k
<1> DEFINE r == KeepFirst(t, k)
<1>5. r \in Seq(Runes) /\ Len(r) <= k /\ Len(r) <= Len(t)
  BY <1>4, KeptFits
<1>6. Len(r) \in Nat
  BY <1>5
<1> HIDE DEF r
<1> QED
  BY <1>1, <1>2, <1>3, <1>4, <1>5, <1>6 DEF r

LEMMA LongerText ==
  ASSUME TextTyped, Len(text) < MaxText, NEW c \in Runes
  PROVE  Append(text, c) \in Seq(Runes) /\ Len(Append(text, c)) <= MaxText
<1> DEFINE l == Len(text)
           a == Append(text, c)
<1>1. l \in Nat /\ l < MaxText /\ MaxText \in Nat
  BY TypingAssumption DEF TextTyped
<1>2. a \in Seq(Runes) /\ Len(a) = l + 1
  BY DEF TextTyped
<1> HIDE DEF l, a
<1>3. a \in Seq(Runes) /\ Len(a) <= MaxText
  BY <1>1, <1>2
<1> QED
  BY <1>3 DEF a

LEMMA ChordFits ==
  ASSUME TextTyped, NEW u \in ChordEffects
  PROVE  u \in Seq(Runes) /\ Len(u) <= MaxText
<1>1. "z" \in Runes
  BY LetterForms, CharactersAreRunes
<1>2. CASE u = text
  BY <1>2 DEF TextTyped
<1>3. CASE u = <<>>
  BY <1>3, NothingFits
<1>4. CASE Len(text) < MaxText /\ u = Append(text, "z")
  BY <1>1, <1>4, LongerText
<1> QED
  BY <1>2, <1>3, <1>4 DEF ChordEffects

(* What one plain key leaves.                                              *)
LEMMA ShowKeyFits ==
  ASSUME TextTyped, NEW key \in TypedKeys, ShowKey(key)
  PROVE  TextTyped'
<1>1. CASE text' = text
  BY <1>1 DEF TextTyped
<1>2. CASE text' \in ChordEffects
  BY <1>2, ChordFits DEF TextTyped
<1>3. CASE text' = Erase(text)
  <2>1. CASE text = <<>>
    BY <1>3, <2>1 DEF Erase, TextTyped
  <2>2. CASE text # <<>>
    <3> DEFINE n == Len(text) - 1
    <3>1. text \in Seq(Runes) /\ Len(text) \in Nat \ {0} /\ Len(text) <= MaxText /\ MaxText \in Nat
      BY <2>2, TypingAssumption DEF TextTyped
    <3>2. n \in Nat /\ n <= Len(text) /\ n <= MaxText /\ text' = SubSeq(text, 1, n)
      BY <1>3, <2>2, <3>1 DEF Erase, Front
    <3> HIDE DEF n
    <3>3. SubSeq(text, 1, n) \in Seq(Runes) /\ Len(SubSeq(text, 1, n)) = IF 1 <= n THEN n - 1 + 1 ELSE 0
      BY <3>1, <3>2, PartOver
    <3>4. Len(text') = n
      BY <3>2, <3>3
    <3> QED
      BY <3>2, <3>3, <3>4 DEF TextTyped
  <2> QED
    BY <2>1, <2>2
<1>4. CASE key \notin ErasingKeys \cup {"KEY_CAPSLOCK"} /\ Len(text) < MaxText
           /\ text' = Append(text, Glyph(key, PhysicalMods, led))
  <2> DEFINE c == Glyph(key, PhysicalMods, led)
  <2>1. c \in Runes
    BY <1>4, TextKeysFacts, GlyphsAreRunes
  <2> HIDE DEF c
  <2>2. text' = Append(text, c)
    BY <1>4 DEF c
  <2> QED
    BY <1>4, <2>1, <2>2, LongerText DEF TextTyped
<1> QED
  BY <1>1, <1>2, <1>3, <1>4 DEF ShowKey, ErasingKeys

(* The text an edit leaves, whatever becomes of the edit.                  *)
LEMMA EditFits ==
  ASSUME TextTyped, NEW edit, edit.backspaces \in Nat, edit.type \in Seq(Runes), Typeable(edit.type),
         Len(edit.type) <= edit.backspaces, Len(edit.type) <= MaxText, edit.restore \in Seq(Runes),
         NEW t, t \in {Rewritten(edit, Len(edit.type))} \cup ChordEffects \/ t \in PartialEdits(edit)
  PROVE  t \in Seq(Runes) /\ Len(t) <= MaxText
<1>a. /\ text \in Seq(Runes) /\ Len(text) <= MaxText /\ Len(text) \in Nat /\ MaxText \in Nat
      /\ Len(edit.type) \in Nat /\ edit.backspaces \in Nat
  BY TypingAssumption DEF TextTyped
<1>1. ASSUME NEW n \in Nat
      PROVE  /\ Deleted(n) \in Seq(Runes) /\ Len(Deleted(n)) <= MaxText
             /\ Len(Deleted(n)) <= (IF Len(text) > n THEN Len(text) - n ELSE 0)
  <2>1. Deleted(n) = CursorBack(text, n)
    BY DEF Deleted, CursorBack
  <2> QED
    BY <1>a, <2>1, CursorBackFits
<1>2. ASSUME NEW n \in 0..Len(edit.type)
      PROVE  Rewritten(edit, n) \in Seq(Runes) /\ Len(Rewritten(edit, n)) <= MaxText
  <2> DEFINE q == Deleted(edit.backspaces)
             shown == [i \in 1..n |-> Shown(edit.type[i])]
             b == edit.backspaces
             l == Len(text)
             m == Len(q)
  <2>1. \A i \in 1..n : Shown(edit.type[i]) \in Runes
    <3> SUFFICES ASSUME NEW i \in 1..n PROVE Shown(edit.type[i]) \in Runes
      OBVIOUS
    <3>1. i \in DOMAIN edit.type
      BY <1>a
    <3>2. edit.type[i] \in DOMAIN ReverseKey
      BY <3>1 DEF Typeable
    <3> DEFINE c == edit.type[i]
    <3>3. c \in DOMAIN ReverseKey
      BY <3>2
    <3> HIDE DEF c
    <3>4. Shown(c) \in Runes
      BY <3>3, ShownIsRune
    <3> QED
      BY <3>4 DEF c
  <2>2. n \in Nat /\ n <= Len(edit.type)
    BY <1>a
  <2>3. shown \in Seq(Runes) /\ Len(shown) = n
    BY <2>1, <2>2
  <2>4. q \in Seq(Runes) /\ m <= (IF l > b THEN l - b ELSE 0) /\ m \in Nat
    <3>1. q \in Seq(Runes) /\ Len(q) <= (IF Len(text) > b THEN Len(text) - b ELSE 0)
      BY <1>1, <1>a
    <3>2. Len(q) \in Nat
      BY <3>1
    <3> QED
      BY <3>1, <3>2
  <2>5. Rewritten(edit, n) = q \o shown
    BY DEF Rewritten
  <2> HIDE DEF q, shown
  <2>6. q \o shown \in Seq(Runes) /\ Len(q \o shown) = m + n
    <3>1. \A u, v \in Seq(Runes) : u \o v \in Seq(Runes) /\ Len(u \o v) = Len(u) + Len(v)
      OBVIOUS
    <3> QED
      BY <2>3, <2>4, <3>1
  <2>7. l \in Nat /\ l <= MaxText /\ b \in Nat /\ n <= b /\ n <= MaxText
    BY <1>a, <2>2
  <2> HIDE DEF m, l, b
  <2>8. m + n <= MaxText
    BY <1>a, <2>2, <2>4, <2>7
  <2> QED
    BY <2>5, <2>6, <2>8
<1>3. \A u \in ChordEffects : u \in Seq(Runes) /\ Len(u) <= MaxText
  BY ChordFits
<1>4. Len(edit.type) \in 0..Len(edit.type) /\ 0..edit.backspaces \subseteq Nat
  BY <1>a
<1>5. ASSUME NEW n \in 0..Len(edit.type), NEW m \in 1..Len(edit.restore), Restorable(edit)
      PROVE  PutBack(edit, n, m) \in Seq(Runes)
  <2> DEFINE shown == [i \in 1..m |-> Shown(edit.restore[i])]
             q == Rewritten(edit, n)
  <2>1. \A i \in 1..m : Shown(edit.restore[i]) \in Runes
    <3> SUFFICES ASSUME NEW i \in 1..m PROVE Shown(edit.restore[i]) \in Runes
      OBVIOUS
    <3>1. Len(edit.restore) \in Nat /\ DOMAIN edit.restore = 1..Len(edit.restore)
      OBVIOUS
    <3>2. i \in DOMAIN edit.restore
      BY <3>1
    <3> DEFINE c == edit.restore[i]
    <3>3. c \in DOMAIN ReverseKey
      BY <1>5, <3>2 DEF Restorable, Range
    <3> HIDE DEF c
    <3>4. Shown(c) \in Runes
      BY <3>3, ShownIsRune
    <3> QED
      BY <3>4 DEF c
  <2>2. m \in Nat
    OBVIOUS
  <2>3. shown \in Seq(Runes)
    BY <2>1, <2>2
  <2>4. q \in Seq(Runes)
    BY <1>2
  <2> HIDE DEF q, shown
  <2>5. q \o shown \in Seq(Runes)
    BY <2>3, <2>4
  <2> QED
    BY <2>5 DEF PutBack, q, shown
<1> QED
  BY <1>a, <1>1, <1>2, <1>3, <1>4, <1>5 DEF PartialEdits

(* An expansion is one of the configured ones.                             *)
LEMMA ExpandsLean ==
  ASSUME BufferTyped, LeanMatches, NEW key, NEW value, NEW mods, NEW capsOn,
         ExpanderHandleEvent(key, value, mods, capsOn)
  PROVE  LeanExpansion(expansion') /\ LeanExpansion(epending')
<1>a. /\ LeanExpansion(NoExpansion) /\ LeanExpansion(expansion) /\ LeanExpansion(epending)
      /\ config.matches \in Seq(Match) /\ \A i \in DOMAIN config.matches : Lean(config.matches[i])
  BY NothingFits DEF LeanMatches, BufferTyped
<1>1. ASSUME NEW t, NEW extra \in 0..1, NEW other, Expand(t, extra, mods, other)
      PROVE  LeanExpansion(expansion') /\ LeanExpansion(epending')
  <2>1. CASE Matching(t) = {}
    BY <1>a, <1>1, <2>1 DEF Expand
  <2>2. CASE Matching(t) # {}
    <3> DEFINE m == FirstMatch(t)
               e == [match |-> m, extra |-> extra]
    <3>1. m \in Match /\ Lean(m)
      BY <1>a, <2>2, FirstMatchMatches
    <3>2. expansion' \in {e, NoExpansion} /\ epending' \in {e, NoExpansion}
      BY <1>1, <2>2 DEF Expand
    <3>3. e.match = m /\ e.extra = extra
      OBVIOUS
    <3> HIDE DEF m, e
    <3>4. LeanExpansion(e)
      BY <3>1, <3>3 DEF LeanExpansion
    <3> QED
      BY <1>a, <3>2, <3>4
  <2> QED
    BY <2>1, <2>2
<1>2. CASE XShiftKey(key, value, mods) \/ XAltGrKey(key, value, mods)
  BY <1>2, <1>a DEF XShiftKey, XAltGrKey, ReleaseExpansion
<1>3. CASE XChordModifierKey(key, value, mods) \/ XNotAPress(key, value, mods)
        \/ XClear(key, value, mods) \/ XUnmapped(key, value, mods) \/ XBackspace(key, value, mods)
  BY <1>3, <1>a DEF XChordModifierKey, XNotAPress, XClear, XUnmapped, XBackspace, ResetExpander
<1>4. CASE XSpace(key, value, mods)
  BY <1>4, <1>1 DEF XSpace
<1>5. CASE XPrint(key, value, mods, capsOn)
  <2> DEFINE typed == KeepLast(Append(ebuf, XChar(key, mods, capsOn)), MaxLen(config))
  <2>1. Expand(typed, 0, mods, typed) \/ (expansion' = NoExpansion /\ epending' = NoExpansion)
    BY <1>5 DEF XPrint
  <2> HIDE DEF typed
  <2> QED
    BY <1>a, <1>1, <2>1
<1> QED
  BY <1>2, <1>3, <1>4, <1>5 DEF ExpanderHandleEvent

LEMMA UserFits ==
  ASSUME KeyboardsTyped, TextTyped, Len(ch) <= MaxAhead, User
  PROVE  TextTyped' /\ Len(ch') <= MaxAhead
<1>a. heldKey \in RepeatKeys \cup {NoKey} /\ RepeatKeys \subseteq TypedKeys
  BY TextKeysFacts DEF KeyboardsTyped
<1>1. ASSUME NEW e, ch' = Append(ch, e), CaughtUp PROVE Len(ch') <= MaxAhead
  <2>1. Len(ch) \in Nat /\ Len(Append(ch, e)) = Len(ch) + 1 /\ MaxAhead \in Nat
    BY TypingAssumption DEF KeyboardsTyped
  <2>2. Len(ch) < MaxAhead
    BY <1>1, <2>1 DEF CaughtUp
  <2> QED
    BY <1>1, <2>1, <2>2
<1>2. ASSUME NEW d, NEW key, NEW value, Queue(d, key, value), CaughtUp PROVE Len(ch') <= MaxAhead
  BY <1>1, <1>2 DEF Queue
<1>3. ASSUME NEW d \in Devices, NEW key \in HeldKeys, PressModifier(d, key) \/ ReleaseModifier(d, key)
      PROVE  TextTyped' /\ Len(ch') <= MaxAhead
  BY <1>2, <1>3 DEF PressModifier, ReleaseModifier, TextTyped
<1>4. ASSUME NEW d \in Devices, NEW key \in TypedKeys, PressKey(d, key)
      PROVE  TextTyped' /\ Len(ch') <= MaxAhead
  BY <1>2, <1>4, ShowKeyFits DEF PressKey
<1>5. ASSUME NEW d \in Devices, RepeatKey(d) PROVE TextTyped' /\ Len(ch') <= MaxAhead
  BY <1>a, <1>2, <1>5, ShowKeyFits DEF RepeatKey
<1>6. ASSUME NEW d \in Devices, ReleaseKey(d) PROVE TextTyped' /\ Len(ch') <= MaxAhead
  BY <1>2, <1>6 DEF ReleaseKey, TextTyped
<1> QED
  BY <1>3, <1>4, <1>5, <1>6 DEF User

(* The edit an expansion asks for, and the text it leaves.                 *)
LEMMA ExpansionFits ==
  ASSUME TextFits, ApplyExpansion
  PROVE  TextTyped'
<1> DEFINE edit == ExpansionEdit(expansion)
           type == expansion.match.replace
           back == expansion.match.back
           l == Len(expansion.match.trigger)
           x == expansion.extra
<1>1. /\ type \in Seq(Runes) /\ l \in Nat /\ x \in Nat /\ back \in Nat
      /\ Typeable(type) /\ Len(type) <= l /\ Len(type) <= MaxText /\ Len(type) \in Nat
  <2>1. /\ expansion.match.trigger \in Seq(Runes) /\ type \in Seq(Runes) /\ back \in Nat
        /\ x \in Nat /\ Lean(expansion.match)
    BY DEF TextFits, LeanMatches, LeanExpansion, Match
  <2> QED
    BY <2>1 DEF Lean
<1>2. edit.backspaces = l + x /\ edit.type = type
  BY DEF ExpansionEdit
<1>b. edit.restore \in Seq(Runes)
  <2>1. expansion.match.trigger \in Seq(Runes) /\ x \in {0, 1}
    BY DEF TextFits, LeanMatches, LeanExpansion, Match
  <2> QED
    BY <2>1, SpacedTrigger, Zenon DEF ExpansionEdit
<1>3. \/ \E t \in {Rewritten(edit, Len(edit.type))} \cup ChordEffects : text' = CursorBack(t, back)
      \/ text' \in PartialEdits(edit)
  BY DEF ApplyExpansion
<1> HIDE DEF edit, type, back, l, x
<1>4. /\ edit.backspaces \in Nat /\ edit.type \in Seq(Runes) /\ Typeable(edit.type)
      /\ Len(edit.type) <= edit.backspaces /\ Len(edit.type) <= MaxText
  BY <1>1, <1>2
<1>5. \A t : t \in {Rewritten(edit, Len(edit.type))} \cup ChordEffects \/ t \in PartialEdits(edit) =>
              t \in Seq(Runes) /\ Len(t) <= MaxText
  BY <1>b, <1>4, EditFits DEF TextFits
<1> QED
  BY <1>1, <1>3, <1>5, CursorBackFits DEF TextTyped

(* The edit of a plan.                                                     *)
LEMMA PlanFits ==
  ASSUME TextFits, CorrectorTypes, BufCap < MaxText, ApplyPlan \/ FailPlan
  PROVE  TextTyped'
<1> DEFINE edit == result.plan
           type == edit.type
           b == edit.backspaces
           n == Len(type)
<1>1. type \in Seq(Runes) /\ edit.restore \in Seq(Runes) /\ b = Len(edit.restore) /\ PlanEven(edit)
  BY DEF CorrectorTypes, CorrectorTypeOK, PlanOK
<1>2. n \in Nat /\ b = n /\ Typeable(type) /\ n <= BufCap + 1 /\ BufCap \in Nat /\ MaxText \in Nat
  BY <1>1, CorrectorAssumption, TypingAssumption DEF PlanEven
<1>3. text' \in {Rewritten(edit, Len(edit.type))} \cup ChordEffects \/ text' \in PartialEdits(edit)
  BY DEF ApplyPlan, FailPlan
<1>4. /\ edit.type = type /\ edit.backspaces = b /\ Len(edit.type) = n
  OBVIOUS
<1> HIDE DEF edit, type, b, n
<1>5. n <= b /\ b \in Nat /\ n <= MaxText
  BY <1>2
<1>6. \A t : t \in {Rewritten(edit, Len(edit.type))} \cup ChordEffects \/ t \in PartialEdits(edit) =>
              t \in Seq(Runes) /\ Len(t) <= MaxText
  BY <1>1, <1>2, <1>4, <1>5, EditFits DEF TextFits
<1> QED
  BY <1>3, <1>6 DEF TextTyped

LEMMA TextFitsStep ==
  ASSUME LeanSetups, BufCap < MaxText
  PROVE  KeyboardsTyped /\ CorrectorTypes /\ BufferTyped /\ TextFits /\ [Next]_vars => TextFits'
<1> SUFFICES ASSUME KeyboardsTyped, CorrectorTypes, BufferTyped, TextFits, [Next]_vars PROVE TextFits'
  OBVIOUS
<1>a. /\ LeanExpansion(NoExpansion) /\ LeanExpansion(expansion) /\ LeanExpansion(epending)
      /\ \A i \in DOMAIN config.matches : Lean(config.matches[i])
      /\ pc \in {"select", "expander", "expand", "corrector", "act"} /\ Len(ch) <= MaxAhead
      /\ TextTyped /\ ch \in Seq(KeyEvents)
  BY NothingFits DEF TextFits, LeanMatches, KeyboardsTyped
<1>b. ASSUME text' = text \/ TextTyped', config' = config,
             expansion' \in {expansion, NoExpansion}, epending' \in {epending, NoExpansion},
             pc' \in {pc, "corrector", "act", "select"}, ch' = ch
      PROVE  TextFits'
  <2>1. TextTyped'
    BY <1>a, <1>b DEF TextTyped
  <2> QED
    BY <1>a, <1>b, <2>1 DEF TextFits, LeanMatches
<1>1. CASE User
  <2>1. TextTyped' /\ Len(ch') <= MaxAhead
    BY <1>1, <1>a, UserFits
  <2>2. UNCHANGED <<config, expansion, epending, pc>>
    BY <1>1, UserElsewhere DEF Elsewhere, expanderVars
  <2> QED
    BY <1>a, <2>1, <2>2 DEF TextFits, LeanMatches
<1>2. CASE ReadEvent
  <2>1. /\ ch' = Tail(ch) /\ ch # <<>> /\ UNCHANGED <<text, config, expansion, epending>>
        /\ pc' \in {pc, "expander"}
    BY <1>2 DEF ReadEvent, expanderVars, screenVars
  <2>2. Len(ch') <= MaxAhead
    <3>1. Len(ch) \in Nat /\ Len(Tail(ch)) = Len(ch) - 1 /\ MaxAhead \in Nat
      BY <1>a, <2>1, TypingAssumption
    <3> QED
      BY <1>a, <2>1, <3>1
  <2> QED
    BY <1>a, <2>1, <2>2 DEF TextFits, TextTyped, LeanMatches
<1>3. CASE RunExpander
  <2>1. /\ ExpanderHandleEvent(ev.key, ev.value, Held, caps) /\ UNCHANGED <<text, config, ch>>
        /\ pc' \in {"expand", "corrector"}
    BY <1>3 DEF RunExpander, ExpanderHandleEvent, screenVars
  <2>2. LeanExpansion(expansion') /\ LeanExpansion(epending')
    BY <2>1, ExpandsLean DEF TextFits
  <2> QED
    BY <1>a, <2>1, <2>2 DEF TextFits, TextTyped, LeanMatches
<1>4. CASE ApplyExpansion
  <2>1. TextTyped'
    BY <1>4, ExpansionFits
  <2>2. pc' = "corrector" /\ UNCHANGED <<config, expansion, epending, ch>>
    BY <1>4 DEF ApplyExpansion, expanderVars
  <2> QED
    BY <1>b, <2>1, <2>2
<1>5. CASE RunCorrector
  BY <1>5, <1>b DEF RunCorrector, expanderVars, screenVars
<1>6. CASE Act
  <2>1. text' = text \/ TextTyped'
    <3>1. CASE ApplyPlan \/ FailPlan
      BY <3>1, PlanFits
    <3> QED
      BY <1>6, <3>1 DEF Act, ActOnExpansion, ActOnToggle, ActOnNothing
  <2>2. pc' = "select" /\ UNCHANGED <<config, ch>> /\ expansion' = NoExpansion /\ epending' \in {epending, NoExpansion}
    BY <1>6 DEF Act, ActOnExpansion, ActOnToggle, ApplyPlan, FailPlan, ActOnNothing, Finish, AfterCorrection,
                ResetExpander
  <2> QED
    BY <1>b, <2>1, <2>2
<1>7. CASE Aside
  BY <1>7, <1>b DEF Aside, DBusSetEnabled, ActiveWindow, SetLookup, Unplug, PlugIn, vars, expanderVars,
                    loopVars, screenVars
<1>8. CASE Restarted
  <2>1. ASSUME NEW setup \in Setups, ReloadConfig(setup) PROVE TextFits'
    <3>1. config' = setup.expander /\ UNCHANGED <<epending, expansion, text, pc, ch>>
      BY <2>1 DEF ReloadConfig, Reload, loopVars, screenVars
    <3>2. \A i \in DOMAIN config'.matches : Lean(config'.matches[i])
      BY <3>1 DEF LeanSetups
    <3> QED
      BY <1>a, <3>1, <3>2 DEF TextFits, TextTyped, LeanMatches
  <2>2. CASE (\E d \in Devices : KeyboardDone(d)) \/ RefreshKeyboards
    BY <1>b, <2>2 DEF KeyboardDone, RefreshKeyboards, ResetExpander, loopVars, screenVars
  <2> QED
    BY <1>8, <2>1, <2>2 DEF Restarted
<1> QED
  BY <1>1, <1>2, <1>3, <1>4, <1>5, <1>6, <1>7, <1>8, TextStepKinds

LEMMA TextFitsInit ==
  ASSUME LeanSetups
  PROVE  Init => TextFits
<1> SUFFICES ASSUME Init PROVE TextFits
  OBVIOUS
<1>1. PICK setup \in Setups : config = setup.expander /\ epending = NoExpansion /\ expansion = NoExpansion
  BY DEF Init, ExpanderInit
<1>2. text = <<>> /\ ch = <<>> /\ pc = "select" /\ MaxAhead \in Nat
  BY TypingAssumption DEF Init
<1>3. \A i \in DOMAIN config.matches : Lean(config.matches[i])
  BY <1>1 DEF LeanSetups
<1>4. MaxText \in Nat
  BY TypingAssumption
<1> QED
  BY <1>1, <1>2, <1>3, <1>4, NothingFits DEF TextFits, TextTyped, LeanMatches

(* The types of the whole key path: whatever is typed ahead, whatever is   *)
(* called, pulled out or reloaded and whichever edits fail, the text stays *)
(* text, the two buffers stay within their capacities and the loop's       *)
(* channel within its bound.  Only the bound on the text asks for          *)
(* hypotheses: a word fits it, and an expansion does not lengthen the text.*)
THEOREM TypesKept ==
  ASSUME LeanSetups, BufCap < MaxText
  PROVE  Spec => []TypeOK
<1>1. ModifiersInv /\ CorrectorTypes /\ BufferTyped /\ TextFits => TypeOK
  BY DEF ModifiersInv, CorrectorTypes, BufferTyped, TextFits, TextTyped, TypeOK
<1>2. ModifiersInv => KeyboardsTyped
  BY DEF ModifiersInv
<1>3. Init => CorrectorTypes /\ BufferTyped /\ TextFits
  BY CorrectorTypesInit, BufferTypedInit, TextFitsInit
<1>4. ModifiersInv /\ CorrectorTypes /\ BufferTyped /\ TextFits /\ [Next]_vars =>
        CorrectorTypes' /\ BufferTyped' /\ TextFits'
  BY <1>2, CorrectorTypesStep, BufferTypedStep, TextFitsStep
<1>5. Spec => []ModifiersInv
  BY ModifiersInvariant
<1> QED
  BY <1>1, <1>3, <1>4, <1>5, PTL DEF Spec
=============================================================================
