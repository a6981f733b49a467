-------------------------- MODULE AtParser_proofs --------------------------
(***************************************************************************)
(* Theorems about the AT parser, for all callbacks and lines, every size   *)
(* of the buffer and every number of lines and of lost characters.         *)
(***************************************************************************)
EXTENDS AtParser, WellFoundedInduction, FiniteSetTheorems, SequenceTheorems, TLAPS

-----------------------------------------------------------------------------
(* Sequences. *)

(* s stands in t from the place after n on. *)
StandsAt(s, t, n) ==
    /\ n >= 0 /\ n + Len(s) =< Len(t)
    /\ \A i \in 1..Len(s) : t[n + i] = s[i]

(* A cut of a sequence, and what it has. *)
LEMMA CutOf ==
    ASSUME NEW S, NEW s \in Seq(S), NEW m \in Nat \ {0}, NEW n \in Nat, n =< Len(s)
    PROVE  /\ SubSeq(s, m, n) \in Seq(S)
           /\ Len(SubSeq(s, m, n)) = IF m =< n THEN n - m + 1 ELSE 0
           /\ \A i \in 1..(n - m + 1) : SubSeq(s, m, n)[i] = s[m + i - 1]
<1>1. Len(s) \in Nat /\ \A i \in 1..Len(s) : s[i] \in S
  BY LenProperties, ElementOfSeq
<1>2. m \in Int /\ n \in Int /\ \A i \in m..n : s[i] \in S
  BY <1>1
<1>3. /\ SubSeq(s, m, n) \in Seq(S)
      /\ Len(SubSeq(s, m, n)) = IF m =< n THEN n - m + 1 ELSE 0
      /\ \A i \in 1..(n - m + 1) : SubSeq(s, m, n)[i] = s[m + i - 1]
  <2>1. \A j, k \in Int : (\A i \in j..k : s[i] \in S) =>
          /\ SubSeq(s, j, k) \in Seq(S)
          /\ Len(SubSeq(s, j, k)) = IF j =< k THEN k - j + 1 ELSE 0
          /\ \A i \in 1..(k - j + 1) : SubSeq(s, j, k)[i] = s[j + i - 1]
    BY SubSeqProperties
  <2> QED
    BY <1>2, <2>1
<1> QED
  BY <1>3

(* Prefixes and suffixes, character by character. *)
LEMMA PrefixStands ==
    ASSUME NEW S, NEW s \in Seq(S), NEW T, NEW t \in Seq(T)
    PROVE  IsPrefix(s, t) <=> StandsAt(s, t, 0)
<1> DEFINE n == Len(s)
<1>1. n \in Nat /\ Len(t) \in Nat
  BY LenProperties
<1>2. CASE n =< Len(t)
  <2>1. /\ SubSeq(s, 1, n) \in Seq(S) /\ Len(SubSeq(s, 1, n)) = n
        /\ \A i \in 1..n : SubSeq(s, 1, n)[i] = s[i]
    <3>1. SubSeq(s, 1, n) = s
      BY SubSeqFull
    <3> QED
      BY <3>1
  <2>2. /\ SubSeq(t, 1, n) \in Seq(T) /\ Len(SubSeq(t, 1, n)) = n
        /\ \A i \in 1..n : SubSeq(t, 1, n)[i] = t[i]
    <3>1. /\ SubSeq(t, 1, n) \in Seq(T)
          /\ Len(SubSeq(t, 1, n)) = IF 1 =< n THEN n - 1 + 1 ELSE 0
          /\ \A i \in 1..(n - 1 + 1) : SubSeq(t, 1, n)[i] = t[1 + i - 1]
      BY <1>1, <1>2, CutOf
    <3>2. n - 1 + 1 = n /\ \A i \in 1..n : 1 + i - 1 = i
      BY <1>1
    <3> QED
      BY <1>1, <3>1, <3>2
  <2>3. SubSeq(s, 1, n) = SubSeq(t, 1, n) <=> \A i \in 1..n : s[i] = t[i]
    <3>1. SubSeq(s, 1, n) \in Seq(S \cup T) /\ SubSeq(t, 1, n) \in Seq(S \cup T)
      BY <2>1, <2>2
    <3>2. (\A i \in 1..n : s[i] = t[i]) => SubSeq(s, 1, n) = SubSeq(t, 1, n)
      <4>1. ASSUME NEW a \in Seq(S \cup T), NEW b \in Seq(S \cup T), Len(a) = Len(b),
                   \A i \in 1..Len(a) : a[i] = b[i]
            PROVE  a = b
        BY <4>1, SeqEqual
      <4> QED
        BY <2>1, <2>2, <3>1, <4>1
    <3> QED
      BY <2>1, <2>2, <3>2
  <2> QED
    BY <1>1, <1>2, <2>3 DEF IsPrefix, StandsAt
<1>3. CASE ~(n =< Len(t))
  BY <1>1, <1>3 DEF IsPrefix, StandsAt
<1> QED
  BY <1>2, <1>3

LEMMA SuffixStands ==
    ASSUME NEW S, NEW s \in Seq(S), NEW T, NEW t \in Seq(T)
    PROVE  IsSuffix(s, t) <=> StandsAt(s, t, Len(t) - Len(s))
<1> DEFINE m == Len(s)
           n == Len(t)
<1>1. m \in Nat /\ n \in Nat
  BY LenProperties
<1>2. Reverse(s) \in Seq(S) /\ Len(Reverse(s)) = m
        /\ \A i \in 1..m : Reverse(s)[i] = s[m - i + 1]
  BY <1>1, ElementOfSeq DEF Reverse
<1>3. Reverse(t) \in Seq(T) /\ Len(Reverse(t)) = n
        /\ \A i \in 1..n : Reverse(t)[i] = t[n - i + 1]
  BY <1>1, ElementOfSeq DEF Reverse
<1>4. IsSuffix(s, t) <=> StandsAt(Reverse(s), Reverse(t), 0)
  BY <1>2, <1>3, PrefixStands DEF IsSuffix
<1>5. StandsAt(Reverse(s), Reverse(t), 0) <=>
        m =< n /\ \A i \in 1..m : t[n - i + 1] = s[m - i + 1]
  <2>1. StandsAt(Reverse(s), Reverse(t), 0) <=>
          0 + m =< n /\ \A i \in 1..m : Reverse(t)[0 + i] = Reverse(s)[i]
    BY <1>1, <1>2, <1>3 DEF StandsAt
  <2>2. m =< n => \A i \in 1..m : Reverse(t)[0 + i] = t[n - i + 1]
    <3>1. m =< n => \A i \in 1..m : i \in 1..n /\ 0 + i = i
      BY <1>1
    <3> QED
      BY <1>3, <3>1
  <2>3. \A i \in 1..m : Reverse(s)[i] = s[m - i + 1]
    BY <1>2
  <2>4. 0 + m = m
    BY <1>1
  <2> QED
    BY <2>1, <2>2, <2>3, <2>4
<1>6. ASSUME m =< n
      PROVE  (\A i \in 1..m : t[n - i + 1] = s[m - i + 1])
               <=> \A i \in 1..m : t[n - m + i] = s[i]
  <2>1. ASSUME \A i \in 1..m : t[n - i + 1] = s[m - i + 1], NEW i \in 1..m
        PROVE  t[n - m + i] = s[i]
    <3>1. m - i + 1 \in 1..m /\ n - (m - i + 1) + 1 = n - m + i /\ m - (m - i + 1) + 1 = i
      BY <1>1
    <3> QED
      BY <2>1, <3>1
  <2>2. ASSUME \A i \in 1..m : t[n - m + i] = s[i], NEW i \in 1..m
        PROVE  t[n - i + 1] = s[m - i + 1]
    <3>1. m - i + 1 \in 1..m /\ n - m + (m - i + 1) = n - i + 1
      BY <1>1
    <3> QED
      BY <2>2, <3>1
  <2> QED
    BY <2>1, <2>2
<1> QED
  BY <1>1, <1>4, <1>5, <1>6 DEF StandsAt

(* A set of numbers that is not empty has its least, ... *)
LEMMA HasLeast ==
    ASSUME NEW S \in SUBSET Nat, S # {}
    PROVE  \E x \in S : \A y \in S : x =< y
<1>1. \E x \in S : \A y \in S : ~ (<<y, x>> \in OpToRel(<, Nat))
  BY NatLessThanWellFounded, WFMin
<1>2. \A x, y \in S : ~ (<<y, x>> \in OpToRel(<, Nat)) => x =< y
  BY DEF OpToRel
<1> QED
  BY <1>1, <1>2

(* ... and a bounded one its greatest. *)
LEMMA HasGreatest ==
    ASSUME NEW S \in SUBSET Nat, S # {}, NEW b \in Nat, \A x \in S : x =< b
    PROVE  \E x \in S : \A y \in S : y =< x
<1> DEFINE T == {b - x : x \in S}
<1>1. T \in SUBSET Nat /\ T # {}
  <2>1. \A x \in S : b - x \in Nat
    OBVIOUS
  <2>2. \A e \in T : e \in Nat
    BY <2>1
  <2> QED
    BY <2>2
<1>2. PICK d \in T : \A e \in T : d =< e
  BY <1>1, HasLeast
<1>3. PICK x \in S : d = b - x
  BY <1>2
<1>4. \A y \in S : b - x =< b - y
  BY <1>2, <1>3
<1> QED
  BY <1>4

(* A set that has 0 and with a number the next has all up to N. *)
LEMMA UpTo ==
    ASSUME NEW N \in Nat, NEW H \in SUBSET (0..N), 0 \in H,
           \A n \in 1..N : n - 1 \in H => n \in H
    PROVE  \A n \in 0..N : n \in H
<1> DEFINE S == (0..N) \ H
<1>1. S \in SUBSET Nat
  OBVIOUS
<1>2. SUFFICES ASSUME S # {} PROVE FALSE
  OBVIOUS
<1>3. PICK m \in S : \A n \in S : m =< n
  BY <1>1, <1>2, HasLeast
<1>4. m \in 1..N /\ m - 1 \in 0..N
  BY <1>3
<1>5. m - 1 \in H
  BY <1>3, <1>4
<1> QED
  BY <1>3, <1>4, <1>5

-----------------------------------------------------------------------------
(* What the assumptions say. *)
LEMMA CallbackFacts ==
    ASSUME ParserAssumption
    PROVE  /\ Len(Oobs) \in Nat \ {0} /\ Callback = 1..Len(Oobs)
           /\ Longest \in Nat /\ BufSize \in Nat \ {0}
           /\ \A k \in Callback :
                 /\ Oobs[k].prefix \in Seq(Range(Oobs[k].prefix))
                 /\ Len(Oobs[k].prefix) \in Nat /\ Len(Oobs[k].prefix) >= 2
                 /\ Oobs[k].maxlen \in Nat /\ Oobs[k].maxlen =< Longest
                 /\ Len(Oobs[k].prefix) =< Oobs[k].maxlen
                 /\ \A i \in 1..Len(Oobs[k].prefix), j \in 1..Len(Postfix) :
                       Oobs[k].prefix[i] # Postfix[j]
<1>1. Len(Oobs) \in Nat \ {0} /\ Callback = 1..Len(Oobs)
  <2>1. Len(Oobs) \in Nat /\ DOMAIN Oobs = 1..Len(Oobs)
    BY DEF ParserAssumption
  <2>2. Len(Oobs) # 0
    BY EmptySeq DEF ParserAssumption
  <2> QED
    BY <2>1, <2>2 DEF Callback
<1>2. Longest \in {Oobs[k].maxlen : k \in Callback}
        /\ \A k \in Callback : Oobs[k].maxlen =< Longest
  <2> DEFINE M == {Oobs[k].maxlen : k \in Callback}
  <2>1. M \in SUBSET Nat /\ M # {} /\ BufSize \in Nat /\ \A n \in M : n =< BufSize
    BY <1>1 DEF ParserAssumption
  <2>2. \E n \in M : \A m \in M : m =< n
    BY <2>1, HasGreatest
  <2>3. \E n \in M : \A k \in Callback : Oobs[k].maxlen =< n
    BY <2>2
  <2> QED
    BY <2>3 DEF Longest
<1>3. ASSUME NEW k \in Callback
      PROVE  /\ Oobs[k].prefix \in Seq(Range(Oobs[k].prefix))
             /\ Len(Oobs[k].prefix) \in Nat /\ Len(Oobs[k].prefix) >= 2
             /\ Oobs[k].maxlen \in Nat /\ Oobs[k].maxlen < BufSize
             /\ Len(Oobs[k].prefix) =< Oobs[k].maxlen
             /\ Range(Oobs[k].prefix) \cap Range(Postfix) = {}
  BY LenProperties DEF ParserAssumption
<1>4. ASSUME NEW k \in Callback, NEW i \in 1..Len(Oobs[k].prefix), NEW j \in 1..Len(Postfix)
      PROVE  Oobs[k].prefix[i] # Postfix[j]
  <2>1. Oobs[k].prefix[i] \in Range(Oobs[k].prefix)
    BY <1>3, ElementOfSeq
  <2>2. Postfix[j] \in Range(Postfix)
    BY ElementOfSeq DEF ParserAssumption
  <2> QED
    BY <1>3, <2>1, <2>2
<1>5. BufSize \in Nat \ {0} /\ Longest \in Nat
  BY <1>1, <1>2, <1>3 DEF ParserAssumption
<1> QED
  BY <1>1, <1>2, <1>3, <1>4, <1>5

(* A line is a series of characters that ends with the postfix. *)
LEMMA FrameFacts ==
    ASSUME ParserAssumption, NEW f \in Frame
    PROVE  /\ f \in Seq(Char) /\ Len(f) \in Nat /\ Len(Postfix) \in Nat \ {0}
           /\ StandsAt(Postfix, f, Len(f) - Len(Postfix))
           /\ \A n \in 1..(Len(f) - 1) :
                 n - Len(Postfix) >= 0 => ~StandsAt(Postfix, f, n - Len(Postfix))
<1>1. /\ f \in Seq(Char) /\ Len(f) \in Nat /\ Postfix \in Seq(Range(Postfix))
      /\ Len(Postfix) \in Nat \ {0}
  BY LenProperties, EmptySeq DEF ParserAssumption
<1>2. StandsAt(Postfix, f, Len(f) - Len(Postfix))
  BY <1>1, SuffixStands DEF ParserAssumption
<1>3. ASSUME NEW n \in 1..(Len(f) - 1), n - Len(Postfix) >= 0
      PROVE  ~StandsAt(Postfix, f, n - Len(Postfix))
  <2> DEFINE g == SubSeq(f, 1, n)
  <2>1. /\ g \in Seq(Char)
        /\ Len(g) = IF 1 =< n THEN n - 1 + 1 ELSE 0
        /\ \A i \in 1..(n - 1 + 1) : g[i] = f[1 + i - 1]
    BY <1>1, CutOf
  <2>2. Len(g) = n /\ \A i \in 1..n : g[i] = f[i]
    <3>1. n - 1 + 1 = n /\ 1 =< n /\ \A i \in 1..n : 1 + i - 1 = i
      BY <1>1
    <3> QED
      BY <2>1, <3>1
  <2>3. ~IsSuffix(Postfix, g)
    BY DEF ParserAssumption
  <2>4. ~StandsAt(Postfix, g, n - Len(Postfix))
    BY <1>1, <2>1, <2>2, <2>3, SuffixStands
  <2> QED
    BY <1>1, <1>3, <2>2, <2>4 DEF StandsAt
<1> QED
  BY <1>1, <1>2, <1>3

-----------------------------------------------------------------------------
(* The scan: the callbacks asked one after the other. *)

(* The function that Scan defines is there. *)
LEMMA ScanSteps ==
    ASSUME ParserAssumption, NEW p, NEW c
    PROVE  \E asked :
              /\ asked[0] = p
              /\ \A n \in 1..Len(Oobs) : asked[n] = Ask(asked[n - 1], n, c)
              /\ Scan(p, c) = asked[Len(Oobs)]
<1> DEFINE N == Len(Oobs)
           Def(f, m) == f = [n \in 0..m |-> IF n = 0 THEN p ELSE Ask(f[n - 1], n, c)]
           H == {m \in 0..N : \E f : Def(f, m)}
<1>1. N \in Nat
  BY CallbackFacts
<1>2. 0 \in H
  <2>1. Def([n \in 0..0 |-> p], 0)
    OBVIOUS
  <2> HIDE DEF Def
  <2>2. 0 \in 0..N
    BY <1>1
  <2> QED
    BY <2>1, <2>2
<1>3. ASSUME NEW m \in 1..N, m - 1 \in H PROVE m \in H
  <2>1. PICK f : Def(f, m - 1)
    BY <1>3
  <2> DEFINE g == [n \in 0..m |-> IF n = m THEN Ask(f[m - 1], m, c) ELSE f[n]]
             h == [n \in 0..m |-> IF n = 0 THEN p ELSE Ask(g[n - 1], n, c)]
  <2>2. ASSUME NEW n \in 0..m PROVE g[n] = h[n]
    <3>1. h[n] = IF n = 0 THEN p ELSE Ask(g[n - 1], n, c)
      OBVIOUS
    <3>2. CASE n = m
      <4>1. m - 1 \in 0..m /\ m - 1 # m /\ m \in 0..m /\ m # 0
        BY <1>1
      <4>2. g[m - 1] = f[m - 1] /\ g[m] = Ask(f[m - 1], m, c)
        BY <4>1
      <4> QED
        BY <3>1, <3>2, <4>1, <4>2
    <3>3. CASE n # m
      <4>1. n \in 0..(m - 1) /\ g[n] = f[n]
        BY <1>1, <3>3
      <4>2. f[n] = IF n = 0 THEN p ELSE Ask(f[n - 1], n, c)
        BY <2>1, <4>1
      <4>3. n # 0 => n - 1 \in 0..m /\ n - 1 # m
        BY <1>1, <3>3
      <4>4. n # 0 => g[n - 1] = f[n - 1]
        BY <4>3
      <4> QED
        BY <3>1, <4>1, <4>2, <4>4
    <3> QED
      BY <3>2, <3>3
  <2>3. g = [n \in 0..m |-> g[n]] /\ h = [n \in 0..m |-> h[n]]
    OBVIOUS
  <2>4. Def(g, m) <=> g = h
    OBVIOUS
  <2> HIDE DEF g, h
  <2>5. g = h
    BY <2>2, <2>3
  <2> HIDE DEF Def
  <2>6. Def(g, m) /\ m \in 0..N
    BY <1>1, <2>4, <2>5
  <2> QED
    BY <2>6
<1> DEFINE asked == CHOOSE f : Def(f, N)
<1>4. Def(asked, N)
  <2>1. H \in SUBSET (0..N)
    OBVIOUS
  <2> HIDE DEF H
  <2>2. N \in H
    BY <1>1, <1>2, <1>3, <2>1, UpTo
  <2>3. \E f : Def(f, N)
    BY <2>2 DEF H
  <2> QED
    BY <2>3
<1>5. Scan(p, c) = asked[N]
  BY DEF Scan
<1> HIDE DEF asked
<1>6. asked[0] = p
  BY <1>1, <1>4
<1>7. \A n \in 1..N : asked[n] = Ask(asked[n - 1], n, c)
  <2>1. \A n \in 1..N : n \in 0..N /\ n # 0
    BY <1>1
  <2>2. \A n \in 0..N : asked[n] = IF n = 0 THEN p ELSE Ask(asked[n - 1], n, c)
    BY <1>4
  <2> QED
    BY <2>1, <2>2
<1> QED
  BY <1>5, <1>6, <1>7

(* What every question keeps, the scan keeps. *)
LEMMA ScanKeeps ==
    ASSUME ParserAssumption, NEW G, NEW p \in G, NEW c,
           \A q \in G, k \in Callback : Ask(q, k, c) \in G
    PROVE  Scan(p, c) \in G
<1>1. PICK asked :
        /\ asked[0] = p
        /\ \A n \in 1..Len(Oobs) : asked[n] = Ask(asked[n - 1], n, c)
        /\ Scan(p, c) = asked[Len(Oobs)]
  BY ScanSteps
<1> DEFINE H == {n \in 0..Len(Oobs) : asked[n] \in G}
<1>2. Len(Oobs) \in Nat /\ Callback = 1..Len(Oobs)
  BY CallbackFacts
<1>3. H \in SUBSET (0..Len(Oobs)) /\ 0 \in H
  BY <1>1, <1>2
<1>4. ASSUME NEW n \in 1..Len(Oobs), n - 1 \in H PROVE n \in H
  BY <1>1, <1>2, <1>4
<1> HIDE DEF H
<1>5. Len(Oobs) \in H
  <2>1. \A n \in 1..Len(Oobs) : n - 1 \in H => n \in H
    BY <1>4
  <2>2. \A n \in 0..Len(Oobs) : n \in H
    BY <1>2, <1>3, <2>1, UpTo
  <2> QED
    BY <1>2, <2>2
<1> QED
  BY <1>1, <1>5 DEF H

(* A callback that is the only one with something to do is all of it. *)
LEMMA ScanOne ==
    ASSUME ParserAssumption, NEW p, NEW c, NEW k \in Callback,
           \A j \in Callback \ {k} : Ask(p, j, c) = p,
           \A j \in Callback \ {k} : Ask(Ask(p, k, c), j, c) = Ask(p, k, c)
    PROVE  Scan(p, c) = Ask(p, k, c)
<1>1. PICK asked :
        /\ asked[0] = p
        /\ \A n \in 1..Len(Oobs) : asked[n] = Ask(asked[n - 1], n, c)
        /\ Scan(p, c) = asked[Len(Oobs)]
  BY ScanSteps
<1> DEFINE after(n) == IF n < k THEN p ELSE Ask(p, k, c)
           H == {n \in 0..Len(Oobs) : asked[n] = after(n)}
<1>2. Len(Oobs) \in Nat /\ Callback = 1..Len(Oobs) /\ k \in 1..Len(Oobs)
  BY CallbackFacts
<1>3. H \in SUBSET (0..Len(Oobs)) /\ 0 \in H
  BY <1>1, <1>2
<1>4. ASSUME NEW n \in 1..Len(Oobs), n - 1 \in H PROVE n \in H
  <2>1. asked[n - 1] = after(n - 1) /\ asked[n] = Ask(asked[n - 1], n, c) /\ n \in 0..Len(Oobs)
    BY <1>1, <1>2, <1>4
  <2>2. CASE n < k
    <3>1. n - 1 < k /\ n \in Callback \ {k}
      BY <1>2, <2>2
    <3> QED
      BY <2>1, <2>2, <3>1
  <2>3. CASE n = k
    <3>1. n - 1 < k /\ ~(n < k)
      BY <1>2, <2>3
    <3> QED
      BY <2>1, <2>3, <3>1
  <2>4. CASE n > k
    <3>1. ~(n - 1 < k) /\ ~(n < k) /\ n \in Callback \ {k}
      BY <1>2, <2>4
    <3> QED
      BY <2>1, <3>1
  <2> QED
    BY <1>2, <2>2, <2>3, <2>4
<1> HIDE DEF H
<1>5. Len(Oobs) \in H
  <2>1. \A n \in 1..Len(Oobs) : n - 1 \in H => n \in H
    BY <1>4
  <2>2. \A n \in 0..Len(Oobs) : n \in H
    BY <1>2, <1>3, <2>1, UpTo
  <2> QED
    BY <1>2, <2>2
<1> QED
  BY <1>1, <1>2, <1>5 DEF H

-----------------------------------------------------------------------------
(* One question. *)

(* The states of the parser during a scan. *)
Text == Char \cup {Nul}
State == [buf : Seq(Char), data : [1..Longest -> Text],
          reallen : [Callback -> 0..Longest], out : Seq(Reported)]

(* A capture has more than its prefix but for the last character. *)
Fits(p, k) == /\ p.reallen[k] =< Oobs[k].maxlen
              /\ p.reallen[k] = 0 \/ p.reallen[k] >= Len(Oobs[k].prefix)

Asked(p, k) == p.reallen[k] > 0 \/ IsSuffix(Oobs[k].prefix, p.buf)

LEMMA StateFacts ==
    ASSUME NEW p \in State
    PROVE  /\ p.buf \in Seq(Char) /\ p.data \in [1..Longest -> Text]
           /\ p.reallen \in [Callback -> 0..Longest] /\ p.out \in Seq(Reported)
           /\ p = [buf |-> p.buf, data |-> p.data, reallen |-> p.reallen, out |-> p.out]
  BY DEF State

(* What a callback has captured. *)
LEMMA CapturedFacts ==
    ASSUME ParserAssumption, NEW p \in State, NEW k \in Callback
    PROVE  /\ Captured(p, k) \in Seq(Text)
           /\ Len(Captured(p, k)) = p.reallen[k]
           /\ \A i \in 1..p.reallen[k] : Captured(p, k)[i] = p.data[i]
<1> DEFINE d == [i \in 1..Longest |-> p.data[i]]
           n == p.reallen[k]
<1>1. Longest \in Nat
  BY CallbackFacts
<1>2. d \in Seq(Text) /\ Len(d) = Longest /\ \A i \in 1..Longest : d[i] = p.data[i]
  <2>1. \A i \in 1..Longest : p.data[i] \in Text
    BY StateFacts
  <2>2. d \in Seq(Text) /\ DOMAIN d = 1..Longest
    BY <1>1, <2>1, IsASeq
  <2>3. Len(d) = Longest
    BY <1>1, <2>2
  <2> QED
    BY <2>2, <2>3
<1>3. n \in Nat /\ n =< Longest
  BY <1>1, StateFacts
<1> HIDE DEF d
<1>4. /\ SubSeq(d, 1, n) \in Seq(Text)
      /\ Len(SubSeq(d, 1, n)) = IF 1 =< n THEN n - 1 + 1 ELSE 0
      /\ \A i \in 1..(n - 1 + 1) : SubSeq(d, 1, n)[i] = d[1 + i - 1]
  BY <1>2, <1>3, CutOf
<1>5. Len(SubSeq(d, 1, n)) = n /\ \A i \in 1..n : SubSeq(d, 1, n)[i] = p.data[i]
  <2>1. /\ n - 1 + 1 = n /\ (1 =< n \/ n = 0)
        /\ \A i \in 1..n : 1 + i - 1 = i /\ i \in 1..Longest
    BY <1>1, <1>3
  <2> QED
    BY <1>2, <1>3, <1>4, <2>1
<1>6. Captured(p, k) = SubSeq(d, 1, n)
  BY DEF Captured, d
<1> QED
  BY <1>4, <1>5, <1>6

(* When a capture is complete. *)
LEMMA CompleteFacts ==
    ASSUME ParserAssumption, NEW p \in State, NEW k \in Callback
    PROVE  Complete(p, k) <=>
              /\ p.reallen[k] >= Len(Oobs[k].prefix) + Len(Postfix)
              /\ \A i \in 1..Len(Postfix) :
                    p.data[p.reallen[k] - Len(Postfix) + i] = Postfix[i]
<1> DEFINE n == p.reallen[k]
           m == Len(Postfix)
           t == Captured(p, k)
<1>1. t \in Seq(Text) /\ Len(t) = n /\ \A i \in 1..n : t[i] = p.data[i]
  BY CapturedFacts
<1>2. n \in Nat /\ m \in Nat /\ Postfix \in Seq(Range(Postfix)) /\ Len(Oobs[k].prefix) \in Nat
  BY StateFacts, CallbackFacts, LenProperties DEF ParserAssumption
<1>3. IsSuffix(Postfix, t) <=> StandsAt(Postfix, t, n - m)
  BY <1>1, <1>2, SuffixStands
<1>4. n >= m => (StandsAt(Postfix, t, n - m) <=>
                   \A i \in 1..m : p.data[n - m + i] = Postfix[i])
  <2>1. n >= m => \A i \in 1..m : n - m + i \in 1..n
    BY <1>2
  <2>2. n >= m => n - m >= 0 /\ n - m + m =< n
    BY <1>2
  <2> QED
    BY <1>1, <2>1, <2>2 DEF StandsAt
<1>5. n >= Len(Oobs[k].prefix) + m => n >= m
  BY <1>2
<1> QED
  BY <1>3, <1>4, <1>5 DEF Complete

(* A capture is opened with the prefix but for its last character. *)
LEMMA OpenFacts ==
    ASSUME ParserAssumption, NEW p \in State, NEW k \in Callback,
           IsSuffix(Oobs[k].prefix, p.buf)
    PROVE  /\ Open(p, k) \in State
           /\ Open(p, k).buf = p.buf /\ Open(p, k).out = p.out
           /\ Open(p, k).reallen = [p.reallen EXCEPT ![k] = Len(Oobs[k].prefix) - 1]
           /\ \A i \in 1..(Len(Oobs[k].prefix) - 1) : Open(p, k).data[i] = Oobs[k].prefix[i]
<1> DEFINE n == Len(Oobs[k].prefix) - 1
           wiped == Wipe(p.data, Oobs[k].maxlen)
           d == [i \in DOMAIN wiped |-> IF i =< n THEN Oobs[k].prefix[i] ELSE wiped[i]]
           l == [p.reallen EXCEPT ![k] = n]
<1>1. /\ Longest \in Nat /\ n \in 0..Longest
      /\ Oobs[k].prefix \in Seq(Range(Oobs[k].prefix)) /\ Len(Oobs[k].prefix) \in Nat
  <2>1. Len(Oobs[k].prefix) =< Longest /\ Len(Oobs[k].prefix) >= 2
          /\ Len(Oobs[k].prefix) \in Nat /\ Longest \in Nat
    BY CallbackFacts
  <2> QED
    BY <2>1, CallbackFacts
<1>2. Open(p, k) = [p EXCEPT !.data = d, !.reallen = l]
  BY StateFacts DEF Open
<1>3. \A i \in 1..n : Oobs[k].prefix[i] \in Char
  <2> DEFINE b == Len(p.buf) - Len(Oobs[k].prefix)
  <2>1. StandsAt(Oobs[k].prefix, p.buf, b)
    BY <1>1, StateFacts, SuffixStands
  <2>2. Len(p.buf) \in Nat /\ \A i \in 1..Len(p.buf) : p.buf[i] \in Char
    BY StateFacts, LenProperties, ElementOfSeq
  <2>3. ASSUME NEW i \in 1..n PROVE Oobs[k].prefix[i] \in Char
    <3>1. i \in 1..Len(Oobs[k].prefix) /\ i \in Nat /\ b \in Int
      BY <1>1, <2>2
    <3>2. b >= 0 /\ b + Len(Oobs[k].prefix) =< Len(p.buf) /\ p.buf[b + i] = Oobs[k].prefix[i]
      BY <2>1, <3>1 DEF StandsAt
    <3>3. b + i \in 1..Len(p.buf)
      <4>1. \A u, x, y, z \in Int : z >= 0 /\ z + u =< y /\ x >= 1 /\ x =< u => z + x \in 1..y
        OBVIOUS
      <4>2. Len(Oobs[k].prefix) \in Int /\ Len(p.buf) \in Int /\ i >= 1 /\ i =< Len(Oobs[k].prefix)
        BY <1>1, <2>2, <3>1
      <4>3. i \in Int /\ b \in Int
        BY <3>1
      <4> HIDE DEF b, n
      <4>4. b >= 0 /\ b + Len(Oobs[k].prefix) =< Len(p.buf) /\ i >= 1 /\ i =< Len(Oobs[k].prefix)
              => b + i \in 1..Len(p.buf)
        BY <4>1, <4>2, <4>3
      <4> QED
        BY <3>2, <4>2, <4>4
    <3> QED
      BY <2>2, <3>2, <3>3
  <2> QED
    BY <2>3
<1>4. d \in [1..Longest -> Text] /\ \A i \in 1..n : d[i] = Oobs[k].prefix[i]
  <2>1. DOMAIN wiped = 1..Longest /\ \A i \in 1..Longest : wiped[i] \in Text
    BY StateFacts DEF Wipe, Text
  <2>2. \A i \in 1..Longest : i =< n => i \in 1..n
    BY <1>1
  <2>3. \A i \in 1..n : i \in 1..Longest /\ i =< n
    BY <1>1
  <2> QED
    BY <1>3, <2>1, <2>2, <2>3 DEF Text
<1>5. l \in [Callback -> 0..Longest]
  BY <1>1, StateFacts
<1> HIDE DEF d, l
<1> QED
  BY <1>2, <1>4, <1>5, StateFacts DEF State, l

(* A capture is closed, and the buffer cleared. *)
LEMMA CloseFacts ==
    ASSUME ParserAssumption, NEW p \in State, NEW k \in Callback
    PROVE  /\ Close(p, k) \in State
           /\ Close(p, k).buf = <<>> /\ Close(p, k).out = p.out
           /\ Close(p, k).reallen = [p.reallen EXCEPT ![k] = 0]
<1> DEFINE d == Wipe(p.data, p.reallen[k])
           l == [p.reallen EXCEPT ![k] = 0]
<1>1. Close(p, k) = [p EXCEPT !.data = d, !.reallen = l, !.buf = <<>>]
  BY StateFacts DEF Close
<1>2. d \in [1..Longest -> Text]
  BY StateFacts DEF Wipe, Text
<1>3. l \in [Callback -> 0..Longest]
  BY CallbackFacts, StateFacts
<1>4. <<>> \in Seq(Char)
  OBVIOUS
<1> HIDE DEF d, l
<1> QED
  BY <1>1, <1>2, <1>3, <1>4, StateFacts DEF State, l

(* A character is stored. *)
LEMMA StoreFacts ==
    ASSUME ParserAssumption, NEW p \in State, NEW k \in Callback, NEW c \in Char,
           NEW n \in Nat, n = p.reallen[k], n < Oobs[k].maxlen
    PROVE  /\ Store(p, k, c) \in State
           /\ Store(p, k, c).buf = p.buf /\ Store(p, k, c).out = p.out
           /\ Store(p, k, c).reallen = [p.reallen EXCEPT ![k] = n + 1]
           /\ Store(p, k, c).data[n + 1] = c
           /\ \A i \in 1..n : Store(p, k, c).data[i] = p.data[i]
<1> DEFINE d == [p.data EXCEPT ![n + 1] = c]
           l == [p.reallen EXCEPT ![k] = n + 1]
<1>1. Longest \in Nat /\ n \in Nat /\ n + 1 \in 1..Longest
  <2>1. Longest \in Nat /\ Oobs[k].maxlen \in Nat /\ Oobs[k].maxlen =< Longest
    BY CallbackFacts
  <2> QED
    BY <2>1
<1>2. Store(p, k, c) = [p EXCEPT !.data = d, !.reallen = l]
  BY StateFacts DEF Store
<1>3. d \in [1..Longest -> Text] /\ d[n + 1] = c /\ \A i \in 1..n : d[i] = p.data[i]
  <2>1. \A i \in 1..n : i \in 1..Longest /\ i # n + 1
    BY <1>1
  <2> QED
    BY <1>1, <2>1, StateFacts DEF Text
<1>4. l \in [Callback -> 0..Longest]
  BY <1>1, StateFacts
<1> HIDE DEF d, l
<1> QED
  BY <1>2, <1>3, <1>4, StateFacts DEF State, l

(* The parser when the character is about to be stored. *)
Begun(p, k) == IF p.reallen[k] > 0 THEN p ELSE Open(p, k)

LEMMA BegunFacts ==
    ASSUME ParserAssumption, NEW p \in State, NEW k \in Callback, Fits(p, k), Asked(p, k)
    PROVE  /\ Begun(p, k) \in State
           /\ Begun(p, k).buf = p.buf /\ Begun(p, k).out = p.out
           /\ \A j \in Callback \ {k} : Begun(p, k).reallen[j] = p.reallen[j]
           /\ Begun(p, k).reallen[k] \in Nat
           /\ Begun(p, k).reallen[k] =< Oobs[k].maxlen
           /\ Begun(p, k).reallen[k] >= Len(Oobs[k].prefix) - 1
<1>1. /\ Len(Oobs[k].prefix) \in Nat /\ Len(Oobs[k].prefix) >= 2
      /\ Oobs[k].maxlen \in Nat /\ Len(Oobs[k].prefix) =< Oobs[k].maxlen
  BY CallbackFacts
<1>2. p.reallen \in [Callback -> 0..Longest] /\ Longest \in Nat
  BY StateFacts, CallbackFacts
<1>3. CASE p.reallen[k] > 0
  BY <1>1, <1>2, <1>3 DEF Begun, Fits
<1>4. CASE ~(p.reallen[k] > 0)
  <2>1. /\ Open(p, k) \in State
        /\ Open(p, k).buf = p.buf /\ Open(p, k).out = p.out
        /\ Open(p, k).reallen = [p.reallen EXCEPT ![k] = Len(Oobs[k].prefix) - 1]
    BY <1>4, OpenFacts DEF Asked
  <2>2. Begun(p, k) = Open(p, k)
    BY <1>4 DEF Begun
  <2>3. Open(p, k).reallen[k] = Len(Oobs[k].prefix) - 1
          /\ \A j \in Callback \ {k} : Open(p, k).reallen[j] = p.reallen[j]
    BY <1>2, <2>1
  <2>4. Len(Oobs[k].prefix) - 1 \in Nat /\ Len(Oobs[k].prefix) - 1 =< Oobs[k].maxlen
          /\ Len(Oobs[k].prefix) - 1 >= Len(Oobs[k].prefix) - 1
    BY <1>1
  <2> QED
    BY <2>1, <2>2, <2>3, <2>4
<1> QED
  BY <1>3, <1>4

(* What a question does: there is no room for the character, it completes  *)
(* the capture, or the capture goes on with it.                            *)
Overflows(p, k, r) ==
    /\ Begun(p, k).reallen[k] = Oobs[k].maxlen
    /\ r.reallen[k] = 0 /\ r.out = p.out /\ r.buf = <<>>

Completes(p, k, c, r) ==
    /\ Begun(p, k).reallen[k] < Oobs[k].maxlen
    /\ Complete(Store(Begun(p, k), k, c), k)
    /\ r.reallen[k] = 0 /\ r.buf = <<>>
    /\ r.out = Append(p.out, [cb |-> k, text |-> Captured(Store(Begun(p, k), k, c), k)])

GoesOn(p, k, c, r) ==
    /\ Begun(p, k).reallen[k] < Oobs[k].maxlen
    /\ ~Complete(Store(Begun(p, k), k, c), k)
    /\ r.reallen[k] = Begun(p, k).reallen[k] + 1 /\ r.out = p.out
    /\ r.data = Store(Begun(p, k), k, c).data
    /\ r.buf = p.buf \/ r.buf = <<>>

LEMMA LookFacts ==
    ASSUME ParserAssumption, NEW p \in State, NEW k \in Callback, NEW c \in Char,
           Fits(p, k), Asked(p, k)
    PROVE  LET r == Look(p, k, c)
           IN  /\ r \in State /\ \A j \in Callback \ {k} : r.reallen[j] = p.reallen[j]
               /\ Overflows(p, k, r) \/ Completes(p, k, c, r) \/ GoesOn(p, k, c, r)
<1> DEFINE b == Begun(p, k)
           s == Store(b, k, c)
           n == b.reallen[k]
           e == [s EXCEPT !.out = Append(@, [cb |-> k, text |-> Captured(s, k)])]
           r == Look(p, k, c)
<1>1. /\ b \in State /\ b.buf = p.buf /\ b.out = p.out
      /\ \A j \in Callback \ {k} : b.reallen[j] = p.reallen[j]
      /\ n \in Nat /\ n =< Oobs[k].maxlen
  BY BegunFacts
<1>2. r = IF Complete(s, k) THEN Close(e, k)
          ELSE IF Len(s.buf) > BufSize - 2 THEN [s EXCEPT !.buf = <<>>] ELSE s
  BY DEF Look, Begun
<1>3. /\ Longest \in Nat /\ Oobs[k].maxlen \in Nat /\ Oobs[k].maxlen =< Longest
      /\ BufSize \in Nat /\ Len(Oobs[k].prefix) \in Nat /\ Len(Oobs[k].prefix) >= 2
      /\ Len(Oobs[k].prefix) =< Oobs[k].maxlen /\ Oobs[k].maxlen < BufSize
      /\ Len(Postfix) \in Nat
  BY CallbackFacts, LenProperties DEF ParserAssumption
<1> HIDE DEF b, r
<1>4. CASE n = Oobs[k].maxlen
  <2>1. s = Close(b, k)
    BY <1>1, <1>3, <1>4 DEF Store
  <2>2. /\ s \in State /\ s.buf = <<>> /\ s.out = p.out
        /\ s.reallen = [b.reallen EXCEPT ![k] = 0]
    <3>1. /\ Close(b, k) \in State /\ Close(b, k).buf = <<>> /\ Close(b, k).out = b.out
          /\ Close(b, k).reallen = [b.reallen EXCEPT ![k] = 0]
      BY <1>1, CloseFacts
    <3> HIDE DEF s
    <3> QED
      BY <1>1, <2>1, <3>1
  <2>3. s.reallen[k] = 0 /\ \A j \in Callback \ {k} : s.reallen[j] = p.reallen[j]
    BY <1>1, <2>2, StateFacts
  <2>4. ~Complete(s, k)
    BY <1>3, <2>3 DEF Complete
  <2>5. r = s
    <3>1. ~(Len(s.buf) > BufSize - 2)
      <4>1. Len(s.buf) = 0
        BY <2>2
      <4> QED
        BY <1>3, <4>1
    <3> QED
      BY <1>2, <2>4, <3>1
  <2>6. Overflows(p, k, r)
    BY <1>4, <2>2, <2>3, <2>5 DEF Overflows, b
  <2> QED
    BY <2>2, <2>3, <2>5, <2>6 DEF r
<1>5. CASE n # Oobs[k].maxlen
  <2>1. n < Oobs[k].maxlen
    BY <1>1, <1>3, <1>5
  <2>2. /\ s \in State /\ s.buf = p.buf /\ s.out = p.out
        /\ s.reallen = [b.reallen EXCEPT ![k] = n + 1]
    <3>1. b \in State /\ n \in Nat /\ n = b.reallen[k] /\ n < Oobs[k].maxlen
      BY <1>1, <2>1
    <3> HIDE DEF s, n
    <3>2. /\ Store(b, k, c) \in State
          /\ Store(b, k, c).buf = b.buf /\ Store(b, k, c).out = b.out
          /\ Store(b, k, c).reallen = [b.reallen EXCEPT ![k] = n + 1]
      BY <3>1, StoreFacts
    <3> QED
      BY <1>1, <3>2 DEF s
  <2>3. s.reallen[k] = n + 1 /\ \A j \in Callback \ {k} : s.reallen[j] = p.reallen[j]
    BY <1>1, <2>2, StateFacts
  <2>4. CASE Complete(s, k)
    <3>1. Captured(s, k) \in Seq(Text)
      BY <2>2, CapturedFacts
    <3>2. [cb |-> k, text |-> Captured(s, k)] \in Reported
      BY <3>1 DEF Reported, Text
    <3>3. Append(s.out, [cb |-> k, text |-> Captured(s, k)]) \in Seq(Reported)
      BY <2>2, <3>2, StateFacts, AppendProperties
    <3>4. e \in State /\ e.reallen = s.reallen
            /\ e.out = Append(p.out, [cb |-> k, text |-> Captured(s, k)])
      BY <2>2, <3>3 DEF State
    <3> HIDE DEF e, s
    <3>5. /\ Close(e, k) \in State /\ Close(e, k).buf = <<>> /\ Close(e, k).out = e.out
          /\ Close(e, k).reallen = [e.reallen EXCEPT ![k] = 0]
      BY <3>4, CloseFacts
    <3>6. Close(e, k).reallen[k] = 0
            /\ \A j \in Callback \ {k} : Close(e, k).reallen[j] = p.reallen[j]
      <4>1. s.reallen \in [Callback -> 0..Longest]
        BY <2>2, StateFacts
      <4> QED
        BY <2>3, <3>4, <3>5, <4>1
    <3>7. r = Close(e, k)
      BY <1>2, <2>4
    <3>8. Completes(p, k, c, r)
      BY <2>1, <2>4, <3>4, <3>5, <3>6, <3>7 DEF Completes, b, s
    <3> QED
      BY <3>5, <3>6, <3>7, <3>8 DEF r
  <2>5. CASE ~Complete(s, k)
    <3> HIDE DEF s
    <3>1. r = s \/ r = [s EXCEPT !.buf = <<>>]
      BY <1>2, <2>5
    <3>2. /\ r \in State /\ r.reallen = s.reallen /\ r.out = s.out /\ r.data = s.data
          /\ r.buf = s.buf \/ r.buf = <<>>
      <4>1. <<>> \in Seq(Char)
        OBVIOUS
      <4>2. [s EXCEPT !.buf = <<>>] \in State
        BY <2>2, <4>1 DEF State
      <4>3. CASE r = s
        BY <2>2, <4>3
      <4>4. CASE r = [s EXCEPT !.buf = <<>>]
        BY <2>2, <4>2, <4>4 DEF State
      <4> QED
        BY <3>1, <4>3, <4>4
    <3>3. GoesOn(p, k, c, r)
      BY <2>1, <2>2, <2>3, <2>5, <3>2 DEF GoesOn, b, s
    <3> QED
      BY <2>3, <3>2, <3>3 DEF r
  <2> QED
    BY <2>4, <2>5
<1> QED
  BY <1>4, <1>5

(* Every question keeps the types, and the buffer or nothing of it. *)
Good(b) == {q \in State : /\ q.buf = b \/ q.buf = <<>>
                          /\ \A k \in Callback : Fits(q, k)}

LEMMA AskKeepsGood ==
    ASSUME ParserAssumption, NEW b, NEW c \in Char, NEW p \in Good(b), NEW k \in Callback
    PROVE  Ask(p, k, c) \in Good(b)
<1> DEFINE r == Look(p, k, c)
<1>1. p \in State /\ \A j \in Callback : Fits(p, j)
  BY DEF Good
<1>2. CASE ~Asked(p, k)
  BY <1>2 DEF Ask, Asked
<1>3. CASE Asked(p, k)
  <2>1. Ask(p, k, c) = r
    BY <1>3 DEF Ask, Asked
  <2>2. /\ r \in State /\ \A j \in Callback \ {k} : r.reallen[j] = p.reallen[j]
        /\ Overflows(p, k, r) \/ Completes(p, k, c, r) \/ GoesOn(p, k, c, r)
    BY <1>1, <1>3, LookFacts
  <2> HIDE DEF r
  <2>3. \A j \in Callback \ {k} : Fits(r, j)
    BY <1>1, <2>2 DEF Fits
  <2>4. /\ Begun(p, k).reallen[k] \in Nat
        /\ Begun(p, k).reallen[k] >= Len(Oobs[k].prefix) - 1
        /\ Oobs[k].maxlen \in Nat /\ Len(Oobs[k].prefix) \in Nat
    BY <1>1, <1>3, BegunFacts, CallbackFacts
  <2>5. Fits(r, k)
    <3>1. CASE Overflows(p, k, r)
      BY <2>4, <3>1 DEF Fits, Overflows
    <3>2. CASE Completes(p, k, c, r)
      BY <2>4, <3>2 DEF Fits, Completes
    <3>3. CASE GoesOn(p, k, c, r)
      BY <2>4, <3>3 DEF Fits, GoesOn
    <3> QED
      BY <2>2, <3>1, <3>2, <3>3
  <2>6. r.buf = b \/ r.buf = <<>>
    BY <2>2 DEF Overflows, Completes, GoesOn, Good
  <2> QED
    BY <2>1, <2>2, <2>3, <2>5, <2>6 DEF Good
<1> QED
  BY <1>2, <1>3

-----------------------------------------------------------------------------
(* The state of the parser, and how much of the line was read. *)
Parser == [buf |-> buf, data |-> data, reallen |-> reallen, out |-> out]

Pos == Len(frame) - Len(line)

AllFit == \A k \in Callback : Fits(Parser, k)

(* What the modem has still to send is the end of the line. *)
LineLeft == /\ Len(line) =< Len(frame)
            /\ \A i \in 1..Len(line) : line[i] = frame[Pos + i]

OneCapture == ~overlap => \A j, k \in Capturing : j = k

(* What was read of the postfix is the end of what every capture holds, *)
(* behind its prefix.                                                   *)
EndIsCaptured ==
    ~overlap /\ ~cut /\ Len(line) \in 1..(Len(Postfix) - 1) =>
        \A k \in Capturing :
           /\ reallen[k] >= Len(Oobs[k].prefix) + (Len(Postfix) - Len(line))
           /\ \A i \in 1..(Len(Postfix) - Len(line)) :
                 data[reallen[k] - (Len(Postfix) - Len(line)) + i] = Postfix[i]

(* The first m characters of the prefix of callback k are the last of text. *)
Half(k, m, text) == /\ m \in 1..Len(text) /\ m < Len(Oobs[k].prefix)
                    /\ \A i \in 1..m : text[Len(text) - m + i] = Oobs[k].prefix[i]

(* The buffer ends with what was read of a clean line, and no prefix is *)
(* half read that began before it.                                      *)
BufFollows ==
    clean /\ yielding =>
        /\ \A i \in 1..Len(buf) :
              Len(buf) - i < Pos => buf[i] = frame[Pos - (Len(buf) - i)]
        /\ \A k \in Callback, m \in 1..Len(buf) : Half(k, m, buf) => m =< Pos

NoneYet == out = <<>> /\ \A k \in Callback : reallen[k] = 0

(* How far callback k is with a clean line that is its report. *)
Follows(k) ==
    /\ Pos < Len(Oobs[k].prefix) =>
          NoneYet /\ (Pos > 0 => yielding /\ Len(buf) >= Pos)
    /\ Pos >= Len(Oobs[k].prefix) /\ line # <<>> =>
          /\ out = <<>> /\ reallen[k] = Pos
          /\ \A j \in Callback \ {k} : reallen[j] = 0
          /\ \A i \in 1..Pos : data[i] = frame[i]
    /\ line = <<>> => out = <<[cb |-> k, text |-> frame]>>

CleanFollowed ==
    clean => /\ frame \in Frame
             /\ IsText(frame) => NoneYet
             /\ \A k \in Callback : IsReport(frame, k) => Follows(k)
             /\ IsText(frame) \/ \E k \in Callback : IsReport(frame, k)

-----------------------------------------------------------------------------
(* Types. *)

(* What is read is put into the buffer and shown to the callbacks. *)
Given == [buf |-> Append(buf, Head(line)), data |-> data, reallen |-> reallen, out |-> out]
Asks == Scan(Given, Head(line))

LEMMA GetCharFacts ==
    ASSUME ParserAssumption, TypeOK, AllFit, GetChar
    PROVE  /\ Head(line) \in Char /\ Given \in State /\ Given \in Good(Given.buf)
           /\ Given.buf = Append(buf, Head(line)) /\ Given.data = data
           /\ Given.reallen = reallen /\ Given.out = out
           /\ Parser' = Asks /\ Asks \in Good(Given.buf)
           /\ line' = Tail(line) /\ line # <<>>
           /\ yielding /\ UNCHANGED <<yielding, sent, lost, frame, clean, cut>>
<1> DEFINE c == Head(line)
           g == [buf |-> Append(buf, c), data |-> data, reallen |-> reallen, out |-> out]
<1>1. c \in Char
  BY HeadTailProperties DEF TypeOK, GetChar
<1>2. Given = g
  BY DEF Given
<1>3. Append(buf, c) \in Seq(Char)
  BY <1>1, AppendProperties DEF TypeOK
<1>4. g \in State
  BY <1>3 DEF State, Text, TypeOK
<1>5. \A k \in Callback : Fits(g, k)
  BY DEF AllFit, Fits, Parser
<1>6. Given \in Good(Given.buf)
  BY <1>2, <1>4, <1>5 DEF Good
<1>7. Asks \in Good(Given.buf)
  <2>1. \A q \in Good(Given.buf), k \in Callback : Ask(q, k, c) \in Good(Given.buf)
    BY <1>1, AskKeepsGood
  <2> QED
    BY <1>6, <2>1, ScanKeeps DEF Asks
<1>8. Parser' = Asks
  <2>1. Asks = Scan(g, c)
    BY <1>2 DEF Asks
  <2>2. /\ buf' = Asks.buf /\ data' = Asks.data
        /\ reallen' = Asks.reallen /\ out' = Asks.out
    BY <2>1 DEF GetChar
  <2>3. Asks \in State
    BY <1>7 DEF Good
  <2> QED
    BY <2>2, <2>3, StateFacts DEF Parser
<1>9. UNCHANGED <<yielding, sent, lost, frame, clean, cut>> /\ yielding
        /\ line' = Tail(line) /\ line # <<>>
  BY DEF GetChar
<1> QED
  BY <1>1, <1>2, <1>4, <1>6, <1>7, <1>8, <1>9

LEMMA InitTypeOK == ASSUME ParserAssumption, Init PROVE TypeOK /\ AllFit
<1>1. BufSize \in Nat /\ BufSize > 0 /\ Longest \in Nat
        /\ \A k \in Callback : Oobs[k].maxlen \in Nat /\ 0 =< Oobs[k].maxlen
  BY CallbackFacts
<1>2. MaxFrames \in Nat /\ MaxLost \in Nat
  BY DEF ParserAssumption
<1>3. buf \in Seq(Char) /\ Len(buf) < BufSize /\ line \in Seq(Char) /\ out \in Seq(Reported)
  BY <1>1 DEF Init
<1>4. data \in [1..Longest -> Char \cup {Nul}] /\ reallen \in [Callback -> 0..Longest]
        /\ \A k \in Callback : reallen[k] = 0
  BY <1>1 DEF Init
<1>5. AllFit /\ \A k \in Callback : reallen[k] =< Oobs[k].maxlen
  BY <1>1, <1>4 DEF AllFit, Fits, Parser
<1>6. sent \in 0..MaxFrames /\ lost \in 0..MaxLost /\ frame \in Frame \cup {<<>>}
        /\ clean \in BOOLEAN /\ cut \in BOOLEAN /\ overlap \in BOOLEAN
        /\ yielding \in BOOLEAN
  <2>1. /\ sent = 0 /\ lost = 0 /\ frame = <<>> /\ yielding = FALSE
        /\ clean = FALSE /\ cut = FALSE /\ overlap = FALSE
    BY DEF Init
  <2>2. 0 \in 0..MaxFrames /\ 0 \in 0..MaxLost
    BY <1>2
  <2> QED
    BY <2>1, <2>2
<1> QED
  BY <1>3, <1>4, <1>5, <1>6 DEF TypeOK

LEMMA NextTypeOK ==
    ASSUME ParserAssumption, TypeOK, AllFit, [Next]_vars PROVE TypeOK' /\ AllFit'
<1>1. /\ BufSize \in Nat /\ BufSize > 0 /\ Longest \in Nat
      /\ MaxFrames \in Nat /\ MaxLost \in Nat
  BY CallbackFacts DEF ParserAssumption
<1>2. ASSUME line # <<>> PROVE Tail(line) \in Seq(Char)
  BY <1>2, HeadTailProperties DEF TypeOK
<1>3. ASSUME UNCHANGED <<data, reallen>>
      PROVE  /\ (data \in [1..Longest -> Char \cup {Nul}])'
             /\ (reallen \in [Callback -> 0..Longest])'
             /\ (\A k \in Callback : reallen[k] =< Oobs[k].maxlen)'
             /\ AllFit'
  BY <1>3 DEF TypeOK, AllFit, Fits, Parser
<1>4. CASE UNCHANGED vars
  BY <1>3, <1>4 DEF TypeOK, vars, history
<1>5. ASSUME NEW f \in Frame, Send(f) PROVE TypeOK' /\ AllFit'
  <2>1. f \in Seq(Char)
    BY FrameFacts
  <2>2. AtRest \in BOOLEAN /\ (IsText(f) \/ \E k \in Callback : IsReport(f, k)) \in BOOLEAN
    BY DEF AtRest, IsText, IsReport
  <2>3. clean' \in BOOLEAN /\ overlap' \in BOOLEAN /\ cut' \in BOOLEAN
    BY <1>5, <2>2 DEF Send, TypeOK
  <2>4. sent' \in 0..MaxFrames /\ out' \in Seq(Reported) /\ frame' \in Frame \cup {<<>>}
          /\ line' \in Seq(Char)
    BY <1>1, <1>5, <2>1 DEF Send, TypeOK
  <2> QED
    BY <1>3, <1>5, <2>3, <2>4 DEF Send, TypeOK
<1>6. ASSUME Drop
      PROVE  /\ line' \in Seq(Char) /\ clean' \in BOOLEAN /\ cut' \in BOOLEAN
             /\ overlap' \in BOOLEAN /\ sent' \in 0..MaxFrames
             /\ frame' \in Frame \cup {<<>>} /\ out' \in Seq(Reported)
             /\ UNCHANGED <<data, reallen>>
  BY <1>2, <1>6 DEF Drop, TypeOK
<1>7. CASE Lose
  <2>1. Drop /\ lost' \in 0..MaxLost /\ UNCHANGED <<yielding, buf>>
    BY <1>1, <1>7 DEF Lose, TypeOK
  <2> QED
    BY <1>3, <1>6, <2>1 DEF TypeOK
<1>8. CASE BufferFull
  <2>1. Drop /\ yielding' = FALSE /\ UNCHANGED <<buf, lost>>
    BY <1>8 DEF BufferFull
  <2> QED
    BY <1>3, <1>6, <2>1 DEF TypeOK
<1>9. CASE Enter
  <2>1. buf' \in Seq(Char) /\ Len(buf') = 0 /\ yielding' = TRUE
          /\ UNCHANGED <<data, reallen, line, sent, lost, history>>
    BY <1>9 DEF Enter
  <2> QED
    BY <1>1, <1>3, <2>1 DEF TypeOK, history
<1>10. CASE TimeOut
  <2>1. /\ yielding' = FALSE /\ clean' \in BOOLEAN
        /\ UNCHANGED <<buf, data, reallen, line, sent, lost, frame, out, cut, overlap>>
    BY <1>10 DEF TimeOut
  <2> QED
    BY <1>3, <2>1 DEF TypeOK
<1>11. CASE GetChar
  <2>1. /\ Parser' \in State /\ (\A k \in Callback : Fits(Parser, k))'
        /\ buf' = Append(buf, Head(line)) \/ buf' = <<>>
    <3>1. Parser' \in Good(Append(buf, Head(line)))
      BY <1>11, GetCharFacts
    <3>2. (Parser').buf = buf'
      BY DEF Parser
    <3> QED
      BY <3>1, <3>2 DEF Good
  <2>2. /\ buf' \in Seq(Char) /\ data' \in [1..Longest -> Char \cup {Nul}]
        /\ reallen' \in [Callback -> 0..Longest] /\ out' \in Seq(Reported)
    BY <2>1, StateFacts DEF Parser, Text
  <2>3. Len(buf') < BufSize
    <3>1. Len(Append(buf, Head(line))) = Len(buf) + 1
      BY <1>11, GetCharFacts, AppendProperties DEF TypeOK
    <3>2. Len(buf) + 1 < BufSize
      BY <1>11 DEF GetChar, Room
    <3>3. CASE buf' = <<>>
      <4>1. Len(buf') = 0
        BY <3>3
      <4> QED
        BY <1>1, <4>1
    <3> QED
      BY <2>1, <3>1, <3>2, <3>3
  <2>4. overlap' \in BOOLEAN
    <3>1. overlap' = (overlap \/ Cardinality(Capturing') > 1)
      BY <1>11 DEF GetChar
    <3> QED
      BY <3>1 DEF TypeOK
  <2>5. line' \in Seq(Char) /\ UNCHANGED <<yielding, sent, lost, frame, clean, cut>>
    BY <1>2, <1>11 DEF GetChar
  <2>6. (\A k \in Callback : reallen[k] =< Oobs[k].maxlen)' /\ AllFit'
    BY <2>1 DEF AllFit, Fits, Parser
  <2> QED
    BY <2>2, <2>3, <2>4, <2>5, <2>6 DEF TypeOK
<1> QED
  BY <1>4, <1>5, <1>7, <1>8, <1>9, <1>10, <1>11 DEF Next

(* The types are kept: at_yield() never puts more into at_rx_buf than fits, *)
(* and a capture of at_scan_for_callback() never has more than the array    *)
(* its callback was registered with.                                       *)
THEOREM TypeCorrect == Spec => []TypeOK
<1> USE ParserAssumption
<1>1. Init => TypeOK /\ AllFit
  BY InitTypeOK
<1>2. (TypeOK /\ AllFit) /\ [Next]_vars => (TypeOK /\ AllFit)'
  BY NextTypeOK
<1> QED
  BY <1>1, <1>2, PTL DEF Spec

-----------------------------------------------------------------------------
(* The scan of one character. *)

(* A prefix ends with the character that was appended. *)
LEMMA EndsAppended ==
    ASSUME ParserAssumption, NEW b \in Seq(Char), NEW c \in Char, NEW k \in Callback
    PROVE  IsSuffix(Oobs[k].prefix, Append(b, c)) <=>
              c = Oobs[k].prefix[Len(Oobs[k].prefix)] /\ Half(k, Len(Oobs[k].prefix) - 1, b)
<1> DEFINE x == Oobs[k].prefix
           l == Len(x)
           n == Len(b)
           t == Append(b, c)
<1>1. x \in Seq(Range(x)) /\ l \in Nat /\ l >= 2 /\ n \in Nat
  BY CallbackFacts, LenProperties
<1>2. t \in Seq(Char) /\ Len(t) = n + 1 /\ t[n + 1] = c /\ \A i \in 1..n : t[i] = b[i]
  BY AppendProperties
<1> HIDE DEF x, t
<1> HIDE DEF n
<1>3. IsSuffix(x, t) <=> StandsAt(x, t, n + 1 - l)
  <2>1. IsSuffix(x, t) <=> StandsAt(x, t, Len(t) - Len(x))
    BY <1>1, <1>2, SuffixStands
  <2>2. Len(t) = n + 1 /\ Len(x) = l
    BY <1>2
  <2> HIDE DEF l
  <2>3. Len(t) - Len(x) = n + 1 - l
    BY <1>1, <2>2
  <2> QED
    BY <2>1, <2>3, Zenon
<1> HIDE DEF l
<1>4. StandsAt(x, t, n + 1 - l) <=> l =< n + 1 /\ \A i \in 1..l : t[n + 1 - l + i] = x[i]
  <2>1. n + 1 - l >= 0 /\ n + 1 - l + l =< n + 1 <=> l =< n + 1
    BY <1>1
  <2> QED
    BY <1>2, <2>1 DEF StandsAt, l
<1>5. l =< n + 1 =>
        ((\A i \in 1..l : t[n + 1 - l + i] = x[i]) <=>
           c = x[l] /\ \A i \in 1..(l - 1) : b[n - (l - 1) + i] = x[i])
  <2> SUFFICES ASSUME l =< n + 1
               PROVE  (\A i \in 1..l : t[n + 1 - l + i] = x[i]) <=>
                        c = x[l] /\ \A i \in 1..(l - 1) : b[n - (l - 1) + i] = x[i]
    OBVIOUS
  <2>1. n + 1 - l + l = n + 1 /\ l \in 1..l
    BY <1>1
  <2>2. \A i \in 1..(l - 1) : /\ i \in 1..l /\ n + 1 - l + i = n - (l - 1) + i
                              /\ n - (l - 1) + i \in 1..n
    BY <1>1
  <2>3. \A i \in 1..(l - 1) : t[n + 1 - l + i] = b[n - (l - 1) + i]
    BY <1>2, <2>2
  <2>4. \A i \in 1..l : i = l \/ i \in 1..(l - 1)
    BY <1>1
  <2>5. t[n + 1 - l + l] = c
    BY <1>2, <2>1
  <2> QED
    BY <2>1, <2>2, <2>3, <2>4, <2>5
<1>6. Half(k, l - 1, b) <=> l =< n + 1 /\ \A i \in 1..(l - 1) : b[n - (l - 1) + i] = x[i]
  <2>1. l - 1 \in 1..n /\ l - 1 < l <=> l =< n + 1
    BY <1>1
  <2> QED
    BY <2>1 DEF Half, l, n, x
<1> QED
  BY <1>3, <1>4, <1>5, <1>6 DEF x, l, t

LEMMA NothingEnds ==
    ASSUME ParserAssumption, NEW k \in Callback
    PROVE  ~IsSuffix(Oobs[k].prefix, <<>>)
<1>1. Oobs[k].prefix \in Seq(Range(Oobs[k].prefix)) /\ Len(Oobs[k].prefix) \in Nat
        /\ Len(Oobs[k].prefix) >= 2
  BY CallbackFacts
<1>2. <<>> \in Seq(Char) /\ Len(<<>>) = 0
  OBVIOUS
<1>3. IsSuffix(Oobs[k].prefix, <<>>) =>
        StandsAt(Oobs[k].prefix, <<>>, Len(<<>>) - Len(Oobs[k].prefix))
  BY <1>1, <1>2, SuffixStands
<1>4. ~StandsAt(Oobs[k].prefix, <<>>, Len(<<>>) - Len(Oobs[k].prefix))
  BY <1>1, <1>2 DEF StandsAt
<1> QED
  BY <1>3, <1>4

(* No callback has anything to do. *)
LEMMA NoneAsked ==
    ASSUME ParserAssumption, NEW p, NEW c, \A k \in Callback : ~Asked(p, k)
    PROVE  Scan(p, c) = p
<1>1. \A q \in {p}, k \in Callback : Ask(q, k, c) \in {p}
  BY DEF Ask, Asked
<1>2. p \in {p}
  OBVIOUS
<1> HIDE DEF Scan
<1>3. Scan(p, c) \in {p}
  BY <1>1, <1>2, ScanKeeps
<1> QED
  BY <1>3

(* Only callback k has something to do. *)
LEMMA OneAsked ==
    ASSUME ParserAssumption, NEW b, NEW c \in Char, NEW p \in Good(b), NEW k \in Callback,
           Asked(p, k), \A j \in Callback \ {k} : ~Asked(p, j)
    PROVE  LET r == Scan(p, c)
           IN  /\ r \in State /\ \A j \in Callback \ {k} : r.reallen[j] = 0
               /\ Overflows(p, k, r) \/ Completes(p, k, c, r) \/ GoesOn(p, k, c, r)
<1> DEFINE r == Look(p, k, c)
<1>1. p \in State /\ \A j \in Callback : Fits(p, j) /\ p.reallen[j] \in Nat
  <2>1. p \in State /\ \A j \in Callback : Fits(p, j)
    BY DEF Good
  <2> QED
    BY <2>1, StateFacts, CallbackFacts
<1>2. /\ r \in State /\ \A j \in Callback \ {k} : r.reallen[j] = p.reallen[j]
      /\ Overflows(p, k, r) \/ Completes(p, k, c, r) \/ GoesOn(p, k, c, r)
  BY <1>1, LookFacts
<1>3. Ask(p, k, c) = r
  BY DEF Ask, Asked
<1> HIDE DEF r
<1>4. r.buf = p.buf \/ r.buf = <<>>
  BY <1>2 DEF Overflows, Completes, GoesOn
<1>5. ASSUME NEW j \in Callback \ {k} PROVE Ask(p, j, c) = p /\ Ask(r, j, c) = r
  <2>1. ~(p.reallen[j] > 0) /\ ~IsSuffix(Oobs[j].prefix, p.buf)
    BY DEF Asked
  <2>2. ~(r.reallen[j] > 0) /\ ~IsSuffix(Oobs[j].prefix, r.buf)
    BY <1>2, <1>4, <2>1, NothingEnds
  <2> QED
    BY <2>1, <2>2 DEF Ask
<1>6. Scan(p, c) = r
  BY <1>3, <1>5, ScanOne
<1>7. \A j \in Callback \ {k} : r.reallen[j] = 0
  <2>1. ASSUME NEW j \in Callback \ {k} PROVE p.reallen[j] = 0
    <3>1. ~(p.reallen[j] > 0)
      BY DEF Asked
    <3>2. p.reallen[j] \in Nat
      BY <1>1
    <3> QED
      BY <3>1, <3>2
  <2> QED
    BY <1>2, <2>1
<1> QED
  BY <1>2, <1>6, <1>7

-----------------------------------------------------------------------------
(* The end of a line. *)

(* How far the line is, before and after a character of it is taken. *)
LEMMA LineFacts ==
    ASSUME ParserAssumption, TypeOK, LineLeft, line # <<>>
    PROVE  /\ Len(frame) \in Nat /\ Len(line) \in Nat \ {0} /\ Pos \in Nat
           /\ Pos + Len(line) = Len(frame) /\ frame \in Frame /\ frame \in Seq(Char)
           /\ Head(line) = frame[Pos + 1] /\ Head(line) \in Char
           /\ Tail(line) \in Seq(Char) /\ Len(Tail(line)) = Len(line) - 1
           /\ \A i \in 1..Len(Tail(line)) : Tail(line)[i] = line[i + 1]
           /\ Tail(line) = <<>> <=> Len(line) = 1
<1>1. Len(line) \in Nat /\ Len(line) # 0 /\ line \in Seq(Char)
  BY EmptySeq, LenProperties DEF TypeOK
<1>2. frame \in Frame /\ frame \in Seq(Char) /\ Len(frame) \in Nat
  <2>1. frame # <<>>
    <3>1. CASE frame = <<>>
      <4>1. Len(frame) = 0
        BY <3>1
      <4> QED
        BY <1>1, <4>1 DEF LineLeft
    <3> QED
      BY <3>1
  <2> QED
    BY <2>1, FrameFacts DEF TypeOK
<1>3. Pos \in Nat /\ Pos + Len(line) = Len(frame)
  BY <1>1, <1>2 DEF Pos, LineLeft
<1>4. /\ Head(line) \in Char /\ Head(line) = line[1]
      /\ Tail(line) \in Seq(Char) /\ Len(Tail(line)) = Len(line) - 1
      /\ \A i \in 1..Len(Tail(line)) : Tail(line)[i] = line[i + 1]
  BY <1>1, HeadTailProperties
<1>5. line[1] = frame[Pos + 1]
  BY <1>1 DEF LineLeft
<1>6. Tail(line) = <<>> <=> Len(Tail(line)) = 0
  BY <1>4, EmptySeq
<1> QED
  BY <1>1, <1>2, <1>3, <1>4, <1>5, <1>6

(* A character of the postfix is taken: it ends no prefix. *)
LEMMA PostfixTaken ==
    ASSUME ParserAssumption, TypeOK, LineLeft, line # <<>>, Len(line) =< Len(Postfix)
    PROVE  /\ Head(line) = Postfix[Len(Postfix) - Len(line) + 1]
           /\ \A k \in Callback : ~IsSuffix(Oobs[k].prefix, Given.buf)
<1> DEFINE m == Len(Postfix)
           l == Len(line)
           j == m - l + 1
<1>1. /\ m \in Nat /\ l \in Nat \ {0} /\ Len(frame) \in Nat /\ Pos \in Nat
      /\ Pos + l = Len(frame) /\ Head(line) = frame[Pos + 1] /\ Head(line) \in Char
      /\ StandsAt(Postfix, frame, Len(frame) - m)
  BY LineFacts, FrameFacts
<1>2. j \in 1..m /\ Len(frame) - m + j = Pos + 1
  BY <1>1
<1>3. frame[Len(frame) - m + j] = Postfix[j]
  BY <1>1, <1>2 DEF StandsAt
<1>4. Head(line) = Postfix[j]
  BY <1>1, <1>2, <1>3
<1>5. ASSUME NEW k \in Callback, IsSuffix(Oobs[k].prefix, Given.buf) PROVE FALSE
  <2>1. Head(line) = Oobs[k].prefix[Len(Oobs[k].prefix)]
    BY <1>1, <1>5, EndsAppended DEF Given, TypeOK
  <2>2. Len(Oobs[k].prefix) \in 1..Len(Oobs[k].prefix)
    BY CallbackFacts
  <2> QED
    BY <1>2, <1>4, <2>1, <2>2, CallbackFacts
<1> QED
  BY <1>4, <1>5

LEMMA LineLeftKept ==
    ASSUME ParserAssumption, TypeOK, LineLeft, [Next]_vars PROVE LineLeft'
<1>1. ASSUME line # <<>>, line' = Tail(line), UNCHANGED frame PROVE LineLeft'
  <2> DEFINE n == Len(frame)
             l == Len(line)
             t == Tail(line)
  <2>1. /\ n \in Nat /\ l \in Nat \ {0} /\ l =< n /\ Len(t) = l - 1
        /\ \A i \in 1..Len(t) : t[i] = line[i + 1]
        /\ \A i \in 1..l : line[i] = frame[(n - l) + i]
    BY <1>1, LineFacts DEF LineLeft, Pos
  <2> HIDE DEF n, l, t
  <2>2. \A i \in 1..(l - 1) : i + 1 \in 1..l /\ (n - l) + (i + 1) = (n - (l - 1)) + i
    BY <2>1
  <2>3. Len(t) =< n /\ \A i \in 1..Len(t) : t[i] = frame[(n - Len(t)) + i]
    BY <2>1, <2>2
  <2> QED
    BY <1>1, <2>3 DEF LineLeft, Pos, n, t
<1>2. ASSUME NEW f \in Frame, Send(f) PROVE LineLeft'
  <2>1. line' = f /\ frame' = f /\ Len(f) \in Nat
    BY <1>2, FrameFacts DEF Send
  <2>2. \A i \in 1..Len(f) : (Len(f) - Len(f)) + i = i
    BY <2>1
  <2> QED
    BY <2>1, <2>2 DEF LineLeft, Pos
<1>3. CASE Lose \/ BufferFull \/ GetChar
  BY <1>1, <1>3 DEF Lose, BufferFull, GetChar, Drop
<1>4. CASE Enter \/ TimeOut \/ UNCHANGED vars
  BY <1>4 DEF Enter, TimeOut, vars, history, LineLeft, Pos
<1> QED
  BY <1>2, <1>3, <1>4 DEF Next

LEMMA CapturingFinite ==
    ASSUME ParserAssumption
    PROVE  IsFiniteSet(Capturing) /\ (Cardinality(Capturing) > 1 \/ \A j, k \in Capturing : j = k)
<1>1. Callback = 1..Len(Oobs) /\ Len(Oobs) \in Nat /\ Capturing \subseteq Callback
  BY CallbackFacts DEF Capturing
<1>2. IsFiniteSet(1..Len(Oobs))
  BY <1>1, FS_Interval
<1>3. IsFiniteSet(Capturing) /\ Cardinality(Capturing) \in Nat
  BY <1>1, <1>2, FS_Subset, FS_CardinalityType
<1>4. CASE Cardinality(Capturing) = 0
  BY <1>3, <1>4, FS_EmptySet
<1>5. CASE Cardinality(Capturing) = 1
  <2>1. \E x : Capturing = {x}
    BY <1>3, <1>5, FS_Singleton
  <2> QED
    BY <1>3, <2>1
<1> QED
  BY <1>3, <1>4, <1>5

LEMMA OneCaptureKept ==
    ASSUME ParserAssumption, OneCapture, [Next]_vars PROVE OneCapture'
<1>1. CASE GetChar
  <2>1. (Cardinality(Capturing) > 1 \/ \A j, k \in Capturing : j = k)'
    BY CapturingFinite, PTL
  <2>2. overlap' = (overlap \/ Cardinality(Capturing') > 1)
    BY <1>1 DEF GetChar
  <2> QED
    BY <2>1, <2>2 DEF OneCapture
<1>2. ASSUME NEW f \in Frame, Send(f) PROVE OneCapture'
  <2>1. overlap' = (overlap /\ ~AtRest) /\ Capturing' = Capturing
    BY <1>2 DEF Send, Capturing
  <2>2. AtRest => Capturing = {}
    BY DEF AtRest
  <2> QED
    BY <2>1, <2>2 DEF OneCapture
<1>3. ASSUME UNCHANGED <<reallen, overlap>> PROVE OneCapture'
  BY <1>3 DEF OneCapture, Capturing
<1>4. CASE Lose \/ BufferFull
  BY <1>3, <1>4 DEF Lose, BufferFull, Drop
<1>5. CASE Enter \/ TimeOut \/ UNCHANGED vars
  BY <1>3, <1>5 DEF Enter, TimeOut, vars, history
<1> QED
  BY <1>1, <1>2, <1>4, <1>5 DEF Next

(* A character of the postfix goes into the one capture there is, if any. *)
LEMMA EndTaken ==
    ASSUME ParserAssumption, TypeOK, AllFit, LineLeft, OneCapture, GetChar,
           ~overlap, Len(line) =< Len(Postfix), NEW k \in Capturing'
    PROVE  /\ k \in Capturing /\ Given.reallen[k] = reallen[k]
           /\ GoesOn(Given, k, Head(line), Parser')
<1> DEFINE c == Head(line)
           r == Parser'
<1>1. /\ c \in Char /\ Given \in State /\ Given \in Good(Given.buf)
      /\ Given.reallen = reallen /\ Parser' = Scan(Given, c) /\ line # <<>>
  BY GetCharFacts DEF Asks
<1>2. \A j \in Callback : ~IsSuffix(Oobs[j].prefix, Given.buf)
  BY <1>1, PostfixTaken
<1>3. r.reallen[k] > 0 /\ k \in Callback
  BY DEF Capturing, Parser
<1>4. \A j \in Callback : Asked(Given, j) <=> j \in Capturing
  BY <1>1, <1>2 DEF Asked, Capturing
<1>5. Capturing # {}
  <2>1. CASE Capturing = {}
    <3>1. Scan(Given, c) = Given
      BY <1>4, <2>1, NoneAsked
    <3>2. k \in Capturing
      BY <1>1, <1>3, <3>1 DEF Capturing
    <3> QED
      BY <2>1, <3>2
  <2> QED
    BY <2>1
<1>6. PICK j \in Callback : j \in Capturing
  BY <1>5 DEF Capturing
<1>7. Asked(Given, j) /\ \A i \in Callback \ {j} : ~Asked(Given, i)
  BY <1>4, <1>6 DEF OneCapture
<1>8. /\ \A i \in Callback \ {j} : r.reallen[i] = 0
      /\ Overflows(Given, j, r) \/ Completes(Given, j, c, r) \/ GoesOn(Given, j, c, r)
  <2>1. LET s == Scan(Given, c)
        IN  /\ s \in State /\ \A i \in Callback \ {j} : s.reallen[i] = 0
            /\ Overflows(Given, j, s) \/ Completes(Given, j, c, s) \/ GoesOn(Given, j, c, s)
    BY <1>1, <1>7, OneAsked
  <2> QED
    BY <1>1, <2>1
<1> HIDE DEF r
<1>9. k = j
  BY <1>3, <1>8
<1>10. r.reallen[j] # 0
  BY <1>3, <1>9
<1>11. GoesOn(Given, j, c, r)
  BY <1>8, <1>10 DEF Overflows, Completes
<1> QED
  BY <1>1, <1>6, <1>9, <1>11 DEF r

LEMMA EndCaptureKept ==
    ASSUME ParserAssumption, TypeOK, AllFit, LineLeft, OneCapture, EndIsCaptured,
           LineEndsCapture, [Next]_vars
    PROVE  EndIsCaptured' /\ LineEndsCapture'
<1> DEFINE m == Len(Postfix)
           l == Len(line)
<1>1. m \in Nat \ {0} /\ l \in Nat
  BY EmptySeq, LenProperties DEF TypeOK, ParserAssumption
<1>2. CASE GetChar
  <2>1. /\ Len(line') = l - 1 /\ l \in Nat \ {0} /\ (line' = <<>> <=> l = 1)
        /\ line # <<>> /\ cut' = cut /\ (~overlap' => ~overlap)
    <3>1. line' = Tail(line) /\ line # <<>> /\ cut' = cut
            /\ overlap' = (overlap \/ Cardinality(Capturing') > 1)
      BY <1>2 DEF GetChar
    <3> QED
      BY <3>1, LineFacts
  <2> SUFFICES ASSUME ~overlap', ~cut', l =< m, NEW k \in Capturing'
               PROVE  /\ l # 1
                      /\ reallen'[k] >= Len(Oobs[k].prefix) + (m - (l - 1))
                      /\ \A i \in 1..(m - (l - 1)) :
                            data'[reallen'[k] - (m - (l - 1)) + i] = Postfix[i]
    <3>1. Len(line') \in 1..(m - 1) => l =< m /\ Len(line') = l - 1
      BY <1>1, <2>1
    <3>2. line' = <<>> => l = 1 /\ l =< m
      <4> HIDE DEF l, m
      <4> QED
        BY <1>1, <2>1
    <3>3. LineEndsCapture'
      BY <3>2 DEF LineEndsCapture
    <3>4. EndIsCaptured'
      BY <3>1 DEF EndIsCaptured, m
    <3> QED
      BY <3>3, <3>4
  <2> DEFINE n == reallen[k]
             c == Head(line)
             g == Given
             s == Store(g, k, c)
             x == Len(Oobs[k].prefix)
             h == m - l
  <2>2. k \in Capturing /\ g.reallen[k] = n /\ GoesOn(g, k, c, Parser')
    BY <1>2, <2>1, EndTaken
  <2>3. k \in Callback /\ n \in Nat /\ n > 0 /\ n =< Oobs[k].maxlen /\ n >= x
          /\ x \in Nat /\ Oobs[k].maxlen \in Nat
    <3>1. k \in Callback /\ n > 0
      BY <2>2 DEF Capturing
    <3>2. n \in 0..Longest /\ Longest \in Nat
      BY <3>1, CallbackFacts DEF TypeOK
    <3>3. Fits(Parser, k)
      BY <3>1 DEF AllFit
    <3> QED
      BY <3>1, <3>2, <3>3, CallbackFacts DEF Fits, Parser
  <2>4. /\ c \in Char /\ g \in State /\ g.data = data
        /\ c = Postfix[h + 1]
    <3>1. c = Postfix[m - l + 1]
      BY <2>1, PostfixTaken
    <3> QED
      BY <1>2, <3>1, GetCharFacts
  <2>5. /\ n < Oobs[k].maxlen /\ ~Complete(s, k)
        /\ reallen'[k] = n + 1 /\ data' = s.data
    <3>1. Begun(g, k) = g
      BY <2>2, <2>3 DEF Begun
    <3>2. (Parser').reallen = reallen' /\ (Parser').data = data'
      BY DEF Parser
    <3> HIDE DEF g
    <3> QED
      BY <2>2, <3>1, <3>2 DEF GoesOn
  <2>6. /\ s \in State /\ s.reallen[k] = n + 1 /\ s.data[n + 1] = c
        /\ \A i \in 1..n : s.data[i] = data[i]
    <3>1. /\ s \in State /\ s.reallen = [g.reallen EXCEPT ![k] = n + 1]
          /\ s.data[n + 1] = c /\ \A i \in 1..n : s.data[i] = g.data[i]
      <4> HIDE DEF g, c, n
      <4> QED
        BY <2>2, <2>3, <2>4, <2>5, StoreFacts
    <3>2. g.reallen \in [Callback -> 0..Longest]
      BY <2>4, StateFacts
    <3> HIDE DEF s, g
    <3> QED
      BY <2>3, <2>4, <3>1, <3>2
  <2>7. h \in Nat /\ n >= x + h /\ \A i \in 1..h : data[n - h + i] = Postfix[i]
    <3>1. h \in Nat
      BY <1>1, <2>1
    <3>2. CASE h = 0
      BY <2>3, <3>2
    <3>3. CASE h # 0
      <4>1. l \in 1..(m - 1)
        BY <1>1, <2>1, <3>1, <3>3
      <4> QED
        BY <2>1, <2>2, <3>1, <4>1 DEF EndIsCaptured
    <3> QED
      BY <3>1, <3>2, <3>3
  <2>8. m - (l - 1) = h + 1
    BY <1>1
  <2> HIDE DEF s, n, h, x, c, g
  <2>9. n + 1 >= x + (h + 1)
    BY <2>3, <2>7
  <2>10. ASSUME NEW i \in 1..(h + 1) PROVE s.data[(n + 1) - (h + 1) + i] = Postfix[i]
    <3>1. CASE i = h + 1
      <4>1. (n + 1) - (h + 1) + (h + 1) = n + 1
        BY <2>3, <2>7
      <4> QED
        BY <2>4, <2>6, <3>1, <4>1
    <3>2. CASE i # h + 1
      <4>1. h \in Nat /\ n \in Nat /\ n >= h
        <5>1. x \in Nat /\ n \in Nat /\ h \in Nat /\ n >= x + h
          BY <2>3, <2>7
        <5> QED
          BY <5>1
      <4>2. i \in 1..h
        BY <3>2, <4>1
      <4>3. (n + 1) - (h + 1) + i = n - h + i /\ n - h + i \in 1..n
        BY <4>1, <4>2
      <4> QED
        BY <2>6, <2>7, <4>2, <4>3
    <3> QED
      BY <3>1, <3>2
  <2>11. l # 1
    <3> SUFFICES ASSUME l = 1 PROVE FALSE
      OBVIOUS
    <3>1. h + 1 = m
      BY <1>1, <2>8
    <3>2. s.reallen[k] >= x + m /\ \A i \in 1..m : s.data[s.reallen[k] - m + i] = Postfix[i]
      BY <2>6, <2>9, <2>10, <3>1
    <3>3. Complete(s, k)
      BY <2>3, <2>6, <3>2, CompleteFacts DEF x
    <3> QED
      BY <2>5, <3>3
  <2> QED
    BY <2>5, <2>8, <2>9, <2>10, <2>11 DEF x
<1>3. ASSUME NEW f \in Frame, Send(f) PROVE EndIsCaptured' /\ LineEndsCapture'
  <2>1. Len(f) \in Nat /\ StandsAt(Postfix, f, Len(f) - m)
    BY FrameFacts
  <2>2. Len(f) >= m
    BY <1>1, <2>1 DEF StandsAt
  <2>3. f # <<>>
    <3>1. CASE f = <<>>
      <4>1. Len(f) = 0
        BY <3>1
      <4> QED
        BY <1>1, <2>2, <4>1
    <3> QED
      BY <3>1
  <2>4. line' = f
    BY <1>3 DEF Send
  <2>5. Len(line') \notin 1..(m - 1) /\ line' # <<>>
    BY <1>1, <2>1, <2>2, <2>3, <2>4
  <2> QED
    BY <2>5 DEF EndIsCaptured, LineEndsCapture
<1>4. CASE Lose \/ BufferFull
  <2>1. line # <<>> /\ line' = Tail(line) /\ cut' = (cut \/ l =< m)
    BY <1>4 DEF Lose, BufferFull, Drop
  <2>2. Len(line') = l - 1
    BY <2>1, LineFacts
  <2>3. ~cut' => Len(line') \notin 1..(m - 1) /\ line' # <<>>
    <3>1. ~cut' => ~(l =< m)
      BY <2>1
    <3>2. line' = <<>> => Len(line') = 0
      OBVIOUS
    <3> HIDE DEF l, m
    <3> QED
      BY <1>1, <2>2, <3>1, <3>2
  <2> QED
    BY <2>3 DEF EndIsCaptured, LineEndsCapture
<1>5. CASE Enter \/ TimeOut \/ UNCHANGED vars
  <2>1. UNCHANGED <<data, reallen, line, cut, overlap>>
    BY <1>5 DEF Enter, TimeOut, vars, history
  <2> QED
    BY <2>1 DEF EndIsCaptured, LineEndsCapture, Capturing
<1> QED
  BY <1>2, <1>3, <1>4, <1>5 DEF Next

(* The end of a line ends every capture of at_scan_for_callback(), also one *)
(* that a line before it left open, whatever was lost before that end.      *)
THEOREM EveryLineEndsCapture == Spec => []LineEndsCapture
<1> USE ParserAssumption
<1> DEFINE Inv == /\ TypeOK /\ AllFit /\ LineLeft /\ OneCapture
                  /\ EndIsCaptured /\ LineEndsCapture
<1>1. Init => Inv
  <2> SUFFICES ASSUME Init PROVE Inv
    OBVIOUS
  <2>1. TypeOK /\ AllFit
    BY InitTypeOK
  <2>2. Capturing = {} /\ line = <<>> /\ frame = <<>>
    BY DEF Init, Capturing
  <2>3. LineLeft /\ Len(line) = 0
    BY <2>2 DEF LineLeft
  <2> QED
    BY <2>1, <2>2, <2>3 DEF OneCapture, EndIsCaptured, LineEndsCapture
<1>2. Inv /\ [Next]_vars => Inv'
  BY NextTypeOK, LineLeftKept, OneCaptureKept, EndCaptureKept
<1> QED
  BY <1>1, <1>2, PTL DEF Spec

-----------------------------------------------------------------------------
(* A clean line. *)

(* Where a prefix is in a line. *)
LEMMA PlaceStands ==
    ASSUME ParserAssumption, NEW f \in Frame, NEW k \in Callback, NEW n \in Nat, n < Len(f)
    PROVE  n + 1 \in Places(k, f) <=> StandsAt(Oobs[k].prefix, f, n)
<1> DEFINE x == Oobs[k].prefix
           l == Len(x)
           z == Len(f)
           a == n + 1
           g == SubSeq(f, a, z)
<1>1. /\ x \in Seq(Range(x)) /\ l \in Nat /\ l >= 2
      /\ f \in Seq(Char) /\ z \in Nat /\ a \in Nat \ {0} /\ a \in 1..z /\ z =< z
  BY CallbackFacts, FrameFacts
<1> HIDE DEF a, x, l
<1>2. /\ g \in Seq(Char)
      /\ Len(g) = IF a =< z THEN z - a + 1 ELSE 0
      /\ \A i \in 1..(z - a + 1) : g[i] = f[a + i - 1]
  BY ONLY <1>1, CutOf
<1> USE DEF x, l
<1>3. Len(g) = z - n /\ \A i \in 1..(z - n) : g[i] = f[n + i]
  <2> HIDE DEF g, z
  <2>1. z - a + 1 = z - n /\ a =< z /\ \A i \in 1..(z - n) : a + i - 1 = n + i
    <3>1. a = n + 1 /\ z \in Nat /\ a =< z
      BY <1>1 DEF a
    <3>2. z - a + 1 = z - n
      BY <3>1
    <3>3. \A i \in 1..(z - n) : a + i - 1 = n + i
      BY <3>1
    <3> QED
      BY <3>1, <3>2, <3>3
  <2> QED
    BY <1>2, <2>1
<1>4. n + 1 \in Places(k, f) <=> StandsAt(x, g, 0)
  <2>1. IsPrefix(x, g) <=> StandsAt(x, g, 0)
    BY <1>1, <1>2, PrefixStands
  <2> QED
    BY <1>1, <2>1 DEF Places, a
<1> HIDE DEF g, z, l
<1>5. StandsAt(x, g, 0) <=> l =< z - n /\ \A i \in 1..l : g[0 + i] = x[i]
  <2>1. 0 >= 0 /\ 0 + l = l
    BY <1>1
  <2> QED
    BY <1>3, <2>1 DEF StandsAt, l
<1>6. StandsAt(x, f, n) <=> l =< z - n /\ \A i \in 1..l : f[n + i] = x[i]
  <2>1. n >= 0 /\ (n + l =< z <=> l =< z - n)
    BY <1>1
  <2> QED
    BY <2>1 DEF StandsAt, l, z
<1>7. l =< z - n => \A i \in 1..l : g[0 + i] = f[n + i]
  <2>1. l =< z - n => \A i \in 1..l : 0 + i = i /\ i \in 1..(z - n)
    BY <1>1
  <2> QED
    BY <1>3, <2>1
<1> QED
  BY <1>4, <1>5, <1>6, <1>7

(* A report begins with its prefix and ends, behind it, with the postfix. *)
LEMMA ReportFacts ==
    ASSUME ParserAssumption, NEW f \in Frame, NEW k \in Callback, IsReport(f, k)
    PROVE  /\ \A i \in 1..Len(Oobs[k].prefix) : f[i] = Oobs[k].prefix[i]
           /\ Len(f) >= Len(Oobs[k].prefix) + Len(Postfix)
           /\ Len(f) =< Oobs[k].maxlen
           /\ IsPrefix(Oobs[k].prefix, f)
           /\ \A j \in Callback \ {k} : ~IsReport(f, j)
           /\ ~IsText(f)
<1> DEFINE x == Len(Oobs[k].prefix)
           m == Len(Postfix)
           z == Len(f)
<1>1. x \in Nat /\ x >= 2 /\ m \in Nat \ {0} /\ z \in Nat /\ f \in Seq(Char)
        /\ StandsAt(Postfix, f, z - m)
  BY CallbackFacts, FrameFacts
<1>2. 1 \in Places(k, f) /\ 0 < z
  <2>1. Places(k, f) = {1} /\ Places(k, f) \subseteq 1..z
    BY DEF IsReport, Places
  <2> QED
    BY <1>1, <2>1
<1>3. StandsAt(Oobs[k].prefix, f, 0)
  <2>1. 0 + 1 \in Places(k, f)
    BY <1>2
  <2> QED
    BY <1>2, <2>1, PlaceStands
<1>4. x =< z /\ \A i \in 1..x : f[i] = Oobs[k].prefix[i]
  <2>1. 0 + x =< z /\ \A i \in 1..x : f[0 + i] = Oobs[k].prefix[i]
    BY <1>3 DEF StandsAt
  <2>2. 0 + x = x /\ \A i \in 1..x : 0 + i = i
    BY <1>1
  <2> QED
    BY <2>1, <2>2
<1>5. z >= x + m
  <2> SUFFICES ASSUME ~(z >= x + m) PROVE FALSE
    OBVIOUS
  <2> DEFINE j == x - (z - m)
  <2>1. j \in 1..m /\ (z - m) + j = x /\ x \in 1..x
    BY <1>1, <1>4
  <2>2. \A i \in 1..m : f[(z - m) + i] = Postfix[i]
    BY <1>1 DEF StandsAt
  <2> HIDE DEF j
  <2>3. f[x] = Postfix[j]
    BY <2>1, <2>2
  <2>4. f[x] = Oobs[k].prefix[x]
    BY <1>4, <2>1
  <2> QED
    BY <2>1, <2>3, <2>4, CallbackFacts
<1>6. IsPrefix(Oobs[k].prefix, f)
  BY <1>1, <1>3, PrefixStands, CallbackFacts
<1>7. \A j \in Callback \ {k} : 1 \in Places(j, f) => FALSE
  BY DEF IsReport
<1>8. \A j \in Callback \ {k} : ~IsReport(f, j)
  BY <1>7 DEF IsReport
<1>9. ~IsText(f)
  BY <1>2 DEF IsText
<1> QED
  BY <1>4, <1>5, <1>6, <1>8, <1>9 DEF IsReport

(* What is half read is what the parser calls half read. *)
LEMMA HalfIsStrict ==
    ASSUME ParserAssumption, NEW b \in Seq(Char), NEW k \in Callback, NEW m \in 1..Len(b),
           Half(k, m, b)
    PROVE  /\ Len(b) - m + 1 \in 1..Len(b)
           /\ IsStrictPrefix(SubSeq(b, Len(b) - m + 1, Len(b)), Oobs[k].prefix)
<1> DEFINE x == Oobs[k].prefix
           n == Len(b)
           a == n - m + 1
           g == SubSeq(b, a, n)
<1>1. x \in Seq(Range(x)) /\ Len(x) \in Nat /\ n \in Nat /\ m \in Nat /\ m >= 1 /\ m =< n
  BY CallbackFacts, LenProperties
<1>2. a \in Nat \ {0} /\ a \in 1..n /\ n - a + 1 = m /\ a =< n
  BY <1>1
<1>3. /\ g \in Seq(Char) /\ Len(g) = IF a =< n THEN n - a + 1 ELSE 0
      /\ \A i \in 1..(n - a + 1) : g[i] = b[a + i - 1]
  BY <1>2, CutOf
<1> HIDE DEF a, g
<1>4. Len(g) = m /\ \A i \in 1..m : g[i] = b[a + i - 1]
  BY <1>2, <1>3
<1>5. m < Len(x) /\ \A i \in 1..m : b[n - m + i] = x[i]
  BY DEF Half
<1>6. \A i \in 1..m : a + i - 1 = n - m + i /\ 0 + i = i
  BY <1>1 DEF a
<1>7. StandsAt(g, x, 0)
  <2>1. ASSUME NEW i \in 1..m PROVE x[0 + i] = g[i]
    <3>1. g[i] = b[n - m + i]
      BY <1>4, <1>6
    <3> QED
      BY <1>5, <1>6, <3>1
  <2>2. 0 >= 0 /\ 0 + m =< Len(x)
    BY <1>1, <1>5
  <2> HIDE DEF x
  <2> QED
    BY <1>4, <2>1, <2>2 DEF StandsAt
<1>8. IsPrefix(g, x)
  BY <1>1, <1>3, <1>7, PrefixStands
<1>9. g # x
  BY <1>1, <1>4, <1>5
<1> QED
  BY <1>2, <1>8, <1>9 DEF IsStrictPrefix, a, g

(* A prefix that ends with what is read of a clean line is in that line. *)
LEMMA FoundInLine ==
    ASSUME ParserAssumption, TypeOK, AllFit, LineLeft, BufFollows, clean, GetChar,
           NEW k \in Callback, IsSuffix(Oobs[k].prefix, Given.buf)
    PROVE  /\ Len(Oobs[k].prefix) =< Pos + 1
           /\ (Pos + 1) - Len(Oobs[k].prefix) + 1 \in Places(k, frame)
<1> DEFINE x == Oobs[k].prefix
           l == Len(x)
           n == Len(buf)
           c == Head(line)
<1>1. /\ l \in Nat /\ l >= 2 /\ n \in Nat /\ buf \in Seq(Char) /\ yielding /\ c \in Char
      /\ Given.buf = Append(buf, c) /\ line # <<>>
  BY CallbackFacts, GetCharFacts, LenProperties DEF TypeOK
<1>2. /\ Pos \in Nat /\ Pos + 1 =< Len(frame) /\ c = frame[Pos + 1]
      /\ frame \in Frame /\ Len(frame) \in Nat
  BY <1>1, LineFacts
<1>3. c = x[l] /\ Half(k, l - 1, buf)
  BY <1>1, EndsAppended
<1>4. l - 1 \in 1..n /\ \A i \in 1..(l - 1) : buf[n - (l - 1) + i] = x[i]
  BY <1>3 DEF Half
<1>5. l - 1 =< Pos
  BY <1>1, <1>3, <1>4 DEF BufFollows
<1>6. \A i \in 1..n : n - i < Pos => buf[i] = frame[Pos - (n - i)]
  BY <1>1 DEF BufFollows
<1> DEFINE q == (Pos + 1) - l
<1> HIDE DEF x, l, n, c
<1>7. ASSUME NEW i \in 1..l PROVE frame[q + i] = x[i]
  <2>1. CASE i = l
    <3>1. q + l = Pos + 1
      BY <1>1, <1>2
    <3> QED
      BY <1>2, <1>3, <2>1, <3>1
  <2>2. CASE i # l
    <3>1. i \in 1..(l - 1)
      BY <1>1, <2>2
    <3> DEFINE h == n - (l - 1) + i
    <3>2. h \in 1..n /\ n - h < Pos /\ Pos - (n - h) = q + i
      BY <1>1, <1>2, <1>4, <1>5, <3>1
    <3>3. buf[h] = x[i]
      BY <1>4, <3>1
    <3> HIDE DEF h, q
    <3>4. buf[h] = frame[q + i]
      BY <1>6, <3>2
    <3> QED
      BY <3>3, <3>4
  <2> QED
    BY <2>1, <2>2
<1>8. q \in Nat /\ q < Len(frame) /\ q + l =< Len(frame) /\ q >= 0
  BY <1>1, <1>2, <1>5
<1>9. StandsAt(x, frame, q)
  BY <1>7, <1>8 DEF StandsAt, l
<1> HIDE DEF q
<1>10. q + 1 \in Places(k, frame)
  BY <1>2, <1>8, <1>9, PlaceStands DEF x
<1>11. l =< Pos + 1
  BY <1>1, <1>2, <1>5
<1> QED
  BY <1>10, <1>11 DEF q, l, x

(* The prefix of a clean report is found with its last character. *)
LEMMA PrefixFound ==
    ASSUME ParserAssumption, TypeOK, AllFit, LineLeft, BufFollows, clean, GetChar,
           NEW k \in Callback, IsReport(frame, k), Pos + 1 = Len(Oobs[k].prefix),
           Len(buf) >= Pos
    PROVE  IsSuffix(Oobs[k].prefix, Given.buf)
<1> DEFINE x == Oobs[k].prefix
           l == Len(x)
           n == Len(buf)
           c == Head(line)
<1>1. /\ l \in Nat /\ l >= 2 /\ n \in Nat /\ buf \in Seq(Char) /\ yielding /\ c \in Char
      /\ Given.buf = Append(buf, c) /\ line # <<>>
  BY CallbackFacts, GetCharFacts, LenProperties DEF TypeOK
<1>2. Pos \in Nat /\ c = frame[Pos + 1] /\ frame \in Frame
  BY <1>1, LineFacts
<1>3. \A i \in 1..l : frame[i] = x[i]
  BY <1>2, ReportFacts
<1>4. \A i \in 1..n : n - i < Pos => buf[i] = frame[Pos - (n - i)]
  BY <1>1 DEF BufFollows
<1> HIDE DEF x, l, n, c
<1>5. Pos + 1 = l /\ n >= Pos
  BY DEF l, n, x
<1>6. c = x[l]
  <2>1. Pos + 1 \in 1..l
    BY <1>1, <1>5
  <2> QED
    BY <1>2, <1>3, <1>5, <2>1
<1>7. ASSUME NEW i \in 1..(l - 1) PROVE buf[n - (l - 1) + i] = x[i]
  <2> DEFINE h == n - (l - 1) + i
  <2>1. h \in 1..n /\ n - h < Pos /\ Pos - (n - h) = i /\ i \in 1..l
    BY <1>1, <1>2, <1>5
  <2> HIDE DEF h
  <2>2. buf[h] = frame[i]
    BY <1>4, <2>1
  <2> QED
    BY <1>3, <2>1, <2>2 DEF h
<1>8. l - 1 \in 1..n /\ l - 1 < l
  BY <1>1, <1>2, <1>5
<1>9. Half(k, l - 1, buf)
  BY <1>7, <1>8 DEF Half, x, l, n
<1> QED
  BY <1>1, <1>6, <1>9, EndsAppended DEF x, l, c

(* The beginning of a line is captured and its next character is stored. *)
LEMMA StoredOfLine ==
    ASSUME ParserAssumption, NEW f \in Frame, NEW b \in State, NEW k \in Callback,
           NEW n \in Nat, n = b.reallen[k], n < Oobs[k].maxlen, n < Len(f),
           \A i \in 1..n : b.data[i] = f[i]
    PROVE  LET s == Store(b, k, f[n + 1])
           IN  /\ s \in State /\ s.reallen[k] = n + 1
               /\ \A i \in 1..(n + 1) : s.data[i] = f[i]
               /\ Complete(s, k) <=> /\ n + 1 >= Len(Oobs[k].prefix) + Len(Postfix)
                                     /\ n + 1 = Len(f)
               /\ n + 1 = Len(f) => Captured(s, k) = f
<1> DEFINE c == f[n + 1]
           s == Store(b, k, c)
           m == Len(Postfix)
           x == Len(Oobs[k].prefix)
           z == Len(f)
<1>1. /\ m \in Nat \ {0} /\ x \in Nat /\ z \in Nat /\ f \in Seq(Char)
      /\ StandsAt(Postfix, f, z - m)
      /\ \A i \in 1..(z - 1) : i - m >= 0 => ~StandsAt(Postfix, f, i - m)
  BY CallbackFacts, FrameFacts
<1>2. c \in Char
  <2>1. n + 1 \in 1..Len(f)
    BY <1>1
  <2> QED
    BY <1>1, <2>1, ElementOfSeq
<1> HIDE DEF c, m, x, z
<1>3. /\ s \in State /\ s.reallen = [b.reallen EXCEPT ![k] = n + 1]
      /\ s.data[n + 1] = c /\ \A i \in 1..n : s.data[i] = b.data[i]
  BY <1>2, StoreFacts, SMTT(30)
<1> HIDE DEF s
<1>4. s.reallen[k] = n + 1
  BY <1>3, StateFacts
<1>5. ASSUME NEW i \in 1..(n + 1) PROVE s.data[i] = f[i]
  <2>1. i = n + 1 \/ i \in 1..n
    OBVIOUS
  <2> QED
    BY <1>3, <2>1 DEF c
<1>6. Complete(s, k) <=> n + 1 >= x + m /\ \A i \in 1..m : s.data[(n + 1) - m + i] = Postfix[i]
  <2> DEFINE w == s.reallen[k]
  <2>1. Complete(s, k) <=> w >= x + m /\ \A i \in 1..m : s.data[w - m + i] = Postfix[i]
    BY <1>3, CompleteFacts DEF x, m
  <2>2. w = n + 1
    BY <1>4
  <2> HIDE DEF w
  <2> QED
    BY <2>1, <2>2
<1>7. ASSUME n + 1 >= x + m
      PROVE  (\A i \in 1..m : s.data[(n + 1) - m + i] = Postfix[i]) <=> n + 1 = z
  <2> DEFINE e == n + 1
  <2>0. e \in Nat /\ e =< z /\ m \in Nat /\ e >= m
    <3>1. x \in Nat /\ m \in Nat /\ z \in Nat /\ n < z
      BY <1>1 DEF z
    <3>2. e >= m
      BY <1>7, <3>1
    <3> QED
      BY <3>1, <3>2
  <2>1. n + 1 =< z /\ (n + 1) - m \in Nat /\ (n + 1) - m + m = n + 1
    <3> HIDE DEF e
    <3>1. e =< z /\ e - m \in Nat /\ e - m + m = e
      BY <2>0
    <3> QED
      BY <3>1 DEF e
  <2>2. \A i \in 1..m : (n + 1) - m + i \in 1..(n + 1)
    <3> HIDE DEF e
    <3>1. \A i \in 1..m : e - m + i \in 1..e
      BY <2>0
    <3> QED
      BY <3>1 DEF e
  <2>3. \A i \in 1..m : s.data[(n + 1) - m + i] = f[(n + 1) - m + i]
    BY <1>5, <2>2
  <2>4. (\A i \in 1..m : f[(n + 1) - m + i] = Postfix[i]) <=> StandsAt(Postfix, f, (n + 1) - m)
    BY <2>1 DEF StandsAt, m, z
  <2>5. CASE n + 1 = z
    BY <1>1, <2>3, <2>4, <2>5
  <2>6. CASE n + 1 # z
    <3>1. n + 1 \in 1..(z - 1) /\ (n + 1) - m >= 0
      <4>1. z \in Nat /\ n + 1 =< z /\ n + 1 # z
        BY <1>1, <2>1, <2>6
      <4>2. n + 1 \in 1..(z - 1)
        BY <4>1
      <4>3. (n + 1) - m >= 0
        BY <2>1
      <4> QED
        BY <4>2, <4>3
    <3>2. ~StandsAt(Postfix, f, (n + 1) - m)
      BY <1>1, <3>1
    <3> QED
      BY <2>3, <2>4, <2>6, <3>2
  <2> QED
    BY <2>5, <2>6
<1>8. ASSUME n + 1 = z PROVE Captured(s, k) = f
  <2>1. /\ Captured(s, k) \in Seq(Text) /\ Len(Captured(s, k)) = n + 1
        /\ \A i \in 1..(n + 1) : Captured(s, k)[i] = s.data[i]
    BY <1>3, <1>4, CapturedFacts
  <2>2. f \in Seq(Text) /\ Len(f) = n + 1
    <3>1. f \in Seq(Text)
      BY <1>1 DEF Text
    <3> QED
      BY <1>8, <3>1 DEF z
  <2>3. \A i \in 1..(n + 1) : Captured(s, k)[i] = f[i]
    BY <1>5, <2>1
  <2>4. \A u, v \in Seq(Text) : Len(u) = Len(v) /\ (\A i \in 1..Len(u) : u[i] = v[i]) => u = v
    BY SeqEqual
  <2> QED
    BY <2>1, <2>2, <2>3, <2>4
<1> QED
  BY <1>3, <1>4, <1>5, <1>6, <1>7, <1>8 DEF s, c, x, m, z

(* What may end in a clean line that is a report: its own prefix, in time. *)
LEMMA OnlyItsPrefix ==
    ASSUME ParserAssumption, TypeOK, AllFit, LineLeft, BufFollows, clean, GetChar,
           NEW k \in Callback, IsReport(frame, k)
    PROVE  \A j \in Callback : IsSuffix(Oobs[j].prefix, Given.buf) =>
              j = k /\ Pos + 1 = Len(Oobs[k].prefix)
<1> SUFFICES ASSUME NEW j \in Callback, IsSuffix(Oobs[j].prefix, Given.buf)
             PROVE  j = k /\ Pos + 1 = Len(Oobs[k].prefix)
  OBVIOUS
<1> DEFINE l == Len(Oobs[j].prefix)
           q == (Pos + 1) - l + 1
<1>1. q \in Places(j, frame) /\ l =< Pos + 1
  BY FoundInLine
<1>2. l \in Nat /\ Pos \in Nat
  BY GetCharFacts, LineFacts, CallbackFacts
<1> HIDE DEF q
<1>3. j = k
  BY <1>1 DEF IsReport
<1>4. q = 1
  BY <1>1, <1>3 DEF IsReport
<1> HIDE DEF l
<1>5. Pos + 1 = l
  BY <1>2, <1>4 DEF q
<1> QED
  BY <1>3, <1>5 DEF l

(* The next character of a clean report whose prefix it ends or follows. *)
LEMMA ReportGoesOn ==
    ASSUME ParserAssumption, TypeOK, AllFit, LineLeft, BufFollows, CleanFollowed, clean,
           GetChar, NEW k \in Callback, IsReport(frame, k),
           Pos + 1 >= Len(Oobs[k].prefix)
    PROVE  LET r == Parser'
           IN  /\ \A j \in Callback \ {k} : r.reallen[j] = 0
               /\ Pos + 1 = Len(frame) => r.out = <<[cb |-> k, text |-> frame]>>
               /\ Pos + 1 # Len(frame) =>
                     /\ r.out = <<>> /\ r.reallen[k] = Pos + 1
                     /\ \A i \in 1..(Pos + 1) : r.data[i] = frame[i]
<1> DEFINE c == Head(line)
           x == Len(Oobs[k].prefix)
           b == Begun(Given, k)
           s == Store(b, k, c)
           n == Pos
           r == Parser'
<1>1. /\ n \in Nat /\ n + 1 =< Len(frame) /\ n < Len(frame) /\ c = frame[n + 1]
      /\ frame \in Frame /\ line # <<>> /\ Len(frame) \in Nat
  <2>1. line # <<>>
    BY GetCharFacts
  <2>2. /\ Pos \in Nat /\ Len(line) \in Nat \ {0} /\ Pos + Len(line) = Len(frame)
        /\ c = frame[Pos + 1] /\ frame \in Frame /\ Len(frame) \in Nat
    BY <2>1, LineFacts
  <2>3. Pos + 1 =< Len(frame) /\ Pos < Len(frame)
    BY <2>2
  <2> QED
    BY <2>1, <2>2, <2>3
<1>2. /\ c \in Char /\ Given \in State /\ Given \in Good(Given.buf)
      /\ Given.buf = Append(buf, c) /\ Given.data = data
      /\ Given.reallen = reallen /\ Given.out = out /\ r = Scan(Given, c) /\ yielding
  BY GetCharFacts DEF Asks
<1>3. /\ x \in Nat /\ x >= 2 /\ \A i \in 1..x : frame[i] = Oobs[k].prefix[i]
      /\ Len(frame) >= x + Len(Postfix) /\ Len(frame) =< Oobs[k].maxlen
      /\ Oobs[k].maxlen \in Nat /\ Len(Postfix) \in Nat \ {0}
  BY <1>1, ReportFacts, CallbackFacts, FrameFacts
<1>4. Follows(k)
  BY DEF CleanFollowed
<1>5. \A j \in Callback : IsSuffix(Oobs[j].prefix, Given.buf) => j = k /\ n + 1 = x
  BY OnlyItsPrefix
<1>6. /\ Asked(Given, k) /\ \A j \in Callback \ {k} : ~Asked(Given, j)
      /\ Given.out = <<>>
      /\ b \in State /\ b.reallen[k] = n /\ \A i \in 1..n : b.data[i] = frame[i]
  <2>1. CASE n + 1 = x
    <3>1. /\ out = <<>> /\ \A j \in Callback : reallen[j] = 0
          /\ n > 0 /\ Len(buf) >= n
      BY <1>1, <1>3, <1>4, <2>1 DEF Follows, NoneYet
    <3>2. IsSuffix(Oobs[k].prefix, Given.buf)
      BY <2>1, <3>1, PrefixFound
    <3>3. b = Open(Given, k)
      BY <1>2, <3>1 DEF Begun
    <3>4. /\ b \in State /\ b.reallen = [Given.reallen EXCEPT ![k] = x - 1]
          /\ \A i \in 1..(x - 1) : b.data[i] = Oobs[k].prefix[i]
      <4>1. Given \in State
        BY <1>2
      <4> HIDE DEF b
      <4>2. /\ Open(Given, k) \in State
            /\ Open(Given, k).reallen = [Given.reallen EXCEPT ![k] = x - 1]
            /\ \A i \in 1..(x - 1) : Open(Given, k).data[i] = Oobs[k].prefix[i]
        BY <4>1, <3>2, OpenFacts
      <4> QED
        BY ONLY <3>3, <4>2
    <3>5. x - 1 = n /\ \A i \in 1..n : i \in 1..x
      BY <1>1, <1>3, <2>1
    <3>6. b.reallen[k] = x - 1
      <4>1. Given.reallen \in [Callback -> 0..Longest]
        BY <1>2, StateFacts
      <4> HIDE DEF b
      <4> QED
        BY <3>4, <4>1
    <3>7. \A j \in Callback \ {k} : ~Asked(Given, j)
      BY <1>2, <1>5, <3>1 DEF Asked
    <3>8. Asked(Given, k)
      BY <3>2 DEF Asked
    <3> HIDE DEF b, n, x
    <3>9. \A i \in 1..n : b.data[i] = frame[i]
      BY <1>3, <3>4, <3>5
    <3> QED
      BY <1>2, <3>1, <3>4, <3>5, <3>6, <3>7, <3>8, <3>9
  <2>2. CASE n + 1 # x
    <3>1. n >= x /\ n > 0
      BY <1>1, <1>3, <2>2
    <3>2. /\ out = <<>> /\ reallen[k] = n
          /\ \A j \in Callback \ {k} : reallen[j] = 0
          /\ \A i \in 1..n : data[i] = frame[i]
      BY <1>1, <1>4, <3>1 DEF Follows
    <3>3. b = Given
      BY <1>2, <3>1, <3>2 DEF Begun
    <3>4. Asked(Given, k)
      BY <1>2, <3>1, <3>2 DEF Asked
    <3>5. \A j \in Callback \ {k} : ~Asked(Given, j)
      BY <1>2, <1>5, <3>2 DEF Asked
    <3> HIDE DEF b
    <3> QED
      BY <1>2, <3>2, <3>3, <3>4, <3>5
  <2> QED
    BY <2>1, <2>2
<1>7. /\ \A j \in Callback \ {k} : r.reallen[j] = 0
      /\ Overflows(Given, k, r) \/ Completes(Given, k, c, r) \/ GoesOn(Given, k, c, r)
  <2>1. LET t == Scan(Given, c)
        IN  /\ t \in State /\ \A i \in Callback \ {k} : t.reallen[i] = 0
            /\ Overflows(Given, k, t) \/ Completes(Given, k, c, t) \/ GoesOn(Given, k, c, t)
    BY <1>2, <1>6, OneAsked
  <2> QED
    BY <1>2, <2>1
<1> HIDE DEF n, b
<1>8. n < Oobs[k].maxlen
  BY <1>1, <1>3
<1>9. /\ s \in State /\ s.reallen[k] = n + 1
      /\ \A i \in 1..(n + 1) : s.data[i] = frame[i]
      /\ Complete(s, k) <=> n + 1 >= x + Len(Postfix) /\ n + 1 = Len(frame)
      /\ n + 1 = Len(frame) => Captured(s, k) = frame
  <2>1. LET t == Store(b, k, frame[n + 1])
        IN  /\ t \in State /\ t.reallen[k] = n + 1
            /\ \A i \in 1..(n + 1) : t.data[i] = frame[i]
            /\ Complete(t, k) <=> n + 1 >= x + Len(Postfix) /\ n + 1 = Len(frame)
            /\ n + 1 = Len(frame) => Captured(t, k) = frame
    BY <1>1, <1>6, <1>8, StoredOfLine
  <2> HIDE DEF c
  <2> QED
    BY <1>1, <2>1
<1>10. Complete(s, k) <=> n + 1 = Len(frame)
  <2>1. n + 1 = Len(frame) => n + 1 >= x + Len(Postfix)
    BY <1>3
  <2> QED
    BY <1>9, <2>1
<1>11. ~Overflows(Given, k, r)
  BY <1>3, <1>6, <1>8 DEF Overflows, b
<1> HIDE DEF r
<1>12. CASE n + 1 = Len(frame)
  <2>1. Completes(Given, k, c, r)
    BY <1>7, <1>10, <1>11, <1>12 DEF GoesOn, s, b
  <2>2. r.out = Append(Given.out, [cb |-> k, text |-> Captured(s, k)])
    BY <2>1 DEF Completes, s, b
  <2>3. Captured(s, k) = frame
    BY <1>9, <1>12
  <2> HIDE DEF s
  <2>4. r.out = <<[cb |-> k, text |-> frame]>>
    BY <1>6, <2>2, <2>3
  <2> QED
    BY <1>7, <1>12, <2>4 DEF r, n
<1>13. CASE n + 1 # Len(frame)
  <2>1. GoesOn(Given, k, c, r)
    BY <1>7, <1>10, <1>11, <1>13 DEF Completes, s, b
  <2>2. r.out = Given.out /\ r.data = s.data /\ r.reallen[k] = n + 1
    BY <1>6, <2>1 DEF GoesOn, s, b
  <2> HIDE DEF s
  <2> QED
    BY <1>6, <1>7, <1>9, <1>13, <2>2 DEF r, n
<1> QED
  BY <1>12, <1>13

LEMMA BufFollowsKept ==
    ASSUME ParserAssumption, TypeOK, AllFit, LineLeft, BufFollows, [Next]_vars
    PROVE  BufFollows'
<1> DEFINE n == Len(buf)
           c == Head(line)
<1>1. n \in Nat /\ buf \in Seq(Char)
  BY LenProperties DEF TypeOK
<1>2. ASSUME buf' = <<>> PROVE BufFollows'
  <2>1. \A i \in 1..Len(buf') : FALSE
    BY <1>2
  <2> QED
    BY <2>1 DEF BufFollows
<1>3. ASSUME NEW f \in Frame, Send(f) PROVE BufFollows'
  <2>1. /\ buf' = buf /\ yielding' = yielding /\ (clean' => AtRest)
        /\ frame' = f /\ line' = f /\ Len(f) \in Nat
    BY <1>3, FrameFacts DEF Send
  <2>2. Pos' = 0
    BY <2>1 DEF Pos
  <2>3. ASSUME clean', yielding', NEW k \in Callback, NEW m \in 1..n, Half(k, m, buf)
        PROVE  FALSE
    <3>1. /\ n - m + 1 \in 1..n
          /\ IsStrictPrefix(SubSeq(buf, n - m + 1, n), Oobs[k].prefix)
      BY <1>1, <2>3, HalfIsStrict
    <3>2. \A j \in Callback, i \in 1..n : ~IsStrictPrefix(SubSeq(buf, i, n), Oobs[j].prefix)
      <4>1. yielding /\ AtRest
        BY <2>1, <2>3
      <4> QED
        BY <4>1 DEF AtRest
    <3> DEFINE h == n - m + 1
    <3> HIDE DEF n, h
    <3>3. h \in 1..n /\ IsStrictPrefix(SubSeq(buf, h, n), Oobs[k].prefix)
      BY <3>1 DEF h
    <3> QED
      BY <3>2, <3>3
  <2>4. \A i \in 1..n : ~(n - i < 0)
    <3> HIDE DEF n
    <3> QED
      BY <1>1
  <2>5. clean' /\ yielding' =>
          /\ \A i \in 1..n : ~(n - i < 0)
          /\ \A k \in Callback, m \in 1..n : ~Half(k, m, buf')
    <3>1. ASSUME clean', yielding', NEW k \in Callback, NEW m \in 1..n PROVE ~Half(k, m, buf')
      <4>1. ~Half(k, m, buf)
        BY <2>3, <3>1
      <4> QED
        BY <2>1, <4>1
    <3> QED
      BY <2>4, <3>1
  <2>6. Len(buf') = n
    BY <2>1
  <2> HIDE DEF n
  <2> QED
    BY <2>1, <2>2, <2>5, <2>6 DEF BufFollows
<1>4. CASE Lose \/ BufferFull
  BY <1>4 DEF Lose, BufferFull, Drop, BufFollows
<1>5. CASE Enter
  BY <1>2, <1>5 DEF Enter
<1>6. CASE TimeOut
  BY <1>6 DEF TimeOut, BufFollows
<1>7. CASE UNCHANGED vars
  BY <1>7 DEF vars, history, BufFollows, Pos
<1>8. CASE GetChar
  <2>1. /\ line # <<>> /\ yielding /\ clean' = clean /\ frame' = frame
        /\ line' = Tail(line) /\ c \in Char
        /\ buf' = Append(buf, c) \/ buf' = <<>>
    <3>1. Parser' \in Good(Append(buf, c))
      BY <1>8, GetCharFacts
    <3>2. (Parser').buf = buf'
      BY DEF Parser
    <3> QED
      BY <1>8, <3>1, <3>2, GetCharFacts DEF Good
  <2>2. Pos \in Nat /\ c = frame[Pos + 1] /\ Pos' = Pos + 1
    <3>1. /\ Pos \in Nat /\ c = frame[Pos + 1] /\ Len(line) \in Nat /\ Len(frame) \in Nat
          /\ Len(Tail(line)) = Len(line) - 1
      BY <2>1, LineFacts
    <3>2. Pos' = Len(frame) - (Len(line) - 1)
      BY <2>1, <3>1 DEF Pos
    <3> QED
      BY <3>1, <3>2 DEF Pos
  <2>3. SUFFICES ASSUME clean, buf' = Append(buf, c) PROVE BufFollows'
    BY <1>2, <2>1 DEF BufFollows
  <2> DEFINE t == Append(buf, c)
  <2>4. Len(t) = n + 1 /\ t[n + 1] = c /\ \A i \in 1..n : t[i] = buf[i]
    BY <1>1, <2>1, AppendProperties
  <2>5. /\ \A i \in 1..n : n - i < Pos => buf[i] = frame[Pos - (n - i)]
        /\ \A k \in Callback, m \in 1..n : Half(k, m, buf) => m =< Pos
    BY <2>1, <2>3 DEF BufFollows
  <2> HIDE DEF t, c, n
  <2>6. ASSUME NEW i \in 1..(n + 1), (n + 1) - i < Pos + 1
        PROVE  t[i] = frame[(Pos + 1) - ((n + 1) - i)]
    <3>1. CASE i = n + 1
      <4>1. (Pos + 1) - ((n + 1) - i) = Pos + 1
        BY <1>1, <2>2, <3>1
      <4> QED
        BY <2>2, <2>4, <3>1, <4>1
    <3>2. CASE i # n + 1
      <4>1. i \in 1..n /\ (Pos + 1) - ((n + 1) - i) = Pos - (n - i)
        BY <1>1, <2>2, <3>2
      <4>2. n - i < Pos
        BY <1>1, <2>2, <2>6, <4>1
      <4> QED
        BY <2>4, <2>5, <4>1, <4>2
    <3> QED
      BY <3>1, <3>2
  <2>7. ASSUME NEW k \in Callback, NEW m \in 1..(n + 1), Half(k, m, t) PROVE m =< Pos + 1
    <3>1. m < Len(Oobs[k].prefix) /\ \A i \in 1..m : t[(n + 1) - m + i] = Oobs[k].prefix[i]
      BY <2>4, <2>7 DEF Half
    <3>2. CASE m = 1
      BY <2>2, <3>2
    <3>3. CASE m # 1
      <4>1. m - 1 \in 1..n /\ m - 1 < Len(Oobs[k].prefix)
        <5>1. m - 1 \in 1..n
          BY <1>1, <3>3
        <5>2. Len(Oobs[k].prefix) \in Nat
          BY CallbackFacts
        <5> QED
          BY <3>1, <5>1, <5>2
      <4>2. ASSUME NEW i \in 1..(m - 1) PROVE buf[n - (m - 1) + i] = Oobs[k].prefix[i]
        <5> DEFINE h == n - (m - 1) + i
        <5>1. h \in 1..n /\ (n + 1) - m + i = h /\ i \in 1..m
          <6>1. m \in Nat /\ n \in Nat /\ m =< n + 1 /\ i \in Nat /\ i >= 1 /\ i =< m - 1
            BY <1>1
          <6> QED
            BY <6>1
        <5> HIDE DEF h
        <5>2. t[h] = Oobs[k].prefix[i]
          BY <3>1, <5>1
        <5> QED
          BY <2>4, <5>1, <5>2 DEF h
      <4>3. Half(k, m - 1, buf)
        BY <4>1, <4>2 DEF Half, n
      <4>4. m - 1 =< Pos
        BY <2>5, <4>1, <4>3
      <4> QED
        BY <2>2, <4>4
    <3> QED
      BY <3>2, <3>3
  <2>8. buf' = t /\ Len(buf') = n + 1
    BY <2>3, <2>4 DEF t
  <2> QED
    BY <2>1, <2>2, <2>6, <2>7, <2>8 DEF BufFollows
<1> QED
  BY <1>3, <1>4, <1>5, <1>6, <1>7, <1>8 DEF Next

LEMMA CleanFollowedKept ==
    ASSUME ParserAssumption, TypeOK, AllFit, LineLeft, BufFollows, CleanFollowed, [Next]_vars
    PROVE  CleanFollowed'
<1> SUFFICES ASSUME clean' PROVE CleanFollowed'
  BY DEF CleanFollowed
<1>1. ASSUME NEW f \in Frame, Send(f) PROVE CleanFollowed'
  <2>1. /\ AtRest /\ (IsText(f) \/ \E k \in Callback : IsReport(f, k))
        /\ frame' = f /\ line' = f /\ out' = <<>> /\ reallen' = reallen
    BY <1>1 DEF Send
  <2>2. Len(f) \in Nat /\ Len(Postfix) \in Nat \ {0}
          /\ StandsAt(Postfix, f, Len(f) - Len(Postfix))
    BY FrameFacts
  <2>3. Pos' = 0 /\ f # <<>>
    <3>1. Len(f) >= Len(Postfix)
      BY <2>2 DEF StandsAt
    <3>2. CASE f = <<>>
      <4>1. Len(f) = 0
        BY <3>2
      <4> QED
        BY <2>2, <3>1, <4>1
    <3> QED
      BY <2>1, <2>2, <3>2 DEF Pos
  <2>4. NoneYet'
    <3>1. \A k \in Callback : reallen[k] \in 0..Longest /\ ~(reallen[k] > 0)
      BY <2>1 DEF AtRest, Capturing, TypeOK
    <3>2. \A k \in Callback : reallen[k] = 0
      BY <3>1, CallbackFacts
    <3> QED
      BY <2>1, <3>2 DEF NoneYet
  <2>5. \A k \in Callback : Follows(k)'
    BY <2>1, <2>3, <2>4, CallbackFacts DEF Follows
  <2> QED
    BY <2>1, <2>4, <2>5 DEF CleanFollowed
<1>2. CASE Lose \/ BufferFull
  BY <1>2 DEF Lose, BufferFull, Drop
<1>3. CASE Enter
  <2>1. ~yielding /\ UNCHANGED <<data, reallen, line, frame, out, clean>>
    BY <1>3 DEF Enter, history
  <2>2. Pos' = Pos /\ (NoneYet' <=> NoneYet)
    BY <2>1 DEF Pos, NoneYet
  <2>3. ASSUME NEW k \in Callback, Follows(k) PROVE Follows(k)'
    <3>1. ~(Pos < Len(Oobs[k].prefix) /\ Pos > 0)
      BY <2>1, <2>3 DEF Follows
    <3> QED
      BY <2>1, <2>2, <2>3, <3>1 DEF Follows
  <2> QED
    BY <2>1, <2>2, <2>3 DEF CleanFollowed
<1>4. CASE TimeOut
  <2>1. /\ UNCHANGED <<buf, data, reallen, line, frame, out>> /\ clean
        /\ \A k \in Callback : IsPrefix(Oobs[k].prefix, frame) =>
              Pos \notin 1..(Len(Oobs[k].prefix) - 1)
    BY <1>4 DEF TimeOut, Pos
  <2>2. Pos' = Pos /\ (NoneYet' <=> NoneYet) /\ frame \in Frame
    BY <2>1 DEF Pos, NoneYet, CleanFollowed
  <2>3. ASSUME NEW k \in Callback, IsReport(frame, k), Follows(k) PROVE Follows(k)'
    <3>1. Pos \in Int /\ Len(Oobs[k].prefix) \in Nat
      <4>1. Len(frame) \in Nat /\ Len(line) \in Nat
        BY <2>2, FrameFacts, LenProperties DEF TypeOK
      <4> QED
        BY <4>1, CallbackFacts DEF Pos
    <3>2. Pos \notin 1..(Len(Oobs[k].prefix) - 1)
      BY <2>1, <2>2, <2>3, ReportFacts
    <3>3. ~(Pos < Len(Oobs[k].prefix) /\ Pos > 0)
      BY <3>1, <3>2
    <3> QED
      BY <2>1, <2>2, <2>3, <3>3 DEF Follows
  <2> QED
    BY <2>1, <2>2, <2>3 DEF CleanFollowed
<1>5. CASE UNCHANGED vars
  BY <1>5 DEF vars, history, CleanFollowed, Follows, NoneYet, Pos
<1>6. CASE GetChar
  <2>1. /\ line # <<>> /\ yielding /\ yielding' = yielding /\ clean /\ frame' = frame
        /\ line' = Tail(line)
        /\ Given.buf = Append(buf, Head(line)) /\ Head(line) \in Char
        /\ Given.reallen = reallen /\ Given.out = out
        /\ Parser' = Scan(Given, Head(line))
        /\ (Parser').buf = buf' /\ (Parser').data = data'
        /\ (Parser').reallen = reallen' /\ (Parser').out = out'
    <3>1. /\ (Parser').buf = buf' /\ (Parser').data = data'
          /\ (Parser').reallen = reallen' /\ (Parser').out = out'
      BY DEF Parser
    <3> QED
      BY <1>6, <3>1, GetCharFacts DEF Asks
  <2>2. /\ Pos \in Nat /\ Pos' = Pos + 1 /\ frame \in Frame /\ Len(frame) \in Nat
        /\ Pos + 1 =< Len(frame) /\ (line' = <<>> <=> Pos + 1 = Len(frame))
    <3>1. /\ Pos \in Nat /\ Len(line) \in Nat \ {0} /\ Len(frame) \in Nat
          /\ Pos + Len(line) = Len(frame) /\ frame \in Frame
          /\ Len(Tail(line)) = Len(line) - 1 /\ (Tail(line) = <<>> <=> Len(line) = 1)
      BY <2>1, LineFacts
    <3>2. Pos' = Len(frame) - (Len(line) - 1)
      BY <2>1, <3>1 DEF Pos
    <3> DEFINE l == Len(line)
               z == Len(frame)
    <3>5. Pos \in Nat /\ l \in Nat \ {0} /\ z \in Nat /\ Pos + l = z
      BY <3>1
    <3>3. Len(line) = 1 <=> Pos + 1 = Len(frame)
      <4> HIDE DEF l, z
      <4>1. l = 1 <=> Pos + 1 = z
        BY <3>5
      <4> QED
        BY <4>1 DEF l, z
    <3>4. Pos + 1 =< Len(frame) /\ Len(frame) - (Len(line) - 1) = Pos + 1
      <4> HIDE DEF l, z
      <4>1. Pos + 1 =< z /\ z - (l - 1) = Pos + 1
        BY <3>5
      <4> QED
        BY <4>1 DEF l, z
    <3> QED
      BY <2>1, <3>1, <3>2, <3>3, <3>4
  <2>3. ASSUME NoneYet, \A k \in Callback : ~IsSuffix(Oobs[k].prefix, Given.buf)
        PROVE  NoneYet' /\ buf' = Append(buf, Head(line))
    <3>1. \A k \in Callback : ~Asked(Given, k)
      BY <2>1, <2>3 DEF Asked, NoneYet
    <3>2. Parser' = Given
      BY <2>1, <3>1, NoneAsked
    <3>3. buf' = Given.buf /\ reallen' = Given.reallen /\ out' = Given.out
      BY <2>1, <3>2
    <3> QED
      BY <2>1, <2>3, <3>3 DEF NoneYet
  <2>4. ASSUME IsText(frame) PROVE NoneYet'
    <3>1. \A k \in Callback : ~IsSuffix(Oobs[k].prefix, Given.buf)
      BY <1>6, <2>1, <2>4, FoundInLine DEF IsText
    <3> QED
      BY <2>1, <2>3, <2>4, <3>1 DEF CleanFollowed
  <2>5. ASSUME NEW k \in Callback, IsReport(frame, k) PROVE Follows(k)'
    <3> DEFINE x == Len(Oobs[k].prefix)
    <3>1. /\ x \in Nat /\ x >= 2 /\ Len(Postfix) \in Nat \ {0}
          /\ Len(frame) >= x + Len(Postfix)
      BY <2>2, <2>5, ReportFacts, FrameFacts, CallbackFacts
    <3>2. Follows(k)
      BY <2>1, <2>5 DEF CleanFollowed
    <3>3. CASE Pos + 1 < x
      <4>1. NoneYet /\ (Pos > 0 => Len(buf) >= Pos)
        BY <2>2, <3>1, <3>2, <3>3 DEF Follows
      <4>2. \A j \in Callback : ~IsSuffix(Oobs[j].prefix, Given.buf)
        BY <1>6, <2>1, <2>2, <2>5, <3>1, <3>3, OnlyItsPrefix
      <4>3. NoneYet' /\ buf' = Append(buf, Head(line))
        BY <2>3, <4>1, <4>2
      <4>4. Len(buf') = Len(buf) + 1 /\ Len(buf) \in Nat
        BY <2>1, <4>3, AppendProperties, LenProperties DEF TypeOK
      <4>5. Len(buf') >= Pos + 1
        BY <2>2, <4>1, <4>4
      <4>6. line' # <<>> /\ ~(Pos + 1 >= x)
        BY <2>2, <3>1, <3>3
      <4> QED
        BY <2>1, <2>2, <4>3, <4>5, <4>6 DEF Follows
    <3>4. CASE Pos + 1 >= x
      <4>1. /\ \A j \in Callback \ {k} : reallen'[j] = 0
            /\ Pos + 1 = Len(frame) => out' = <<[cb |-> k, text |-> frame]>>
            /\ Pos + 1 # Len(frame) =>
                  /\ out' = <<>> /\ reallen'[k] = Pos + 1
                  /\ \A i \in 1..(Pos + 1) : data'[i] = frame[i]
        BY <1>6, <2>1, <2>5, <3>4, ReportGoesOn
      <4>2. ~(Pos + 1 < x)
        BY <2>2, <3>1, <3>4
      <4> QED
        BY <2>1, <2>2, <4>1, <4>2 DEF Follows
    <3> QED
      BY <2>2, <3>1, <3>3, <3>4
  <2> QED
    BY <2>1, <2>2, <2>4, <2>5 DEF CleanFollowed
<1> QED
  BY <1>1, <1>2, <1>3, <1>4, <1>5, <1>6 DEF Next

(* A report that finds the parser at rest goes to the one callback it names, *)
(* whole and once, however many yields at_yield() needs for it, and a line  *)
(* that is no report goes to none.                                          *)
THEOREM EveryReportOnce == Spec => []ReportedOnce
<1> USE ParserAssumption
<1> DEFINE Inv == TypeOK /\ AllFit /\ LineLeft /\ BufFollows /\ CleanFollowed
<1>1. Init => Inv
  <2> SUFFICES ASSUME Init PROVE Inv
    OBVIOUS
  <2>1. TypeOK /\ AllFit
    BY InitTypeOK
  <2>2. line = <<>> /\ frame = <<>> /\ ~clean
    BY DEF Init
  <2>3. LineLeft
    BY <2>2 DEF LineLeft
  <2> QED
    BY <2>1, <2>2, <2>3 DEF BufFollows, CleanFollowed
<1>2. Inv /\ [Next]_vars => Inv'
  BY NextTypeOK, LineLeftKept, BufFollowsKept, CleanFollowedKept
<1>3. Inv => ReportedOnce
  <2> SUFFICES ASSUME Inv, line = <<>>, clean PROVE ReportedOnce
    BY DEF ReportedOnce
  <2>1. CASE IsText(frame)
    BY <2>1 DEF CleanFollowed, NoneYet, ReportedOnce
  <2>2. CASE ~IsText(frame)
    <3>1. PICK k \in Callback : IsReport(frame, k)
      BY <2>2 DEF CleanFollowed
    <3>2. out = <<[cb |-> k, text |-> frame]>> /\ frame \in Frame
      BY <3>1 DEF CleanFollowed, Follows
    <3>3. \A j \in Callback : IsReport(frame, j) => j = k
      BY <3>1, <3>2, ReportFacts
    <3> DEFINE j == CHOOSE i \in Callback : IsReport(frame, i)
    <3>4. j = k
      BY <3>1, <3>3
    <3>5. ReportedOnce <=> (line = <<>> /\ clean => out = <<[cb |-> j, text |-> frame]>>)
      BY <2>2 DEF ReportedOnce
    <3> HIDE DEF j
    <3> QED
      BY <3>2, <3>4, <3>5
  <2> QED
    BY <2>1, <2>2
<1> QED
  BY <1>1, <1>2, <1>3, PTL DEF Spec

=============================================================================
