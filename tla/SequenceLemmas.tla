--------------------------- MODULE SequenceLemmas ---------------------------
(***************************************************************************)
(* Facts about numbers and sequences that the proofs about the components  *)
(* share.  Induction over the natural numbers is done by least             *)
(* counterexample (LeastNat).                                              *)
(***************************************************************************)
EXTENDS Integers, Sequences, SequencesExt, SequenceTheorems, WellFoundedInduction, TLAPS

\* A set of natural numbers that is not empty has a least element.
LEMMA LeastNat ==
  ASSUME NEW T \in SUBSET Nat, T # {}
  PROVE  \E x \in T : \A y \in T : x <= y
<1> DEFINE R == {p \in Nat \X Nat : p[1] < p[2]}
<1>1. IsWellFoundedOn(R, Nat)
  BY NatLessThanWellFounded, Zenon DEF OpToRel
<1>2. \A x, y \in Nat : y < x => <<y, x>> \in R
  OBVIOUS
<1> HIDE DEF R
<1>3. \E x \in T : \A y \in T : <<y, x>> \notin R
  BY <1>1, WFMin
<1>4. PICK x \in T : \A y \in T : <<y, x>> \notin R
  BY <1>3
<1>5. \A y \in T : ~(y < x)
  BY <1>2, <1>4
<1>6. QED BY <1>5

\* Min is that element.
LEMMA MinIsLeast ==
  ASSUME NEW T \in SUBSET Nat, T # {}
  PROVE  Min(T) \in T /\ \A y \in T : Min(T) <= y
<1>1. \E x \in T : \A y \in T : x <= y  BY LeastNat
<1>2. QED BY <1>1, Zenon DEF Min

\* A function on 1..n is a sequence of length n.
LEMMA FunctionSeq ==
  ASSUME NEW S, NEW n \in Nat, NEW f \in [1..n -> S]
  PROVE  f \in Seq(S) /\ Len(f) = n /\ DOMAIN f = 1..n
OBVIOUS

-----------------------------------------------------------------------------
(* Loops. *)

\* f holds what a loop of N turns from x0 on computes, turn by turn.
LoopValues(f, X, x0, N, step) ==
  /\ f \in [0..N -> X]
  /\ f[0] = x0 /\ \A i \in 1..N : f[i] = step[i][f[i - 1]]

\* They exist if every turn keeps X.
LEMMA LoopDef ==
  ASSUME NEW X, NEW x0 \in X, NEW N \in Nat, NEW step \in [1..N -> [X -> X]]
  PROVE  \E f : LoopValues(f, X, x0, N, step)
<1> DEFINE Upto(f, n) == f[0] = x0 /\ \A i \in 1..n : f[i] = step[i][f[i - 1]]
           Exists(n) == \E f \in [0..n -> X] : Upto(f, n)
           T == {n \in 0..N : ~Exists(n)}
<1> HIDE DEF Exists
<1>1. SUFFICES T = {}
  <2>1. Exists(N)
    BY <1>1
  <2>2. QED BY <2>1 DEF Exists, LoopValues
<1>2. SUFFICES ASSUME T # {} PROVE FALSE
  OBVIOUS
<1>3. PICK n \in T : \A k \in T : n <= k
  <2>1. T \in SUBSET Nat
    OBVIOUS
  <2> HIDE DEF T
  <2>2. QED BY <1>2, <2>1, LeastNat
<1>4. n \in 0..N /\ ~Exists(n)
  OBVIOUS
<1>5. CASE n = 0
  <2> DEFINE f == [i \in 0..n |-> x0]
  <2>1. f \in [0..n -> X] /\ Upto(f, n)
    BY <1>5
  <2>2. QED BY <1>4, <2>1 DEF Exists
<1>6. CASE n # 0
  <2>1. n - 1 \in 0..N /\ n \in 1..N /\ n - 1 < n
    BY <1>4, <1>6
  <2>2. Exists(n - 1)
    BY <1>3, <2>1
  <2>3. PICK g \in [0..(n - 1) -> X] : Upto(g, n - 1)
    BY <2>2 DEF Exists
  <2> DEFINE f == [i \in 0..n |-> IF i = n THEN step[n][g[n - 1]] ELSE g[i]]
  <2>4. f \in [0..n -> X]
    <3>1. g[n - 1] \in X /\ step[n] \in [X -> X]
      BY <2>1, <2>3
    <3>2. step[n][g[n - 1]] \in X
      BY <3>1
    <3>3. \A i \in 0..n : i # n => g[i] \in X
      BY <2>1, <2>3
    <3>4. QED BY <3>2, <3>3
  <2>5. ASSUME NEW i \in 1..n PROVE f[i] = step[i][f[i - 1]]
    <3>1. i \in 0..n /\ i - 1 \in 0..n /\ i - 1 # n /\ n \in Nat
      BY <2>1
    <3>2. f[i - 1] = g[i - 1]
      BY <3>1
    <3>3. CASE i = n
      BY <3>1, <3>2, <3>3
    <3>4. CASE i # n
      <4>1. i \in 1..(n - 1)  BY <3>4, <3>1
      <4>2. QED BY <3>1, <3>2, <3>4, <4>1, <2>3
    <3>5. QED BY <3>3, <3>4
  <2>6. f[0] = x0
    BY <2>1, <2>3
  <2>7. Upto(f, n)
    BY <2>5, <2>6
  <2> HIDE DEF f
  <2>8. QED BY <1>4, <2>4, <2>7 DEF Exists
<1>7. QED BY <1>5, <1>6

-----------------------------------------------------------------------------
(* Sequences, by the set of their elements. *)

\* Appending adds one element.
LEMMA AppendRange ==
  ASSUME NEW S, NEW s \in Seq(S), NEW x \in S
  PROVE  /\ Append(s, x) \in Seq(S)
         /\ Range(Append(s, x)) = Range(s) \cup {x}
<1>1. Append(s, x) \in Seq(S) /\ Len(Append(s, x)) = Len(s) + 1
  OBVIOUS
<1>2. \A p \in 1..Len(s) : Append(s, x)[p] = s[p]
  OBVIOUS
<1>3. Append(s, x)[Len(s) + 1] = x
  OBVIOUS
<1>4. DOMAIN Append(s, x) = 1..(Len(s) + 1) /\ DOMAIN s = 1..Len(s)
  BY <1>1
<1>5. Len(s) \in Nat
  OBVIOUS
<1>6. Range(Append(s, x)) \subseteq Range(s) \cup {x}
  BY <1>2, <1>3, <1>4, <1>5 DEF Range
<1>7. Range(s) \cup {x} \subseteq Range(Append(s, x))
  <2>1. ASSUME NEW p \in 1..Len(s) PROVE s[p] \in Range(Append(s, x))
    <3>1. p \in 1..(Len(s) + 1)  BY <1>5
    <3>2. QED BY <3>1, <1>2, <1>4 DEF Range
  <2>2. x \in Range(Append(s, x))
    <3>1. Len(s) + 1 \in 1..(Len(s) + 1)  BY <1>5
    <3>2. QED BY <3>1, <1>3, <1>4 DEF Range
  <2>3. QED BY <2>1, <2>2, <1>4 DEF Range
<1>8. QED BY <1>1, <1>6, <1>7

\* Taking the oldest element out of a queue.
LEMMA TailRange ==
  ASSUME NEW S, NEW s \in Seq(S), s # << >>
  PROVE  /\ Head(s) \in S
         /\ Tail(s) \in Seq(S)
         /\ Range(s) = {Head(s)} \cup Range(Tail(s))
<1>1. Len(s) \in Nat /\ Len(s) >= 1 /\ DOMAIN s = 1..Len(s)
  OBVIOUS
<1>2. Head(s) = s[1] /\ Head(s) \in S
  BY <1>1
<1>3. Tail(s) \in Seq(S) /\ Len(Tail(s)) = Len(s) - 1
  OBVIOUS
<1>4. \A p \in 1..(Len(s) - 1) : Tail(s)[p] = s[p + 1]
  OBVIOUS
<1>5. DOMAIN Tail(s) = 1..(Len(s) - 1)
  BY <1>3
<1>6. Range(s) \subseteq {Head(s)} \cup Range(Tail(s))
  <2>1. ASSUME NEW p \in 1..Len(s), p # 1 PROVE s[p] \in Range(Tail(s))
    <3>1. p - 1 \in 1..(Len(s) - 1) /\ (p - 1) + 1 = p  BY <1>1, <2>1
    <3>2. Tail(s)[p - 1] = s[p]  BY <3>1, <1>4
    <3>3. QED BY <3>1, <3>2, <1>5 DEF Range
  <2>2. QED BY <2>1, <1>1, <1>2 DEF Range
<1>7. {Head(s)} \cup Range(Tail(s)) \subseteq Range(s)
  <2>1. Head(s) \in Range(s)  BY <1>1, <1>2 DEF Range
  <2>2. ASSUME NEW p \in 1..(Len(s) - 1) PROVE Tail(s)[p] \in Range(s)
    <3>1. p + 1 \in 1..Len(s)  BY <1>1
    <3>2. QED BY <3>1, <1>1, <1>4 DEF Range
  <2>3. QED BY <2>1, <2>2, <1>5 DEF Range
<1>8. QED BY <1>2, <1>3, <1>6, <1>7

\* The oldest element of a queue that holds none twice is not in the rest.
LEMMA TailInjective ==
  ASSUME NEW S, NEW s \in Seq(S), s # << >>, IsInjective(s)
  PROVE  IsInjective(Tail(s)) /\ Head(s) \notin Range(Tail(s))
<1> DEFINE t == Tail(s)
           n == Len(s)
<1>1. n \in Nat /\ n >= 1 /\ DOMAIN s = 1..n /\ Head(s) = s[1]
  OBVIOUS
<1>2. DOMAIN t = 1..(n - 1) /\ \A p \in 1..(n - 1) : t[p] = s[p + 1]
  OBVIOUS
<1> HIDE DEF t, n
<1>3. \A p \in 1..(n - 1) : p + 1 \in 1..n /\ p + 1 # 1 /\ t[p] = s[p + 1]
  BY <1>1, <1>2
<1>4. \A p, q \in 1..n : s[p] = s[q] => p = q
  BY <1>1 DEF IsInjective
<1>5. ASSUME NEW p \in 1..(n - 1), NEW q \in 1..(n - 1), t[p] = t[q]
      PROVE  p = q
  <2>1. p + 1 = q + 1
    BY <1>3, <1>4, <1>5
  <2>2. QED BY <1>1, <2>1
<1>6. ASSUME NEW p \in 1..(n - 1) PROVE t[p] # s[1]
  <2>1. 1 \in 1..n
    BY <1>1
  <2>2. QED BY <1>3, <1>4, <2>1
<1>7. IsInjective(t)
  BY <1>2, <1>5 DEF IsInjective
<1>8. s[1] \notin Range(t)
  BY <1>2, <1>6 DEF Range
<1>9. QED BY <1>1, <1>7, <1>8 DEF t

\* list_add puts the new element in front.
LEMMA PrependRange ==
  ASSUME NEW S, NEW s \in Seq(S), NEW x \in S
  PROVE  /\ <<x>> \o s \in Seq(S)
         /\ <<x>> \o s # << >>
         /\ Range(<<x>> \o s) = Range(s) \cup {x}
<1>1. Len(s) \in Nat /\ DOMAIN s = 1..Len(s)
  OBVIOUS
<1>2. <<x>> \o s \in Seq(S) /\ Len(<<x>> \o s) = Len(s) + 1
  OBVIOUS
<1>3. DOMAIN (<<x>> \o s) = 1..(Len(s) + 1)
  BY <1>2
<1>4. (<<x>> \o s)[1] = x /\ \A p \in 1..Len(s) : (<<x>> \o s)[p + 1] = s[p]
  OBVIOUS
<1>5. Range(<<x>> \o s) \subseteq Range(s) \cup {x}
  <2>1. ASSUME NEW p \in 1..(Len(s) + 1), p # 1
        PROVE  (<<x>> \o s)[p] \in Range(s)
    <3>1. p - 1 \in 1..Len(s) /\ (p - 1) + 1 = p  BY <1>1, <2>1
    <3>2. (<<x>> \o s)[p] = s[p - 1]  BY <3>1, <1>4
    <3>3. QED BY <3>1, <3>2, <1>1 DEF Range
  <2>2. QED BY <2>1, <1>3, <1>4 DEF Range
<1>6. Range(s) \cup {x} \subseteq Range(<<x>> \o s)
  <2>1. x \in Range(<<x>> \o s)
    <3>1. 1 \in 1..(Len(s) + 1)  BY <1>1
    <3>2. QED BY <3>1, <1>3, <1>4 DEF Range
  <2>2. ASSUME NEW p \in 1..Len(s) PROVE s[p] \in Range(<<x>> \o s)
    <3>1. p + 1 \in 1..(Len(s) + 1)  BY <1>1
    <3>2. QED BY <3>1, <1>3, <1>4 DEF Range
  <2>3. QED BY <2>1, <2>2, <1>1 DEF Range
<1>7. <<x>> \o s # << >>
  BY <1>1, <1>2
<1>8. QED BY <1>2, <1>5, <1>6, <1>7

\* The same for lists that hold no element twice.
LEMMA PrependInjective ==
  ASSUME NEW S, NEW s \in Seq(S), NEW x \in S, IsInjective(s), x \notin Range(s)
  PROVE  IsInjective(<<x>> \o s)
<1> DEFINE t == <<x>> \o s
<1>1. Len(s) \in Nat /\ DOMAIN s = 1..Len(s) /\ DOMAIN t = 1..(Len(s) + 1)
  OBVIOUS
<1>2. t[1] = x /\ \A p \in 1..Len(s) : t[p + 1] = s[p]
  OBVIOUS
<1> HIDE DEF t
<1>3. \A p \in 1..(Len(s) + 1) : p # 1 => p - 1 \in 1..Len(s) /\ t[p] = s[p - 1]
  <2>1. ASSUME NEW p \in 1..(Len(s) + 1), p # 1
        PROVE  p - 1 \in 1..Len(s) /\ (p - 1) + 1 = p
    BY <2>1, <1>1
  <2>2. QED BY <2>1, <1>2
<1>4. \A p \in 1..(Len(s) + 1) : p # 1 => t[p] # x
  BY <1>1, <1>3 DEF Range
<1>5. ASSUME NEW p \in 1..(Len(s) + 1), NEW q \in 1..(Len(s) + 1), t[p] = t[q]
      PROVE  p = q
  <2>1. CASE p = 1 \/ q = 1
    BY <2>1, <1>5, <1>2, <1>4
  <2>2. CASE p # 1 /\ q # 1
    <3>1. s[p - 1] = s[q - 1] /\ p - 1 \in DOMAIN s /\ q - 1 \in DOMAIN s
      BY <2>2, <1>5, <1>3, <1>1
    <3>2. p - 1 = q - 1
      BY <3>1 DEF IsInjective
    <3>3. QED BY <3>2
  <2>3. QED BY <2>1, <2>2
<1>6. QED BY <1>1, <1>5 DEF IsInjective, t

\* A concatenation without repetition.
LEMMA ConcatInjective ==
  ASSUME NEW S, NEW s \in Seq(S), NEW t \in Seq(S), IsInjective(s), IsInjective(t),
         Range(s) \cap Range(t) = {}
  PROVE  IsInjective(s \o t)
<1> DEFINE u == s \o t
           m == Len(s)
           n == Len(t)
<1>1. m \in Nat /\ n \in Nat /\ DOMAIN s = 1..m /\ DOMAIN t = 1..n
  BY LenProperties
<1>2. /\ u \in Seq(S) /\ Len(u) = m + n
      /\ \A i \in 1..(m + n) : u[i] = IF i <= m THEN s[i] ELSE t[i - m]
  BY ConcatProperties
<1>3. \A i \in 1..m, j \in 1..n : s[i] # t[j]
  BY <1>1 DEF Range
<1>4. /\ \A i, j \in 1..m : s[i] = s[j] => i = j
      /\ \A i, j \in 1..n : t[i] = t[j] => i = j
  BY <1>1 DEF IsInjective
<1>5. DOMAIN u = 1..(m + n)
  BY <1>2, LenProperties
<1> HIDE DEF u, m, n
<1>6. ASSUME NEW i \in 1..(m + n), NEW j \in 1..(m + n), u[i] = u[j]
      PROVE  i = j
  <2>1. \A k \in 1..(m + n) : k <= m => k \in 1..m /\ u[k] = s[k]
    BY <1>1, <1>2
  <2>2. \A k \in 1..(m + n) : ~(k <= m) => k - m \in 1..n /\ u[k] = t[k - m]
    BY <1>1, <1>2
  <2>3. CASE i <= m /\ j <= m
    BY <1>4, <1>6, <2>1, <2>3
  <2>4. CASE ~(i <= m) /\ ~(j <= m)
    <3>1. i - m = j - m
      BY <1>4, <1>6, <2>2, <2>4
    <3>2. QED BY <1>1, <3>1
  <2>5. CASE i <= m /\ ~(j <= m)
    BY <1>3, <1>6, <2>1, <2>2, <2>5
  <2>6. CASE ~(i <= m) /\ j <= m
    BY <1>3, <1>6, <2>1, <2>2, <2>6
  <2>7. QED BY <2>3, <2>4, <2>5, <2>6
<1>7. QED BY <1>5, <1>6 DEF IsInjective, u

\* The places of a sequence that gets an element in front.
LEMMA PrependAt ==
  ASSUME NEW S, NEW s \in Seq(S), NEW x \in S
  PROVE  /\ Len(s) \in Nat /\ Len(<<x>> \o s) = Len(s) + 1
         /\ DOMAIN s = 1..Len(s) /\ DOMAIN (<<x>> \o s) = 1..(Len(s) + 1)
         /\ (<<x>> \o s)[1] = x
         /\ \A p \in 2..(Len(s) + 1) : (<<x>> \o s)[p] = s[p - 1]
<1>1. Len(s) \in Nat /\ DOMAIN s = 1..Len(s)
  OBVIOUS
<1>2. Len(<<x>> \o s) = Len(s) + 1 /\ DOMAIN (<<x>> \o s) = 1..(Len(s) + 1)
  OBVIOUS
<1>3. (<<x>> \o s)[1] = x
  OBVIOUS
<1>4. \A p \in 2..(Len(s) + 1) : (<<x>> \o s)[p] = s[p - 1]
  OBVIOUS
<1>5. QED BY <1>1, <1>2, <1>3, <1>4

\* r is s without its element at m.
WithoutAt(r, s, m) ==
  \A k \in 1..(Len(s) - 1) : r[k] = IF k < m THEN s[k] ELSE s[k + 1]

\* The sequence without its element at m.
LEMMA RemoveAtPlace ==
  ASSUME NEW S, NEW s \in Seq(S), NEW m \in 1..Len(s)
  PROVE  /\ RemoveAt(s, m) \in Seq(S) /\ Len(RemoveAt(s, m)) = Len(s) - 1
         /\ WithoutAt(RemoveAt(s, m), s, m)
<1> DEFINE r == RemoveAt(s, m)
           a == SubSeq(s, 1, m - 1)
           b == SubSeq(s, m + 1, Len(s))
<1>1. Len(s) \in Nat /\ m \in 1..Len(s) /\ \A i \in 1..Len(s) : s[i] \in S
  BY ElementOfSeq
<1>2. a \in Seq(S) /\ Len(a) = m - 1 /\ \A k \in 1..(m - 1) : a[k] = s[k]
  BY <1>1
<1>3. b \in Seq(S) /\ Len(b) = Len(s) - m /\ \A k \in 1..(Len(s) - m) : b[k] = s[m + k]
  BY <1>1
<1>4. r = a \o b
  BY DEF RemoveAt
<1> HIDE DEF a, b, r
<1>5. /\ r \in Seq(S) /\ Len(r) = Len(a) + Len(b)
      /\ \A k \in 1..(Len(a) + Len(b)) : r[k] = IF k <= Len(a) THEN a[k] ELSE b[k - Len(a)]
  BY <1>2, <1>3, <1>4, ConcatProperties
<1>6. Len(r) = Len(s) - 1
  BY <1>1, <1>2, <1>3, <1>5
<1>7. ASSUME NEW k \in 1..(Len(s) - 1) PROVE r[k] = IF k < m THEN s[k] ELSE s[k + 1]
  <2>1. r[k] = IF k <= m - 1 THEN a[k] ELSE b[k - (m - 1)]
    BY <1>1, <1>2, <1>3, <1>5
  <2>2. CASE k < m
    <3>1. k \in 1..(m - 1) /\ k <= m - 1  BY <2>2, <1>1
    <3>2. QED BY <2>1, <2>2, <3>1, <1>2
  <2>3. CASE ~(k < m)
    <3>1. k - (m - 1) \in 1..(Len(s) - m) /\ m + (k - (m - 1)) = k + 1 /\ ~(k <= m - 1)
      BY <2>3, <1>1
    <3>2. QED BY <2>1, <2>3, <3>1, <1>3
  <2>4. QED BY <2>2, <2>3
<1>8. WithoutAt(r, s, m)
  BY <1>7 DEF WithoutAt
<1>9. QED BY <1>5, <1>6, <1>8 DEF r

\* RemoveFirst takes out the element at one place, and keeps the others in order.
LEMMA RemoveFirstAt ==
  ASSUME NEW S, NEW s \in Seq(S), NEW x, \E i \in 1..Len(s) : s[i] = x
  PROVE  /\ RemoveFirst(s, x) \in Seq(S) /\ Len(RemoveFirst(s, x)) = Len(s) - 1
         /\ \E m \in 1..Len(s) : s[m] = x /\ WithoutAt(RemoveFirst(s, x), s, m)
<1> DEFINE I == {i \in 1..Len(s) : s[i] = x}
           m == Min(I)
<1>1. I \in SUBSET Nat /\ I # {}
  OBVIOUS
<1>2. m \in I
  <2> HIDE DEF I
  <2>1. QED BY <1>1, MinIsLeast
<1>3. RemoveFirst(s, x) = RemoveAt(s, m)
  BY <1>1 DEF RemoveFirst, SelectInSeq
<1>4. m \in 1..Len(s) /\ s[m] = x
  BY <1>2
<1> HIDE DEF m, I
<1>5. QED BY <1>3, <1>4, RemoveAtPlace

\* list_del takes out one element of a list that holds it once.
LEMMA RemoveFirstRange ==
  ASSUME NEW S, NEW s \in Seq(S), NEW x, IsInjective(s)
  PROVE  /\ RemoveFirst(s, x) \in Seq(S)
         /\ Range(RemoveFirst(s, x)) = Range(s) \ {x}
         /\ IsInjective(RemoveFirst(s, x))
<1>1. CASE ~\E i \in 1..Len(s) : s[i] = x
  BY <1>1 DEF RemoveFirst, Range
<1>2. CASE \E i \in 1..Len(s) : s[i] = x
  <2> DEFINE r == RemoveFirst(s, x)
  <2>1. r \in Seq(S) /\ Len(r) = Len(s) - 1 /\ \E m \in 1..Len(s) : s[m] = x /\ WithoutAt(r, s, m)
    BY <1>2, RemoveFirstAt
  <2> HIDE DEF r
  <2>2. PICK m \in 1..Len(s) : s[m] = x /\ WithoutAt(r, s, m)
    BY <2>1
  <2>3. m \in 1..Len(s) /\ s[m] = x
    BY <2>2
  <2>4. /\ r \in Seq(S) /\ Len(r) = Len(s) - 1 /\ Len(s) \in Nat
        /\ \A k \in 1..(Len(s) - 1) : r[k] = IF k < m THEN s[k] ELSE s[k + 1]
    BY <2>1, <2>2 DEF WithoutAt
  <2>5. DOMAIN r = 1..(Len(s) - 1) /\ DOMAIN s = 1..Len(s)
    BY <2>4
  <2>6. IsInjective(r)
    <3>1. ASSUME NEW j \in 1..(Len(s) - 1), NEW k \in 1..(Len(s) - 1), r[j] = r[k]
          PROVE  j = k
      <4>1. \A p, q \in 1..Len(s) : s[p] = s[q] => p = q
        BY <2>5 DEF IsInjective
      <4>2. j \in 1..Len(s) /\ j + 1 \in 1..Len(s) /\ k \in 1..Len(s) /\ k + 1 \in 1..Len(s)
        BY <2>4
      <4>3. QED BY <3>1, <4>1, <4>2, <2>3, <2>4
    <3>2. QED BY <3>1, <2>5 DEF IsInjective
  <2>7. Range(r) \subseteq Range(s) \ {x}
    <3>1. ASSUME NEW k \in 1..(Len(s) - 1) PROVE r[k] \in Range(s) /\ r[k] # x
      <4>1. PICK p \in 1..Len(s) : p # m /\ r[k] = s[p]
        <5>1. CASE k < m
          <6>1. k \in 1..Len(s) /\ k # m /\ r[k] = s[k]  BY <5>1, <2>3, <2>4
          <6>2. QED BY <6>1
        <5>2. CASE ~(k < m)
          <6>1. k + 1 \in 1..Len(s) /\ k + 1 # m /\ r[k] = s[k + 1]  BY <5>2, <2>3, <2>4
          <6>2. QED BY <6>1
        <5>3. QED BY <5>1, <5>2
      <4>2. QED BY <4>1, <2>3, <2>5 DEF IsInjective, Range
    <3>2. QED BY <3>1, <2>5 DEF Range
  <2>8. Range(s) \ {x} \subseteq Range(r)
    <3>1. ASSUME NEW p \in 1..Len(s), s[p] # x PROVE \E k \in 1..(Len(s) - 1) : r[k] = s[p]
      <4>1. CASE p < m
        <5>1. p \in 1..(Len(s) - 1) /\ r[p] = s[p]  BY <4>1, <2>3, <2>4
        <5>2. QED BY <5>1
      <4>2. CASE ~(p < m)
        <5>1. p # m  BY <3>1, <2>3
        <5>2. p - 1 \in 1..(Len(s) - 1) /\ ~(p - 1 < m) /\ (p - 1) + 1 = p
          BY <4>2, <5>1, <2>3, <2>4
        <5>3. r[p - 1] = s[p]  BY <5>2, <2>4
        <5>4. QED BY <5>2, <5>3
      <4>3. QED BY <4>1, <4>2
    <3>2. QED BY <3>1, <2>5 DEF Range
  <2>9. QED BY <2>4, <2>6, <2>7, <2>8 DEF r
<1>3. QED BY <1>1, <1>2

\* The oldest element of a list that grows in front is its last.
LEMMA FrontLast ==
  ASSUME NEW S, NEW s \in Seq(S), s # << >>
  PROVE  /\ Front(s) \in Seq(S) /\ Last(s) \in S
         /\ Len(s) \in Nat /\ Len(s) >= 1 /\ Len(Front(s)) = Len(s) - 1
         /\ \A k \in 1..(Len(s) - 1) : Front(s)[k] = s[k]
         /\ s = Append(Front(s), Last(s))
<1>1. Len(s) \in Nat /\ Len(s) >= 1
  OBVIOUS
<1>2. /\ Front(s) \in Seq(S) /\ Len(Front(s)) = Len(s) - 1
      /\ \A k \in 1..(Len(s) - 1) : Front(s)[k] = s[k]
  <2> DEFINE n == Len(s) - 1
  <2>1. n \in Nat /\ \A i \in 1..n : s[i] \in S
    BY <1>1, ElementOfSeq
  <2> HIDE DEF n
  <2>2. /\ SubSeq(s, 1, n) \in Seq(S)
        /\ Len(SubSeq(s, 1, n)) = IF 1 <= n THEN n - 1 + 1 ELSE 0
        /\ \A i \in 1..(n - 1 + 1) : SubSeq(s, 1, n)[i] = s[1 + i - 1]
    BY <2>1, SubSeqProperties
  <2>3. SubSeq(s, 1, n) \in Seq(S) /\ Len(SubSeq(s, 1, n)) = n
    BY <2>1, <2>2
  <2>4. \A i \in 1..n : SubSeq(s, 1, n)[i] = s[i]
    BY <2>1, <2>2
  <2>5. QED BY <2>3, <2>4 DEF Front, n
<1>3. Last(s) \in S
  BY <1>1 DEF Last
<1>4. s = Append(Front(s), Last(s))
  <2> DEFINE f == Front(s)
             l == Last(s)
             t == Append(f, l)
  <2>1. f \in Seq(S) /\ Len(f) = Len(s) - 1 /\ l \in S /\ l = s[Len(s)]
    BY <1>2, <1>3 DEF Last
  <2> HIDE DEF f, l
  <2>2. /\ t \in Seq(S) /\ Len(t) = Len(f) + 1
        /\ \A k \in 1..Len(f) : t[k] = f[k]
        /\ t[Len(f) + 1] = l
    BY <2>1, AppendProperties
  <2> HIDE DEF t
  <2>3. Len(t) = Len(s) /\ t[Len(s)] = s[Len(s)]
    BY <1>1, <2>1, <2>2
  <2>4. ASSUME NEW k \in 1..Len(s) PROVE t[k] = s[k]
    <3>1. CASE k = Len(s)
      BY <3>1, <2>3
    <3>2. CASE k # Len(s)
      <4>1. k \in 1..(Len(s) - 1)  BY <3>2, <1>1
      <4>2. f[k] = s[k]  BY <4>1, <1>2 DEF f
      <4>3. QED BY <4>1, <4>2, <2>1, <2>2
    <3>3. QED BY <3>1, <3>2
  <2>5. s = t
    BY <2>2, <2>3, <2>4, SeqEqual
  <2>6. QED BY <2>5 DEF t, f, l
<1>5. QED BY <1>1, <1>2, <1>3, <1>4

\* The oldest element first, once an element was added in front.
LEMMA ReversePrepend ==
  ASSUME NEW S, NEW s \in Seq(S), NEW x \in S
  PROVE  /\ Reverse(s) \in Seq(S) /\ Len(Reverse(s)) = Len(s)
         /\ Reverse(<<x>> \o s) = Append(Reverse(s), x)
         /\ Reverse(Append(s, x)) = <<x>> \o Reverse(s)
<1>1. Len(s) \in Nat
  OBVIOUS
<1>2. Reverse(s) \in Seq(S) /\ Len(Reverse(s)) = Len(s)
  BY <1>1 DEF Reverse
<1>3. Reverse(<<x>> \o s) = Append(Reverse(s), x)
  <2> DEFINE p == <<x>> \o s
             a == Reverse(p)
             r == Reverse(s)
             b == Append(r, x)
  <2>1. p \in Seq(S) /\ Len(p) = Len(s) + 1 /\ p[1] = x /\ \A k \in 1..Len(s) : p[k + 1] = s[k]
    OBVIOUS
  <2>2. r \in Seq(S) /\ Len(r) = Len(s) /\ \A k \in 1..Len(s) : r[k] = s[(Len(s) - k) + 1]
    BY <1>2 DEF Reverse
  <2> HIDE DEF p, r
  <2>3. a \in Seq(S) /\ Len(a) = Len(s) + 1
        /\ \A k \in 1..(Len(s) + 1) : a[k] = p[(Len(p) - k) + 1]
    BY <2>1, <1>1 DEF Reverse
  <2>4. b \in Seq(S) /\ Len(b) = Len(s) + 1 /\ b[Len(s) + 1] = x
        /\ \A k \in 1..Len(s) : b[k] = r[k]
    BY <2>2, AppendProperties
  <2> HIDE DEF a, b
  <2>5. ASSUME NEW k \in 1..(Len(s) + 1) PROVE a[k] = b[k]
    <3>1. a[k] = p[(Len(s) + 1 - k) + 1]
      BY <2>1, <2>3
    <3>2. CASE k = Len(s) + 1
      BY <3>1, <3>2, <1>1, <2>1, <2>4
    <3>3. CASE k # Len(s) + 1
      <4>1. /\ k \in 1..Len(s) /\ (Len(s) - k) + 1 \in 1..Len(s)
            /\ (Len(s) + 1 - k) + 1 = ((Len(s) - k) + 1) + 1
        BY <3>3, <1>1
      <4>2. a[k] = s[(Len(s) - k) + 1]
        BY <4>1, <3>1, <2>1
      <4>3. b[k] = s[(Len(s) - k) + 1]
        BY <4>1, <2>2, <2>4
      <4>4. QED BY <4>2, <4>3
    <3>4. QED BY <3>2, <3>3
  <2>6. a = b
    BY <2>3, <2>4, <2>5, SeqEqual
  <2>7. QED BY <2>6 DEF a, b, p, r
<1>4. Reverse(Append(s, x)) = <<x>> \o Reverse(s)
  <2> DEFINE p == Append(s, x)
             a == Reverse(p)
             r == Reverse(s)
             b == <<x>> \o r
  <2>1. p \in Seq(S) /\ Len(p) = Len(s) + 1 /\ p[Len(s) + 1] = x
        /\ \A k \in 1..Len(s) : p[k] = s[k]
    BY AppendProperties
  <2>2. r \in Seq(S) /\ Len(r) = Len(s) /\ \A k \in 1..Len(s) : r[k] = s[(Len(s) - k) + 1]
    BY <1>2 DEF Reverse
  <2> HIDE DEF p, r
  <2>3. a \in Seq(S) /\ Len(a) = Len(s) + 1
        /\ \A k \in 1..(Len(s) + 1) : a[k] = p[(Len(p) - k) + 1]
    BY <2>1, <1>1 DEF Reverse
  <2>4. b \in Seq(S) /\ Len(b) = Len(s) + 1 /\ b[1] = x
        /\ \A k \in 1..Len(s) : b[k + 1] = r[k]
    BY <2>2, <1>1
  <2> HIDE DEF a, b
  <2>5. ASSUME NEW k \in 1..(Len(s) + 1) PROVE a[k] = b[k]
    <3>1. a[k] = p[(Len(s) + 1 - k) + 1]
      BY <2>1, <2>3
    <3>2. CASE k = 1
      BY <3>1, <3>2, <1>1, <2>1, <2>4
    <3>3. CASE k # 1
      <4>1. /\ k - 1 \in 1..Len(s) /\ (k - 1) + 1 = k /\ (Len(s) - (k - 1)) + 1 \in 1..Len(s)
            /\ (Len(s) + 1 - k) + 1 = (Len(s) - (k - 1)) + 1
        BY <3>3, <1>1
      <4>2. a[k] = s[(Len(s) - (k - 1)) + 1]
        BY <4>1, <3>1, <2>1
      <4>3. b[k] = s[(Len(s) - (k - 1)) + 1]
        <5>1. b[(k - 1) + 1] = r[k - 1]
          BY <4>1, <2>4
        <5>2. QED BY <5>1, <4>1, <2>2
      <4>4. QED BY <4>2, <4>3
    <3>4. QED BY <3>2, <3>3
  <2>6. a = b
    BY <2>3, <2>4, <2>5, SeqEqual
  <2>7. QED BY <2>6 DEF a, b, p, r
<1>5. QED BY <1>2, <1>3, <1>4

-----------------------------------------------------------------------------
(* FlattenSeq, which SequencesExt defines by recursion. *)

\* f holds what the first i elements of ss are together.
Concatenates(f, ss) ==
  f[1] = ss[1] /\ \A i \in 2..Len(ss) : f[i] = f[i - 1] \o ss[i]

\* The definition, without its LET.
LEMMA FlattenExpand ==
  ASSUME NEW ss, Len(ss) # 0
  PROVE  FlattenSeq(ss) =
           (CHOOSE g : g = [i \in 1..Len(ss) |->
                              IF i = 1 THEN ss[i] ELSE g[i - 1] \o ss[i]])[Len(ss)]
BY DEF FlattenSeq

\* The recursive function in FlattenSeq exists, and has these values.
LEMMA FlattenDef ==
  ASSUME NEW S, NEW ss \in Seq(Seq(S)), ss # << >>
  PROVE  \E f \in [1..Len(ss) -> Seq(S)] :
           Concatenates(f, ss) /\ FlattenSeq(ss) = f[Len(ss)]
<1> DEFINE N == Len(ss)
           Upto(f, n) == f[1] = ss[1] /\ \A i \in 2..n : f[i] = f[i - 1] \o ss[i]
           Exists(n) == \E f \in [1..n -> Seq(S)] : Upto(f, n)
<1>1. N \in Nat /\ N >= 1 /\ \A i \in 1..N : ss[i] \in Seq(S)
  BY EmptySeq, ElementOfSeq
<1> HIDE DEF N
<1>2. \A n \in 1..N : Exists(n)
  <2> DEFINE T == {n \in 1..N : ~Exists(n)}
  <2> HIDE DEF Exists
  <2>1. SUFFICES ASSUME T # {} PROVE FALSE
    OBVIOUS
  <2>2. PICK n \in T : \A k \in T : n <= k
    <3>1. T \in SUBSET Nat
      BY <1>1
    <3> HIDE DEF T
    <3>2. QED BY <2>1, <3>1, LeastNat
  <2>3. n \in 1..N
    OBVIOUS
  <2>4. CASE n = 1
    <3> DEFINE f == [i \in 1..n |-> ss[1]]
    <3>1. f \in [1..n -> Seq(S)] /\ Upto(f, n)
      BY <1>1, <2>4
    <3>2. QED BY <3>1 DEF Exists
  <2>5. CASE n # 1
    <3>1. n - 1 \in 1..N /\ n - 1 < n
      BY <2>3, <2>5, <1>1
    <3>2. n - 1 \notin T
      BY <2>2, <3>1, <2>3
    <3>3. PICK g \in [1..(n - 1) -> Seq(S)] : Upto(g, n - 1)
      BY <3>1, <3>2 DEF Exists
    <3> DEFINE f == [i \in 1..n |-> IF i = n THEN g[n - 1] \o ss[n] ELSE g[i]]
    <3>4. f \in [1..n -> Seq(S)]
      <4>1. g[n - 1] \o ss[n] \in Seq(S)
        BY <1>1, <2>3, <3>1, <3>3, ConcatProperties
      <4>2. \A i \in 1..n : i # n => g[i] \in Seq(S)
        BY <2>3, <3>3
      <4>3. QED BY <4>1, <4>2
    <3>5. f[1] = ss[1]
      BY <2>3, <2>5, <3>1, <3>3
    <3>6. ASSUME NEW i \in 2..n PROVE f[i] = f[i - 1] \o ss[i]
      <4>1. i \in 1..n /\ i - 1 \in 1..n /\ i - 1 # n
        BY <2>3
      <4>2. f[i - 1] = g[i - 1]
        BY <4>1
      <4>3. CASE i = n
        BY <4>1, <4>2, <4>3
      <4>4. CASE i # n
        <5>1. i \in 2..(n - 1)  BY <4>4, <2>3
        <5>2. QED BY <4>1, <4>2, <4>4, <5>1, <3>3
      <4>5. QED BY <4>3, <4>4
    <3>7. Upto(f, n)
      BY <3>5, <3>6
    <3> HIDE DEF f
    <3>8. QED BY <3>4, <3>7 DEF Exists
  <2>6. QED BY <2>4, <2>5
<1>3. PICK f \in [1..N -> Seq(S)] : Upto(f, N)
  <2> HIDE DEF Exists
  <2>1. Exists(N)
    BY <1>1, <1>2
  <2>2. QED BY <2>1 DEF Exists
<1> DEFINE Rec(g) == g = [i \in 1..N |-> IF i = 1 THEN ss[i] ELSE g[i - 1] \o ss[i]]
           h == CHOOSE g : Rec(g)
<1>4. Rec(f)
  <2>1. ASSUME NEW i \in 1..N PROVE f[i] = IF i = 1 THEN ss[i] ELSE f[i - 1] \o ss[i]
    <3>1. CASE i = 1
      BY <3>1, <1>3
    <3>2. CASE i # 1
      <4>1. i \in 2..N  BY <3>2, <1>1
      <4>2. QED BY <3>2, <4>1, <1>3
    <3>3. QED BY <3>1, <3>2
  <2>2. QED BY <2>1
<1>5. Rec(h)
  BY <1>4
<1>6. FlattenSeq(ss) = h[N]
  <2>1. Len(ss) # 0
    BY <1>1 DEF N
  <2>2. QED BY <2>1, FlattenExpand, Zenon DEF N
<1> HIDE DEF h
<1>7. \A i \in 1..N : h[i] = f[i]
  <2> DEFINE T == {i \in 1..N : h[i] # f[i]}
  <2>1. SUFFICES ASSUME T # {} PROVE FALSE
    OBVIOUS
  <2>2. PICK i \in T : \A k \in T : i <= k
    <3>1. T \in SUBSET Nat
      BY <1>1
    <3> HIDE DEF T
    <3>2. QED BY <2>1, <3>1, LeastNat
  <2>3. CASE i = 1
    BY <2>3, <1>3, <1>5, <1>1
  <2>4. CASE i # 1
    <3>1. i \in 2..N /\ i - 1 \in 1..N /\ i - 1 < i
      BY <2>4, <1>1
    <3>2. h[i - 1] = f[i - 1]
      BY <3>1, <2>2
    <3>3. h[i] = h[i - 1] \o ss[i]
      BY <3>1, <2>4, <1>5
    <3>4. f[i] = f[i - 1] \o ss[i]
      BY <3>1, <1>3
    <3>5. QED BY <3>2, <3>3, <3>4
  <2>5. QED BY <2>3, <2>4
<1>8. Concatenates(f, ss) /\ FlattenSeq(ss) = f[N]
  <2>1. Concatenates(f, ss)
    BY <1>3, Zenon DEF Concatenates, N
  <2>2. N \in 1..N
    BY <1>1
  <2>3. QED BY <2>1, <2>2, <1>6, <1>7
<1>9. QED BY <1>3, <1>8 DEF N

\* What FlattenSeq gives is a sequence of the same elements.
LEMMA FlattenType ==
  ASSUME NEW S, NEW ss \in Seq(Seq(S))
  PROVE  FlattenSeq(ss) \in Seq(S)
<1>1. CASE ss = << >>
  BY <1>1 DEF FlattenSeq
<1>2. CASE ss # << >>
  <2>1. Len(ss) \in 1..Len(ss)
    BY <1>2, EmptySeq
  <2>2. PICK f \in [1..Len(ss) -> Seq(S)] : FlattenSeq(ss) = f[Len(ss)]
    BY <1>2, FlattenDef
  <2>3. QED BY <2>1, <2>2
<1>3. QED BY <1>1, <1>2

\* A sequence more at the end.
LEMMA FlattenAppend ==
  ASSUME NEW S, NEW ss \in Seq(Seq(S)), NEW x \in Seq(S)
  PROVE  FlattenSeq(Append(ss, x)) = FlattenSeq(ss) \o x
<1> DEFINE tt == Append(ss, x)
           n == Len(ss)
<1>1. /\ tt \in Seq(Seq(S)) /\ tt # << >> /\ Len(tt) = n + 1
      /\ \A i \in 1..n : tt[i] = ss[i]
      /\ tt[n + 1] = x
  BY AppendProperties
<1>2. n \in Nat
  OBVIOUS
<1> HIDE DEF tt
<1>3. PICK g \in [1..(n + 1) -> Seq(S)] : Concatenates(g, tt) /\ FlattenSeq(tt) = g[n + 1]
  BY <1>1, FlattenDef
<1>4. CASE ss = << >>
  <2>1. n = 0 /\ FlattenSeq(ss) = << >>
    BY <1>4 DEF FlattenSeq
  <2>2. FlattenSeq(tt) = x
    BY <2>1, <1>1, <1>3 DEF Concatenates
  <2>3. << >> \o x = x
    BY ConcatEmptySeq
  <2>4. QED BY <2>1, <2>2, <2>3 DEF tt
<1>5. CASE ss # << >>
  <2>1. n >= 1
    BY <1>5, EmptySeq
  <2>2. PICK f \in [1..n -> Seq(S)] : Concatenates(f, ss) /\ FlattenSeq(ss) = f[n]
    BY <1>5, FlattenDef
  <2> HIDE DEF n
  <2>3. /\ f[1] = ss[1] /\ \A i \in 2..n : f[i] = f[i - 1] \o ss[i]
        /\ g[1] = tt[1] /\ \A i \in 2..(n + 1) : g[i] = g[i - 1] \o tt[i]
    BY <2>2, <1>3, <1>1 DEF Concatenates, n
  <2>4. \A i \in 1..n : g[i] = f[i]
    <3> DEFINE T == {i \in 1..n : g[i] # f[i]}
    <3>1. SUFFICES ASSUME T # {} PROVE FALSE
      OBVIOUS
    <3>2. PICK i \in T : \A k \in T : i <= k
      <4>1. T \in SUBSET Nat
        BY <1>2
      <4> HIDE DEF T
      <4>2. QED BY <3>1, <4>1, LeastNat
    <3>3. CASE i = 1
      BY <3>3, <2>3, <1>1, <2>1, <1>2
    <3>4. CASE i # 1
      <4>1. i \in 2..n /\ i \in 2..(n + 1) /\ i \in 1..n /\ i - 1 \in 1..n /\ i - 1 < i
        BY <3>4, <1>2
      <4>2. g[i - 1] = f[i - 1]
        BY <4>1, <3>2
      <4>3. QED BY <4>1, <4>2, <2>3, <1>1
    <3>5. QED BY <3>3, <3>4
  <2>5. g[n + 1] = g[(n + 1) - 1] \o tt[n + 1]
    <3>1. n + 1 \in 2..(n + 1)
      BY <2>1, <1>2
    <3>2. QED BY <3>1, <2>3
  <2>6. (n + 1) - 1 = n /\ n \in 1..n
    BY <2>1, <1>2
  <2>7. g[n + 1] = f[n] \o x
    BY <2>4, <2>5, <2>6, <1>1
  <2>8. QED BY <2>2, <2>7, <1>3 DEF tt
<1>6. QED BY <1>4, <1>5

\* A sequence more in front.
LEMMA FlattenPrepend ==
  ASSUME NEW S, NEW ss \in Seq(Seq(S)), NEW x \in Seq(S)
  PROVE  FlattenSeq(<<x>> \o ss) = x \o FlattenSeq(ss)
<1>0. \A u, v \in Seq(S) : (x \o u) \o v = x \o (u \o v)
  BY ConcatAssociative
<1> DEFINE tt == <<x>> \o ss
           n == Len(ss)
<1>1. /\ tt \in Seq(Seq(S)) /\ Len(tt) = n + 1
      /\ \A i \in 1..n : tt[i + 1] = ss[i]
      /\ tt[1] = x
  OBVIOUS
<1>2. n \in Nat /\ tt # << >> /\ \A i \in 1..n : ss[i] \in Seq(S)
  BY <1>1, ElementOfSeq
<1> HIDE DEF tt
<1>3. PICK g \in [1..(n + 1) -> Seq(S)] : Concatenates(g, tt) /\ FlattenSeq(tt) = g[n + 1]
  BY <1>1, <1>2, FlattenDef
<1>4. CASE ss = << >>
  <2>1. n = 0 /\ FlattenSeq(ss) = << >>
    BY <1>4 DEF FlattenSeq
  <2>2. FlattenSeq(tt) = x
    BY <2>1, <1>1, <1>3 DEF Concatenates
  <2>3. x \o << >> = x
    BY ConcatEmptySeq
  <2>4. QED BY <2>1, <2>2, <2>3 DEF tt
<1>5. CASE ss # << >>
  <2>1. n >= 1
    BY <1>5, EmptySeq
  <2>2. PICK f \in [1..n -> Seq(S)] : Concatenates(f, ss) /\ FlattenSeq(ss) = f[n]
    BY <1>5, FlattenDef
  <2> HIDE DEF n
  <2>3. /\ f[1] = ss[1] /\ \A i \in 2..n : f[i] = f[i - 1] \o ss[i]
        /\ g[1] = x /\ \A i \in 2..(n + 1) : g[i] = g[i - 1] \o tt[i]
    BY <2>2, <1>3, <1>1 DEF Concatenates, n
  <2>4. \A i \in 1..n : g[i + 1] = x \o f[i]
    <3> DEFINE T == {i \in 1..n : g[i + 1] # x \o f[i]}
    <3>1. SUFFICES ASSUME T # {} PROVE FALSE
      OBVIOUS
    <3>2. PICK i \in T : \A k \in T : i <= k
      <4>1. T \in SUBSET Nat
        BY <1>2
      <4> HIDE DEF T
      <4>2. QED BY <3>1, <4>1, LeastNat
    <3>3. i \in 1..n /\ i + 1 \in 2..(n + 1) /\ (i + 1) - 1 = i
      BY <1>2
    <3>4. g[i + 1] = g[i] \o ss[i]
      BY <3>3, <2>3, <1>1
    <3>5. CASE i = 1
      BY <3>3, <3>4, <3>5, <2>3
    <3>6. CASE i # 1
      <4>1. i \in 2..n /\ i - 1 \in 1..n /\ i - 1 < i /\ (i - 1) + 1 = i
        BY <3>6, <3>3, <1>2
      <4>2. g[i] = x \o f[i - 1]
        BY <4>1, <3>2
      <4>3. f[i - 1] \in Seq(S) /\ ss[i] \in Seq(S)
        BY <4>1, <3>3, <1>2, <2>2
      <4>4. (x \o f[i - 1]) \o ss[i] = x \o (f[i - 1] \o ss[i])
        BY <4>3, <1>0
      <4>5. f[i] = f[i - 1] \o ss[i]
        BY <4>1, <2>3
      <4>6. QED BY <3>4, <4>2, <4>4, <4>5
    <3>7. QED BY <3>5, <3>6
  <2>5. n \in 1..n
    BY <2>1, <1>2
  <2>6. g[n + 1] = x \o f[n]
    BY <2>4, <2>5
  <2>7. QED BY <2>2, <2>6, <1>3 DEF tt
<1>6. QED BY <1>4, <1>5

\* The same for a sequence that is known to have one more element, at its end.
LEMMA FlattenLonger ==
  ASSUME NEW S, NEW ss \in Seq(Seq(S)), NEW tt \in Seq(Seq(S)), Len(tt) = Len(ss) + 1,
         \A i \in 1..Len(ss) : tt[i] = ss[i]
  PROVE  FlattenSeq(tt) = FlattenSeq(ss) \o tt[Len(ss) + 1]
<1> DEFINE n == Len(ss)
           x == tt[n + 1]
<1>1. n \in Nat /\ x \in Seq(S)
  BY LenProperties, ElementOfSeq
<1> HIDE DEF x
<1>2. /\ Append(ss, x) \in Seq(Seq(S)) /\ Len(Append(ss, x)) = n + 1
      /\ Append(ss, x)[n + 1] = x /\ \A i \in 1..n : Append(ss, x)[i] = ss[i]
  BY <1>1, AppendProperties
<1>3. \A i \in 1..(n + 1) : Append(ss, x)[i] = tt[i]
  BY <1>1, <1>2 DEF x
<1>4. Append(ss, x) = tt
  BY <1>2, <1>3, SeqEqual
<1>5. FlattenSeq(Append(ss, x)) = FlattenSeq(ss) \o x
  BY <1>1, FlattenAppend
<1>6. QED BY <1>4, <1>5 DEF x

\* The same for one more element in front.
LEMMA FlattenLongerInFront ==
  ASSUME NEW S, NEW ss \in Seq(Seq(S)), NEW tt \in Seq(Seq(S)), Len(tt) = Len(ss) + 1,
         \A i \in 1..Len(ss) : tt[i + 1] = ss[i]
  PROVE  FlattenSeq(tt) = tt[1] \o FlattenSeq(ss)
<1> DEFINE n == Len(ss)
           x == tt[1]
           uu == <<x>> \o ss
<1>1. n \in Nat /\ x \in Seq(S) /\ <<x>> \in Seq(Seq(S)) /\ Len(<<x>>) = 1
  BY LenProperties, ElementOfSeq
<1> HIDE DEF x
<1>2. /\ uu \in Seq(Seq(S)) /\ Len(uu) = 1 + n
      /\ \A i \in 1..(1 + n) : uu[i] = IF i <= 1 THEN <<x>>[i] ELSE ss[i - 1]
  <2> DEFINE v == <<x>>
  <2>1. v \in Seq(Seq(S)) /\ Len(v) = 1
    BY <1>1
  <2> HIDE DEF v
  <2>2. /\ v \o ss \in Seq(Seq(S)) /\ Len(v \o ss) = Len(v) + Len(ss)
        /\ \A i \in 1..(Len(v) + Len(ss)) : (v \o ss)[i] = IF i <= Len(v) THEN v[i] ELSE ss[i - Len(v)]
    BY <2>1, ConcatProperties
  <2>3. QED BY <2>1, <2>2 DEF v
<1> HIDE DEF uu
<1>3. ASSUME NEW i \in 1..(1 + n) PROVE uu[i] = tt[i]
  <2>1. CASE i = 1
    <3>1. uu[1] = x
      BY <1>1, <1>2, <2>1
    <3>2. QED BY <2>1, <3>1 DEF x
  <2>2. CASE i # 1
    <3>1. i - 1 \in 1..n /\ (i - 1) + 1 = i /\ ~(i <= 1)
      BY <1>1, <1>3, <2>2
    <3>2. uu[i] = ss[i - 1]
      BY <1>2, <1>3, <3>1
    <3>3. tt[i] = ss[i - 1]
      BY <3>1
    <3>4. QED BY <3>2, <3>3
  <2>3. QED BY <2>1, <2>2
<1>4. uu = tt
  <2>1. Len(uu) = Len(tt)
    BY <1>1, <1>2
  <2>2. \A i \in 1..Len(uu) : uu[i] = tt[i]
    BY <1>2, <1>3
  <2>3. QED BY <1>2, <2>1, <2>2, SeqEqual
<1>5. FlattenSeq(<<x>> \o ss) = x \o FlattenSeq(ss)
  BY <1>1, FlattenPrepend
<1>6. QED BY <1>4, <1>5 DEF x, uu

-----------------------------------------------------------------------------
(* Sequences with at most one element of a kind. *)

AtMostOnce(s, T) == \A p, q \in DOMAIN s : s[p] \in T /\ s[q] \in T => p = q

\* When the first element is of the kind, no other is.
LEMMA TailOnce ==
  ASSUME NEW S, NEW s \in Seq(S), s # << >>, NEW T, AtMostOnce(s, T)
  PROVE  /\ AtMostOnce(Tail(s), T)
         /\ Head(s) \in T => Range(Tail(s)) \cap T = {}
<1> DEFINE t == Tail(s)
           n == Len(s)
<1>1. n \in Nat /\ n >= 1 /\ DOMAIN s = 1..n /\ Head(s) = s[1]
  OBVIOUS
<1>2. DOMAIN t = 1..(n - 1) /\ \A p \in 1..(n - 1) : t[p] = s[p + 1]
  OBVIOUS
<1> HIDE DEF t, n
<1>3. \A p \in 1..(n - 1) : p + 1 \in 1..n /\ p + 1 # 1 /\ t[p] = s[p + 1]
  BY <1>1, <1>2
<1>4. \A p, q \in 1..n : s[p] \in T /\ s[q] \in T => p = q
  BY <1>1 DEF AtMostOnce
<1>5. ASSUME NEW p \in 1..(n - 1), NEW q \in 1..(n - 1), t[p] \in T, t[q] \in T
      PROVE  p = q
  <2>1. p + 1 = q + 1
    BY <1>3, <1>4, <1>5
  <2>2. QED BY <1>1, <2>1
<1>6. ASSUME Head(s) \in T, NEW p \in 1..(n - 1) PROVE t[p] \notin T
  <2>1. 1 \in 1..n
    BY <1>1
  <2>2. QED BY <1>1, <1>3, <1>4, <1>6, <2>1
<1>7. AtMostOnce(t, T)
  BY <1>2, <1>5 DEF AtMostOnce
<1>8. Head(s) \in T => Range(t) \cap T = {}
  BY <1>2, <1>6 DEF Range
<1>9. QED BY <1>7, <1>8 DEF t

\* An element of the kind may be added when there is none.
LEMMA AppendOnce ==
  ASSUME NEW S, NEW s \in Seq(S), NEW x \in S, NEW T, AtMostOnce(s, T),
         x \in T => Range(s) \cap T = {}
  PROVE  AtMostOnce(Append(s, x), T)
<1> DEFINE t == Append(s, x)
           n == Len(s)
<1>1. n \in Nat /\ DOMAIN s = 1..n
  OBVIOUS
<1>2. DOMAIN t = 1..(n + 1) /\ t[n + 1] = x /\ \A p \in 1..n : t[p] = s[p]
  OBVIOUS
<1> HIDE DEF t, n
<1>3. \A p \in 1..(n + 1) : p = n + 1 \/ p \in 1..n
  BY <1>1
<1>4. \A p \in 1..n : x \in T => s[p] \notin T
  BY <1>1 DEF Range
<1>5. QED BY <1>1, <1>2, <1>3, <1>4 DEF AtMostOnce, t

\* The same in front.
LEMMA PrependOnce ==
  ASSUME NEW S, NEW s \in Seq(S), NEW x \in S, NEW T, AtMostOnce(s, T),
         x \in T => Range(s) \cap T = {}
  PROVE  AtMostOnce(<<x>> \o s, T)
<1> DEFINE t == <<x>> \o s
           n == Len(s)
<1>1. n \in Nat /\ DOMAIN s = 1..n /\ DOMAIN t = 1..(n + 1)
  OBVIOUS
<1>2. t[1] = x /\ \A p \in 1..n : t[p + 1] = s[p]
  OBVIOUS
<1> HIDE DEF t, n
<1>3. \A p \in 1..(n + 1) : p # 1 => p - 1 \in 1..n /\ t[p] = s[p - 1]
  <2>1. ASSUME NEW p \in 1..(n + 1), p # 1
        PROVE  p - 1 \in 1..n /\ (p - 1) + 1 = p
    BY <2>1, <1>1
  <2>2. QED BY <2>1, <1>2
<1>4. \A p \in 1..n : x \in T => s[p] \notin T
  BY <1>1 DEF Range
<1>5. ASSUME NEW p \in 1..(n + 1), NEW q \in 1..(n + 1), t[p] \in T, t[q] \in T
      PROVE  p = q
  <2>1. CASE p = 1 \/ q = 1
    BY <1>2, <1>3, <1>4, <1>5, <2>1
  <2>2. CASE p # 1 /\ q # 1
    <3>1. p - 1 = q - 1
      BY <1>1, <1>3, <1>5, <2>2 DEF AtMostOnce
    <3>2. QED BY <1>1, <3>1
  <2>3. QED BY <2>1, <2>2
<1>6. QED BY <1>1, <1>5 DEF AtMostOnce, t

\* Taking out the element at a place: if it is of the kind, no other is.
LEMMA RemoveAtOnce ==
  ASSUME NEW S, NEW s \in Seq(S), NEW m \in 1..Len(s), NEW T, AtMostOnce(s, T)
  PROVE  /\ AtMostOnce(RemoveAt(s, m), T)
         /\ Range(RemoveAt(s, m)) \subseteq Range(s)
         /\ s[m] \in T => Range(RemoveAt(s, m)) \cap T = {}
<1> DEFINE r == RemoveAt(s, m)
           n == Len(s)
           at(k) == IF k < m THEN k ELSE k + 1
<1>1. /\ r \in Seq(S) /\ Len(r) = n - 1
      /\ \A k \in 1..(n - 1) : r[k] = IF k < m THEN s[k] ELSE s[k + 1]
  BY RemoveAtPlace DEF WithoutAt
<1>2. n \in Nat /\ DOMAIN s = 1..n
  OBVIOUS
<1> HIDE DEF r
<1>3. DOMAIN r = 1..(n - 1)
  BY <1>1, <1>2
<1> HIDE DEF n
<1>4. \A k \in 1..(n - 1) : at(k) \in 1..n /\ at(k) # m /\ r[k] = s[at(k)]
  BY <1>1, <1>2
<1>5. \A k, l \in 1..(n - 1) : at(k) = at(l) => k = l
  BY <1>2
<1> HIDE DEF at
<1>6. AtMostOnce(r, T)
  BY <1>2, <1>3, <1>4, <1>5 DEF AtMostOnce
<1>7. Range(r) \subseteq Range(s)
  BY <1>2, <1>3, <1>4 DEF Range
<1>8. ASSUME s[m] \in T, NEW k \in 1..(n - 1) PROVE r[k] \notin T
  <2>1. m \in DOMAIN s
    BY <1>2 DEF n
  <2>2. QED BY <1>2, <1>4, <1>8, <2>1 DEF AtMostOnce
<1>9. s[m] \in T => Range(r) \cap T = {}
  BY <1>3, <1>8 DEF Range
<1>10. QED BY <1>6, <1>7, <1>9 DEF r
=============================================================================
