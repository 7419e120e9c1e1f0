-------------------------- MODULE InductionProofs ---------------------------
(***************************************************************************)
(* Induction over the natural numbers in a form that needs no operator as  *)
(* a parameter: the set of the numbers for which something holds takes its *)
(* place.  From it, that functions defined by recursion exist, and what    *)
(* Only keeps of a sequence, SumOf adds up and FlattenSeq puts together;   *)
(* besides, facts about products and about sequences that are cut and put  *)
(* together which the other modules of theorems need.                      *)
(***************************************************************************)
EXTENDS SequenceLoops, SequencesExt, WellFoundedInduction, TLAPS

(* A set of natural numbers has a least element. *)
LEMMA LeastElement ==
  ASSUME NEW T, T \subseteq Nat, T # {}
  PROVE  \E x \in T : \A y \in T : x =< y
<1> DEFINE R == {ss \in Nat \X Nat : ss[1] < ss[2]}
<1>1. R = OpToRel(<, Nat)
  BY DEF OpToRel
<1>2. IsWellFoundedOn(R, Nat)
  BY <1>1, NatLessThanWellFounded, Zenon
<1>3. PICK x \in T : \A y \in T : ~ (<<y, x>> \in R)
  <2> HIDE DEF R
  <2> QED BY <1>2, WFMin
<1>4. ASSUME NEW y \in T
      PROVE  x =< y
  <2>1. x \in Nat /\ y \in Nat /\ <<y, x>> \notin R
    BY <1>3
  <2> QED BY <2>1
<1> QED BY <1>4

(* A set that has 0 and, with each number, the next one has them all. *)
LEMMA Induction ==
  ASSUME NEW S, 0 \in S, \A n \in Nat : n \in S => n + 1 \in S
  PROVE  Nat \subseteq S
<1>1. SUFFICES ASSUME Nat \ S # {} PROVE FALSE
  OBVIOUS
<1>2. PICK x \in Nat \ S : \A y \in Nat \ S : x =< y
  BY <1>1, LeastElement
<1>3. x # 0 /\ x - 1 \in Nat
  BY <1>2
<1>4. x - 1 \in S
  BY <1>2, <1>3
<1> QED BY <1>2, <1>3, <1>4

(* The same for the numbers up to a bound. *)
LEMMA BoundedInduction ==
  ASSUME NEW N \in Nat, NEW S, 0 \in S,
         \A n \in 1..N : n - 1 \in S => n \in S
  PROVE  0..N \subseteq S
<1> DEFINE T == {n \in Nat : n =< N => n \in S}
<1>1. ASSUME NEW n \in Nat, n \in T
      PROVE  n + 1 \in T
  <2>1. n + 1 =< N => n + 1 \in 1..N /\ (n + 1) - 1 = n /\ n =< N
    OBVIOUS
  <2> QED BY <1>1, <2>1
<1>2. Nat \subseteq T
  <2>1. 0 \in T
    OBVIOUS
  <2> HIDE DEF T
  <2> QED BY <1>1, <2>1, Induction
<1> QED BY <1>2

\* f has the first value a and goes from one value to the next by step.
IsRecursive(f, N, S, a, step) ==
  /\ f \in [0..N -> S]
  /\ f[0] = a
  /\ \A n \in 1..N : f[n] = step[n][f[n - 1]]

(* A function may be defined by its first value and a step from one value to
   the next. *)
LEMMA Recursion ==
  ASSUME NEW N \in Nat, NEW S, NEW a \in S, NEW step \in [1..N -> [S -> S]]
  PROVE  \E f : IsRecursive(f, N, S, a, step)
<1> DEFINE Upto(m, f) == f[0] = a /\ \A n \in 1..m : f[n] = step[n][f[n - 1]]
           T == {m \in 0..N : \E f \in [0..N -> S] : Upto(m, f)}
<1>1. 0 \in T
  <2> DEFINE g == [n \in 0..N |-> a]
  <2>1. g \in [0..N -> S] /\ Upto(0, g)
    OBVIOUS
  <2> HIDE DEF g
  <2>2. \E f \in [0..N -> S] : Upto(0, f)
    BY <2>1
  <2> QED BY <2>2
<1>2. ASSUME NEW m \in 1..N, m - 1 \in T
      PROVE  m \in T
  <2>1. PICK f \in [0..N -> S] : Upto(m - 1, f)
    BY <1>2
  <2> DEFINE v == step[m][f[m - 1]]
             g == [f EXCEPT ![m] = v]
  <2>2. v \in S /\ g \in [0..N -> S]
    <3>1. f[m - 1] \in S
      OBVIOUS
    <3>2. step[m] \in [S -> S]
      OBVIOUS
    <3> QED BY <3>1, <3>2
  <2>3. g[m] = v /\ \A n \in 0..(m - 1) : g[n] = f[n]
    <3> HIDE DEF v
    <3> QED OBVIOUS
  <2>4. Upto(m, g)
    <3> HIDE DEF g
    <3>1. g[0] = a
      BY <2>1, <2>3
    <3>2. ASSUME NEW n \in 1..m
          PROVE  g[n] = step[n][g[n - 1]]
      <4>1. g[n - 1] = f[n - 1]
        BY <2>3
      <4>2. CASE n = m
        BY <4>1, <4>2, <2>3
      <4>3. CASE n # m
        <5>1. n \in 1..(m - 1)
          BY <4>3
        <5> QED BY <5>1, <4>1, <2>1, <2>3
      <4> QED BY <4>2, <4>3
    <3> QED BY <3>1, <3>2
  <2> HIDE DEF g
  <2>5. \E h \in [0..N -> S] : Upto(m, h)
    BY <2>2, <2>4
  <2> QED BY <2>5
<1>3. 0..N \subseteq T
  <2> HIDE DEF T
  <2> QED BY <1>1, <1>2, BoundedInduction
<1>4. N \in T
  <2> HIDE DEF T
  <2> QED BY <1>3
<1> QED BY <1>4 DEF IsRecursive

(* Every sequence is the empty one or comes from a shorter one by Append. *)
LEMMA SequenceInduction ==
  ASSUME NEW X, NEW T, <<>> \in T,
         \A s \in Seq(X), x \in X : s \in T => Append(s, x) \in T
  PROVE  Seq(X) \subseteq T
<1> DEFINE L == {n \in Nat : \A s \in Seq(X) : Len(s) = n => s \in T}
<1>1. 0 \in L
  <2>1. \A s \in Seq(X) : Len(s) = 0 => s = <<>>
    OBVIOUS
  <2> QED BY <2>1
<1>2. ASSUME NEW n \in Nat, n \in L
      PROVE  n + 1 \in L
  <2>1. ASSUME NEW s \in Seq(X), Len(s) = n + 1
        PROVE  s \in T
    <3> DEFINE t == SubSeq(s, 1, n)
               x == s[n + 1]
    <3>1. t \in Seq(X) /\ Len(t) = n /\ x \in X
      BY <2>1
    <3>2. s = Append(t, x)
      BY <2>1
    <3>3. t \in T
      BY <1>2, <3>1
    <3> HIDE DEF t, x
    <3> QED BY <3>1, <3>2, <3>3
  <2> QED BY <2>1
<1>3. Nat \subseteq L
  <2> HIDE DEF L
  <2> QED BY <1>1, <1>2, Induction
<1>4. \A s \in Seq(X) : Len(s) \in Nat
  OBVIOUS
<1> QED BY <1>3, <1>4

-----------------------------------------------------------------------------

LEMMA ProductIsNat == \A m, n \in Nat : m * n \in Nat
OBVIOUS

LEMMA QuotientIsNat == \A m \in Nat, n \in Nat \ {0} : m \div n \in Nat
OBVIOUS

(* Multiples, and the division that gives them back. *)
LEMMA ProductMonotone ==
  \A m, n, d \in Nat : m =< n => m * d =< n * d
<1> SUFFICES ASSUME NEW m \in Nat, NEW n \in Nat, NEW d \in Nat, m =< n
             PROVE  m * d =< n * d
  OBVIOUS
<1>1. n * d - m * d = (n - m) * d
  OBVIOUS
<1>2. (n - m) * d >= 0
  OBVIOUS
<1> QED BY <1>1, <1>2

LEMMA DivWhole ==
  ASSUME NEW d \in Nat \ {0}, NEW n \in Nat, NEW r \in 0..(d - 1)
  PROVE  (n * d + r) \div d = n
<1> DEFINE x == n * d + r
           q == x \div d
<1>1. n * d \in Nat /\ x \in Nat
  OBVIOUS
<1> HIDE DEF x
<1>2. q \in Int /\ q * d =< x /\ x < q * d + d
  BY <1>1
<1> HIDE DEF q
<1>3. x = n * d + r
  BY DEF x
<1>4. CASE q > n
  <2>1. q * d >= (n + 1) * d
    BY <1>2, <1>4
  <2>2. (n + 1) * d = n * d + d
    OBVIOUS
  <2> QED BY <1>1, <1>2, <1>3, <2>1, <2>2
<1>5. CASE q < n
  <2>1. (q + 1) * d =< n * d
    BY <1>2, <1>5
  <2>2. (q + 1) * d = q * d + d
    BY <1>2
  <2> QED BY <1>1, <1>2, <1>3, <2>1, <2>2
<1>6. CASE q = n
  BY <1>6 DEF x, q
<1> QED BY <1>2, <1>4, <1>5, <1>6

(* The parts of two sequences put together, and of one that is cut. *)
LEMMA FrontOfConcat ==
  ASSUME NEW X, NEW s \in Seq(X), NEW t \in Seq(X),
         NEW m \in Nat \ {0}, NEW n \in 0..Len(s)
  PROVE  SubSeq(s \o t, m, n) = SubSeq(s, m, n)
OBVIOUS

LEMMA BackOfConcat ==
  ASSUME NEW X, NEW s \in Seq(X), NEW t \in Seq(X)
  PROVE  SubSeq(s \o t, Len(s) + 1, Len(s) + Len(t)) = t
OBVIOUS

LEMMA ConcatInSeq ==
  ASSUME NEW X, NEW s \in Seq(X), NEW t \in Seq(X)
  PROVE  s \o t \in Seq(X) /\ Len(s \o t) = Len(s) + Len(t)
OBVIOUS

\* It makes no difference which two are put together first.
Associate(s, t, u) == (s \o t) \o u = s \o (t \o u)

LEMMA ConcatAssoc ==
  ASSUME NEW X, NEW s \in Seq(X), NEW t \in Seq(X), NEW u \in Seq(X)
  PROVE  Associate(s, t, u)
BY DEF Associate

LEMMA MiddleOfConcat ==
  ASSUME NEW X, NEW s \in Seq(X), NEW t \in Seq(X), NEW u \in Seq(X)
  PROVE  SubSeq((s \o t) \o u, Len(s) + 1, Len(s) + Len(t)) = t
OBVIOUS

\* What s is when it is six sequences, one behind the other.
IsSixParts(s, a, b, c, d, e, f) ==
  LET atC == Len(a) + Len(b)
      atD == atC + Len(c)
      atE == atD + Len(d)
      atF == atE + Len(e)
  IN  /\ Len(s) = atF + Len(f)
      /\ SubSeq(s, 1, Len(a)) = a
      /\ SubSeq(s, atC + 1, atD) = c
      /\ SubSeq(s, atD + 1, atE) = d
      /\ SubSeq(s, atE + 1, atF) = e
      /\ SubSeq(s, atF + 1, Len(s)) = f

LEMMA PartsOfSix ==
  ASSUME NEW X, NEW a \in Seq(X), NEW b \in Seq(X), NEW c \in Seq(X),
         NEW d \in Seq(X), NEW e \in Seq(X), NEW f \in Seq(X)
  PROVE  IsSixParts(a \o b \o c \o d \o e \o f, a, b, c, d, e, f)
<1> DEFINE s2 == a \o b
           s3 == s2 \o c
           s4 == s3 \o d
           s5 == s4 \o e
           s  == s5 \o f
           t5 == e \o f
           t4 == d \o t5
           t3 == c \o t4
           t2 == b \o t3
<1>1. /\ Len(a) \in Nat /\ Len(b) \in Nat /\ Len(c) \in Nat
      /\ Len(d) \in Nat /\ Len(e) \in Nat /\ Len(f) \in Nat
  OBVIOUS
<1>2. s2 \in Seq(X) /\ Len(s2) = Len(a) + Len(b)
  BY ConcatInSeq, Zenon
<1>3. s3 \in Seq(X) /\ Len(s3) = Len(s2) + Len(c)
  <2> HIDE DEF s2
  <2> QED BY <1>2, ConcatInSeq, Zenon
<1>4. s4 \in Seq(X) /\ Len(s4) = Len(s3) + Len(d)
  <2> HIDE DEF s3
  <2> QED BY <1>3, ConcatInSeq, Zenon
<1>5. s5 \in Seq(X) /\ Len(s5) = Len(s4) + Len(e)
  <2> HIDE DEF s4
  <2> QED BY <1>4, ConcatInSeq, Zenon
<1>6. s \in Seq(X) /\ Len(s) = Len(s5) + Len(f)
  <2> HIDE DEF s5
  <2> QED BY <1>5, ConcatInSeq, Zenon
<1>7. t5 \in Seq(X)
  BY ConcatInSeq, Zenon
<1>8. t4 \in Seq(X)
  <2> HIDE DEF t5
  <2> QED BY <1>7, ConcatInSeq, Zenon
<1>9. t3 \in Seq(X)
  <2> HIDE DEF t4
  <2> QED BY <1>8, ConcatInSeq, Zenon
<1>10. t2 \in Seq(X)
  <2> HIDE DEF t3
  <2> QED BY <1>9, ConcatInSeq, Zenon
<1>11. s = s4 \o t5
  <2> HIDE DEF s2, s3, s4, s5, s, t2, t3, t4, t5
  <2>1. Associate(s4, e, f)
    BY <1>4, ConcatAssoc
  <2> QED BY <2>1 DEF s, s5, t5, Associate
<1>12. s = s3 \o t4
  <2> HIDE DEF s2, s3, s4, s5, s, t2, t3, t4, t5
  <2>1. Associate(s3, d, t5)
    BY <1>3, <1>7, ConcatAssoc
  <2> QED BY <1>11, <2>1 DEF s4, t4, Associate
<1>13. s = s2 \o t3
  <2> HIDE DEF s2, s3, s4, s5, s, t2, t3, t4, t5
  <2>1. Associate(s2, c, t4)
    BY <1>2, <1>8, ConcatAssoc
  <2> QED BY <1>12, <2>1 DEF s3, t3, Associate
<1>14. s = a \o t2
  <2> HIDE DEF s2, s3, s4, s5, s, t2, t3, t4, t5
  <2>1. Associate(a, b, t3)
    BY <1>9, ConcatAssoc
  <2> QED BY <1>13, <2>1 DEF s2, t2, Associate
<1>15. SubSeq(s, 1, Len(a)) = a
  <2> HIDE DEF s, t2
  <2>1. SubSeq(a \o t2, 1, Len(a)) = a
    BY <1>10
  <2> QED BY <1>14, <2>1
<1>16. SubSeq(s, Len(s2) + 1, Len(s2) + Len(c)) = c
  <2>1. SubSeq(s3 \o t4, Len(s2) + 1, Len(s2) + Len(c)) = c
    <3> HIDE DEF s2, t4
    <3> QED BY <1>2, <1>8, MiddleOfConcat, Zenon
  <2> HIDE DEF s, s3, t4, s2
  <2> QED BY <1>12, <2>1
<1>17. SubSeq(s, Len(s3) + 1, Len(s3) + Len(d)) = d
  <2>1. SubSeq(s4 \o t5, Len(s3) + 1, Len(s3) + Len(d)) = d
    <3> HIDE DEF s3, t5
    <3> QED BY <1>3, <1>7, MiddleOfConcat, Zenon
  <2> HIDE DEF s, s4, t5, s3
  <2> QED BY <1>11, <2>1
<1>18. SubSeq(s, Len(s4) + 1, Len(s4) + Len(e)) = e
  <2> HIDE DEF s4
  <2> QED BY <1>4, MiddleOfConcat, Zenon
<1>19. SubSeq(s, Len(s5) + 1, Len(s5) + Len(f)) = f
  <2> HIDE DEF s5
  <2> QED BY <1>5, BackOfConcat, Zenon
<1> HIDE DEF s, s2, s3, s4, s5
<1>20. IsSixParts(s, a, b, c, d, e, f)
  <2>1. /\ Len(s2) = Len(a) + Len(b) /\ Len(s3) = Len(s2) + Len(c)
        /\ Len(s4) = Len(s3) + Len(d) /\ Len(s5) = Len(s4) + Len(e)
        /\ Len(s) = Len(s5) + Len(f)
    BY <1>2, <1>3, <1>4, <1>5, <1>6
  <2> QED BY <2>1, <1>15, <1>16, <1>17, <1>18, <1>19 DEF IsSixParts
<1> QED BY <1>20 DEF s, s2, s3, s4, s5

(* What two sequences put together are, element by element. *)
LEMMA ConcatIs ==
  ASSUME NEW X, NEW s \in Seq(X), NEW t \in Seq(X), NEW p \in Seq(X),
         Len(p) = Len(s) + Len(t),
         \A i \in 1..Len(s) : p[i] = s[i],
         \A i \in 1..Len(t) : p[Len(s) + i] = t[i]
  PROVE  s \o t = p
<1> DEFINE u == s \o t
<1>1. /\ u \in Seq(X) /\ Len(u) = Len(s) + Len(t)
      /\ \A i \in 1..Len(s) : u[i] = s[i]
      /\ \A i \in 1..Len(t) : u[Len(s) + i] = t[i]
  OBVIOUS
<1>2. Len(s) \in Nat /\ Len(t) \in Nat
  OBVIOUS
<1> HIDE DEF u
<1>3. \A i \in 1..Len(u) : u[i] = p[i]
  <2> TAKE i \in 1..Len(u)
  <2>1. CASE i =< Len(s)
    BY <1>1, <1>2, <2>1
  <2>2. CASE ~ i =< Len(s)
    <3>1. i - Len(s) \in 1..Len(t) /\ Len(s) + (i - Len(s)) = i
      BY <1>1, <1>2, <2>2
    <3> QED BY <1>1, <3>1
  <2> QED BY <2>1, <2>2
<1>4. u = p
  BY <1>1, <1>3
<1> QED BY <1>4 DEF u

(* One element more, and one element changed. *)
LEMMA AppendIs ==
  ASSUME NEW X, NEW s \in Seq(X), NEW x \in X
  PROVE  /\ Append(s, x) \in Seq(X) /\ Len(Append(s, x)) = Len(s) + 1
         /\ Append(s, x) # <<>>
<1> DEFINE t == Append(s, x)
<1>1. t \in Seq(X) /\ Len(t) = Len(s) + 1 /\ Len(s) \in Nat
  OBVIOUS
<1>2. t # <<>>
  <2> HIDE DEF t
  <2> QED BY <1>1
<1> QED BY <1>1, <1>2

LEMMA ExceptIs ==
  ASSUME NEW X, NEW s \in Seq(X), NEW i \in 1..Len(s), NEW x \in X
  PROVE  /\ [s EXCEPT ![i] = x] \in Seq(X)
         /\ Len([s EXCEPT ![i] = x]) = Len(s)
OBVIOUS

(* Two single elements. *)
LEMMA PairOfOnes ==
  ASSUME NEW X, NEW s \in Seq(X), NEW t \in Seq(X), NEW p \in Seq(X),
         Len(s) = 1, Len(t) = 1, Len(p) = 2, p[1] = s[1], p[2] = t[1]
  PROVE  s \o t = p
<1> DEFINE u == s \o t
<1>1. u \in Seq(X) /\ Len(u) = 2
  <2>1. u \in Seq(X) /\ Len(u) = Len(s) + Len(t)
    BY ConcatInSeq, Zenon
  <2> HIDE DEF u
  <2> QED BY <2>1
<1>2. u[1] = s[1] /\ u[2] = t[1]
  OBVIOUS
<1> HIDE DEF u
<1>3. \A i \in 1..2 : u[i] = p[i]
  BY <1>2
<1>4. u = p
  BY <1>1, <1>3
<1> QED BY <1>4 DEF u

LEMMA PairOfSingles == \A x, y : <<x>> \o <<y>> = <<x, y>>
<1> TAKE x, y
<1> DEFINE X == {x, y}
           s == <<x>>
           t == <<y>>
           p == <<x, y>>
<1>1. /\ s \in Seq(X) /\ Len(s) = 1 /\ s[1] = x
      /\ t \in Seq(X) /\ Len(t) = 1 /\ t[1] = y
      /\ p \in Seq(X) /\ Len(p) = 2 /\ p[1] = x /\ p[2] = y
  OBVIOUS
<1> HIDE DEF X, s, t, p
<1>2. s \o t = p
  BY <1>1, PairOfOnes
<1> QED BY <1>2 DEF s, t, p

LEMMA SplitSeq ==
  ASSUME NEW X, NEW s \in Seq(X), NEW n \in 0..Len(s)
  PROVE  SubSeq(s, 1, n) \o SubSeq(s, n + 1, Len(s)) = s
<1> DEFINE a == SubSeq(s, 1, n)
           b == SubSeq(s, n + 1, Len(s))
           u == a \o b
<1>1. /\ a \in Seq(X) /\ Len(a) = n
      /\ \A i \in 1..n : a[i] = s[i]
  OBVIOUS
<1>2. /\ b \in Seq(X) /\ Len(b) = Len(s) - n
      /\ \A i \in 1..(Len(s) - n) : b[i] = s[n + i]
  OBVIOUS
<1> HIDE DEF a, b
<1>3. u \in Seq(X) /\ Len(u) = Len(s)
  BY <1>1, <1>2
<1>4. ASSUME NEW i \in 1..Len(s) PROVE u[i] = s[i]
  <2>3. i \in Nat /\ n \in Nat
    OBVIOUS
  <2>1. CASE i =< n
    BY <1>1, <1>2, <2>1
  <2>2. CASE i > n
    <3>1. i - n \in 1..(Len(s) - n) /\ n + (i - n) = i
      BY <2>2
    <3>2. u[i] = b[i - n]
      BY <1>1, <1>2, <2>2
    <3> QED BY <1>2, <3>1, <3>2
  <2> HIDE DEF u
  <2> QED BY <2>1, <2>2, <2>3
<1> HIDE DEF u
<1>5. u = s
  BY <1>3, <1>4
<1> QED BY <1>5 DEF u, a, b

-----------------------------------------------------------------------------

(* One more element behind two sequences. *)
LEMMA ConcatAppend ==
  ASSUME NEW X, NEW s \in Seq(X), NEW t \in Seq(X), NEW x \in X
  PROVE  s \o Append(t, x) = Append(s \o t, x)
OBVIOUS

\* f is the function Only is defined with.
IsOnly(f, X, s, S) ==
  /\ f \in [0..Len(s) -> Seq(X)]
  /\ f[0] = <<>>
  /\ \A n \in 1..Len(s) :
       f[n] = IF s[n] \in S THEN Append(f[n - 1], s[n]) ELSE f[n - 1]
  /\ Only(s, S) = f[Len(s)]

(* The recursion of Only has a solution, and it has its type. *)
LEMMA OnlyFunction ==
  ASSUME NEW X, NEW s \in Seq(X), NEW S
  PROVE  \E f : IsOnly(f, X, s, S)
<1> DEFINE N == Len(s)
           Q == Seq(X)
           step == [n \in 1..N |-> [q \in Q |->
                      IF s[n] \in S THEN Append(q, s[n]) ELSE q]]
           Body(f, n) == IF n = 0 THEN <<>>
                         ELSE IF s[n] \in S THEN Append(f[n - 1], s[n])
                              ELSE f[n - 1]
           only == CHOOSE f : f = [n \in 0..N |-> Body(f, n)]
<1>1. /\ N \in Nat /\ <<>> \in Q
      /\ \A n \in 1..N : s[n] \in X
      /\ \A n \in 0..N : n = 0 \/ n \in 1..N
      /\ \A q \in Q, x \in X : Append(q, x) \in Q
  OBVIOUS
<1> HIDE DEF N, Q
<1>2. step \in [1..N -> [Q -> Q]]
  BY <1>1
<1>3. PICK f : IsRecursive(f, N, Q, <<>>, step)
  <2> HIDE DEF step
  <2> QED BY <1>1, <1>2, Recursion
<1>4. ASSUME NEW n \in 1..N
      PROVE  f[n] = IF s[n] \in S THEN Append(f[n - 1], s[n]) ELSE f[n - 1]
  <2>1. f[n - 1] \in Q
    BY <1>1, <1>3 DEF IsRecursive
  <2>2. step[n][f[n - 1]] = IF s[n] \in S THEN Append(f[n - 1], s[n])
                            ELSE f[n - 1]
    BY <2>1
  <2> QED BY <1>3, <2>2 DEF IsRecursive
<1>5. f = [n \in 0..N |-> Body(f, n)]
  <2>1. \A n \in 0..N : f[n] = Body(f, n)
    BY <1>1, <1>3, <1>4 DEF IsRecursive
  <2>2. f = [n \in 0..N |-> f[n]]
    BY <1>3 DEF IsRecursive
  <2> QED BY <2>1, <2>2, Zenon
<1>6. only = [n \in 0..N |-> Body(only, n)]
  BY <1>5, Zenon
<1> HIDE DEF only
<1>7. \A n \in 0..N : only[n] = Body(only, n)
  BY <1>6, Zenon
<1>8. \A n \in 1..N :
        only[n] = IF s[n] \in S THEN Append(only[n - 1], s[n]) ELSE only[n - 1]
  BY <1>7
<1>9. only[0] = <<>>
  BY <1>1, <1>7
<1>10. only \in [0..N -> Q]
  <2> DEFINE T == {n \in 0..N : only[n] \in Q}
  <2>1. 0 \in T
    BY <1>9, <1>1
  <2>2. ASSUME NEW n \in 1..N, n - 1 \in T
        PROVE  n \in T
    <3>1. only[n - 1] \in Q /\ n \in 0..N
      BY <2>2, <1>1
    <3> QED BY <3>1, <1>1, <1>8
  <2>3. 0..N \subseteq T
    <3> HIDE DEF T
    <3> QED BY <1>1, <2>1, <2>2, BoundedInduction
  <2>4. \A n \in 0..N : only[n] \in Q
    BY <2>3
  <2>5. only = [n \in 0..N |-> only[n]]
    BY <1>6, Zenon
  <2> QED BY <2>4, <2>5, Zenon
<1>11. Only(s, S) = only[N]
  BY DEF Only, only, N
<1> QED BY <1>8, <1>9, <1>10, <1>11 DEF N, Q, IsOnly

(* What Only keeps of nothing, and of one more element. *)
LEMMA OnlyOfEmpty == \A S : Only(<<>>, S) = <<>>
<1> TAKE S
<1>1. <<>> \in Seq({}) /\ Len(<<>>) = 0
  OBVIOUS
<1> DEFINE e == <<>>
<1> HIDE DEF e
<1>2. e \in Seq({}) /\ Len(e) = 0
  BY <1>1 DEF e
<1>3. PICK f : IsOnly(f, {}, e, S)
  BY <1>2, OnlyFunction
<1> QED BY <1>2, <1>3 DEF IsOnly, e

LEMMA OnlyOfAppend ==
  ASSUME NEW X, NEW s \in Seq(X), NEW x \in X, NEW S
  PROVE  Only(Append(s, x), S) = IF x \in S THEN Append(Only(s, S), x)
                                 ELSE Only(s, S)
<1> DEFINE N == Len(s)
           t == Append(s, x)
<1>1. /\ N \in Nat /\ t \in Seq(X) /\ Len(t) = N + 1 /\ t[N + 1] = x
      /\ \A n \in 1..N : t[n] = s[n]
  OBVIOUS
<1> HIDE DEF t
<1>2. PICK f : IsOnly(f, X, s, S)
  BY OnlyFunction
<1>3. PICK g : IsOnly(g, X, t, S)
  BY <1>1, OnlyFunction
<1>4. /\ f \in [0..N -> Seq(X)] /\ f[0] = <<>> /\ g[0] = <<>>
      /\ \A n \in 1..N :
           f[n] = IF s[n] \in S THEN Append(f[n - 1], s[n]) ELSE f[n - 1]
      /\ \A n \in 1..(N + 1) :
           g[n] = IF t[n] \in S THEN Append(g[n - 1], t[n]) ELSE g[n - 1]
      /\ Only(s, S) = f[N] /\ Only(t, S) = g[N + 1]
  BY <1>1, <1>2, <1>3 DEF IsOnly
<1> HIDE DEF N
<1> DEFINE T == {n \in 0..N : f[n] = g[n]}
<1>5. 0 \in T
  BY <1>1, <1>4
<1>6. ASSUME NEW n \in 1..N, n - 1 \in T
      PROVE  n \in T
  <2>1. n \in 1..(N + 1) /\ t[n] = s[n] /\ f[n - 1] = g[n - 1]
    BY <1>1, <1>6
  <2>2. f[n] = g[n]
    BY <2>1, <1>4
  <2> QED BY <2>2
<1>7. 0..N \subseteq T
  <2> HIDE DEF T
  <2> QED BY <1>1, <1>5, <1>6, BoundedInduction
<1>8. f[N] = g[N] /\ f[N] \in Seq(X)
  BY <1>1, <1>4, <1>7
<1>9. g[N + 1] = IF x \in S THEN Append(g[N], x) ELSE g[N]
  <2>1. N + 1 \in 1..(N + 1) /\ (N + 1) - 1 = N
    BY <1>1
  <2> QED BY <2>1, <1>1, <1>4
<1> QED BY <1>4, <1>8, <1>9 DEF t

LEMMA OneMoreKept ==
  ASSUME NEW X, NEW s \in Seq(X), NEW x \in X, NEW S, x \in S
  PROVE  Only(Append(s, x), S) = Append(Only(s, S), x)
BY OnlyOfAppend

LEMMA OnlyInSeq == ASSUME NEW X, NEW s \in Seq(X), NEW S
                   PROVE  Only(s, S) \in Seq(X)
<1>1. PICK f : IsOnly(f, X, s, S)
  BY OnlyFunction
<1>2. Len(s) \in 0..Len(s)
  OBVIOUS
<1> QED BY <1>1, <1>2 DEF IsOnly

(* Only goes through a sequence part by part. *)
LEMMA OnlyOfConcat ==
  ASSUME NEW X, NEW s \in Seq(X), NEW t \in Seq(X), NEW S
  PROVE  Only(s \o t, S) = Only(s, S) \o Only(t, S)
<1> DEFINE T == {u \in Seq(X) : Only(s \o u, S) = Only(s, S) \o Only(u, S)}
<1>1. <<>> \in T
  <2>1. s \o <<>> = s /\ Only(s, S) \o <<>> = Only(s, S) /\ <<>> \in Seq(X)
    <3>1. Only(s, S) \in Seq(X)
      BY OnlyInSeq
    <3> QED BY <3>1
  <2> QED BY <2>1, OnlyOfEmpty
<1>2. ASSUME NEW u \in Seq(X), NEW x \in X, u \in T
      PROVE  Append(u, x) \in T
  <2> DEFINE w == s \o u
             v == Append(u, x)
  <2>1. s \o v = Append(w, x) /\ w \in Seq(X) /\ v \in Seq(X)
    OBVIOUS
  <2>2. Only(s, S) \in Seq(X) /\ Only(u, S) \in Seq(X)
    BY OnlyInSeq
  <2>3. Only(s, S) \o Append(Only(u, S), x) = Append(Only(s, S) \o Only(u, S), x)
    BY <2>2
  <2>4. Only(w, S) = Only(s, S) \o Only(u, S)
    BY <1>2
  <2>5. \A q \in Seq(X) : Only(Append(q, x), S) =
          IF x \in S THEN Append(Only(q, S), x) ELSE Only(q, S)
    BY OnlyOfAppend
  <2>6. Only(v, S) = IF x \in S THEN Append(Only(u, S), x) ELSE Only(u, S)
    BY <2>5
  <2>7. Only(Append(w, x), S) =
          IF x \in S THEN Append(Only(w, S), x) ELSE Only(w, S)
    <3> HIDE DEF w
    <3> QED BY <2>1, <2>5
  <2> HIDE DEF v, w
  <2>8. Only(s \o v, S) = Only(s, S) \o Only(v, S)
    BY <2>1, <2>3, <2>4, <2>6, <2>7
  <2> QED BY <2>1, <2>8 DEF v
<1>3. Seq(X) \subseteq T
  <2> HIDE DEF T
  <2> QED BY <1>1, <1>2, SequenceInduction
<1> QED BY <1>3

(* The elements of a sequence that was put together. *)
LEMMA ToSetOfAppend ==
  ASSUME NEW X, NEW s \in Seq(X), NEW x \in X
  PROVE  ToSet(Append(s, x)) = ToSet(s) \cup {x}
<1> DEFINE t == Append(s, x)
<1>1. /\ Len(s) \in Nat /\ DOMAIN s = 1..Len(s)
      /\ DOMAIN t = 1..(Len(s) + 1) /\ t[Len(s) + 1] = x
      /\ \A n \in 1..Len(s) : t[n] = s[n]
  OBVIOUS
<1> HIDE DEF t
<1>2. ASSUME NEW y \in ToSet(t) PROVE y \in ToSet(s) \cup {x}
  <2>1. PICK n \in 1..(Len(s) + 1) : y = t[n]
    BY <1>1, <1>2 DEF ToSet
  <2> QED BY <2>1, <1>1 DEF ToSet
<1>3. ASSUME NEW y \in ToSet(s) \cup {x} PROVE y \in ToSet(t)
  <2>1. \E n \in 1..(Len(s) + 1) : y = t[n]
    <3>1. CASE y = x
      BY <3>1, <1>1
    <3>2. CASE y \in ToSet(s)
      BY <3>2, <1>1 DEF ToSet
    <3> QED BY <3>1, <3>2, <1>3
  <2> QED BY <2>1, <1>1 DEF ToSet
<1>4. ToSet(t) = ToSet(s) \cup {x}
  BY <1>2, <1>3
<1> QED BY <1>4 DEF t

LEMMA ToSetOfConcat ==
  ASSUME NEW X, NEW s \in Seq(X), NEW t \in Seq(X)
  PROVE  ToSet(s \o t) = ToSet(s) \cup ToSet(t)
<1> DEFINE u == s \o t
<1>1. /\ Len(s) \in Nat /\ DOMAIN s = 1..Len(s)
      /\ Len(t) \in Nat /\ DOMAIN t = 1..Len(t)
      /\ DOMAIN u = 1..(Len(s) + Len(t))
      /\ \A n \in 1..Len(s) : u[n] = s[n]
      /\ \A n \in 1..Len(t) : u[Len(s) + n] = t[n]
  OBVIOUS
<1> HIDE DEF u
<1>2. ASSUME NEW y \in ToSet(u) PROVE y \in ToSet(s) \cup ToSet(t)
  <2>1. PICK n \in 1..(Len(s) + Len(t)) : y = u[n]
    BY <1>1, <1>2 DEF ToSet
  <2>2. CASE n \in 1..Len(s)
    BY <2>1, <2>2, <1>1 DEF ToSet
  <2>3. CASE n \notin 1..Len(s)
    <3>1. n - Len(s) \in 1..Len(t) /\ Len(s) + (n - Len(s)) = n
      BY <2>3, <1>1
    <3> QED BY <2>1, <3>1, <1>1 DEF ToSet
  <2> QED BY <2>2, <2>3
<1>3. ASSUME NEW y \in ToSet(s) PROVE y \in ToSet(u)
  <2>1. PICK n \in 1..Len(s) : y = s[n]
    BY <1>1, <1>3 DEF ToSet
  <2>2. n \in DOMAIN u /\ y = u[n]
    BY <2>1, <1>1
  <2> QED BY <2>2 DEF ToSet
<1>4. ASSUME NEW y \in ToSet(t) PROVE y \in ToSet(u)
  <2>1. PICK n \in 1..Len(t) : y = t[n]
    BY <1>1, <1>4 DEF ToSet
  <2>2. Len(s) + n \in DOMAIN u /\ y = u[Len(s) + n]
    BY <2>1, <1>1
  <2> QED BY <2>2 DEF ToSet
<1>5. ToSet(u) = ToSet(s) \cup ToSet(t)
  BY <1>2, <1>3, <1>4
<1> QED BY <1>5 DEF u

(* Only keeps the elements that are in the set, and no other. *)
LEMMA OnlyElements ==
  ASSUME NEW X, NEW s \in Seq(X), NEW S
  PROVE  ToSet(Only(s, S)) = ToSet(s) \cap S
<1> DEFINE T == {u \in Seq(X) : ToSet(Only(u, S)) = ToSet(u) \cap S}
<1>1. <<>> \in T
  <2>1. ToSet(<<>>) = {} /\ <<>> \in Seq(X)
    BY DEF ToSet
  <2> QED BY <2>1, OnlyOfEmpty
<1>2. ASSUME NEW u \in Seq(X), NEW x \in X, u \in T
      PROVE  Append(u, x) \in T
  <2>1. Only(u, S) \in Seq(X)
    BY OnlyInSeq
  <2>2. ToSet(Append(u, x)) = ToSet(u) \cup {x}
    BY ToSetOfAppend
  <2>3. ToSet(Append(Only(u, S), x)) = ToSet(Only(u, S)) \cup {x}
    BY <2>1, ToSetOfAppend
  <2>4. Only(Append(u, x), S) = IF x \in S THEN Append(Only(u, S), x)
                                ELSE Only(u, S)
    BY OnlyOfAppend
  <2>5. ToSet(Only(u, S)) = ToSet(u) \cap S /\ Append(u, x) \in Seq(X)
    BY <1>2
  <2>6. ToSet(Only(Append(u, x), S)) = ToSet(Append(u, x)) \cap S
    BY <2>2, <2>3, <2>4, <2>5
  <2> QED BY <2>5, <2>6
<1>3. Seq(X) \subseteq T
  <2> HIDE DEF T
  <2> QED BY <1>1, <1>2, SequenceInduction
<1> QED BY <1>3

(* What Only keeps depends on the elements there are. *)
LEMMA OnlySame ==
  ASSUME NEW X, NEW s \in Seq(X), NEW S1, NEW S2,
         ToSet(s) \cap S1 = ToSet(s) \cap S2
  PROVE  Only(s, S1) = Only(s, S2)
<1> DEFINE T == {u \in Seq(X) : ToSet(u) \cap S1 = ToSet(u) \cap S2
                                  => Only(u, S1) = Only(u, S2)}
<1>1. <<>> \in T
  BY OnlyOfEmpty
<1>2. ASSUME NEW u \in Seq(X), NEW x \in X, u \in T
      PROVE  Append(u, x) \in T
  <2>1. ToSet(Append(u, x)) = ToSet(u) \cup {x}
    BY ToSetOfAppend
  <2>2. \A R : Only(Append(u, x), R) = IF x \in R THEN Append(Only(u, R), x)
                                       ELSE Only(u, R)
    BY OnlyOfAppend
  <2>3. ASSUME ToSet(Append(u, x)) \cap S1 = ToSet(Append(u, x)) \cap S2
        PROVE  Only(Append(u, x), S1) = Only(Append(u, x), S2)
    <3>1. ToSet(u) \cap S1 = ToSet(u) \cap S2 /\ (x \in S1 <=> x \in S2)
      BY <2>1, <2>3
    <3>2. Only(u, S1) = Only(u, S2)
      BY <3>1, <1>2
    <3>3. Only(Append(u, x), S1) = IF x \in S1 THEN Append(Only(u, S1), x)
                                   ELSE Only(u, S1)
      BY <2>2
    <3>4. Only(Append(u, x), S2) = IF x \in S2 THEN Append(Only(u, S2), x)
                                   ELSE Only(u, S2)
      BY <2>2
    <3> QED BY <3>1, <3>2, <3>3, <3>4
  <2> QED BY <2>3
<1>3. Seq(X) \subseteq T
  <2> HIDE DEF T
  <2> QED BY <1>1, <1>2, SequenceInduction
<1> QED BY <1>3

LEMMA OnlyOfNone ==
  ASSUME NEW X, NEW s \in Seq(X), NEW S, ToSet(s) \cap S = {}
  PROVE  Only(s, S) = <<>>
<1>1. Only(s, S) \in Seq(X) /\ ToSet(Only(s, S)) = {}
  BY OnlyInSeq, OnlyElements
<1>2. \A t \in Seq(X) : ToSet(t) = {} => t = <<>>
  <2>1. SUFFICES ASSUME NEW t \in Seq(X), t # <<>> PROVE ToSet(t) # {}
    OBVIOUS
  <2>2. 1 \in DOMAIN t
    BY <2>1
  <2> QED BY <2>2 DEF ToSet
<1> QED BY <1>1, <1>2

LEMMA OnlyOfAll ==
  ASSUME NEW X, NEW s \in Seq(X), NEW S, ToSet(s) \subseteq S
  PROVE  Only(s, S) = s
<1> DEFINE T == {u \in Seq(X) : ToSet(u) \subseteq S => Only(u, S) = u}
<1>1. <<>> \in T
  BY OnlyOfEmpty
<1>2. ASSUME NEW u \in Seq(X), NEW x \in X, u \in T
      PROVE  Append(u, x) \in T
  <2>1. ToSet(Append(u, x)) = ToSet(u) \cup {x}
    BY ToSetOfAppend
  <2>2. Only(Append(u, x), S) = IF x \in S THEN Append(Only(u, S), x)
                                ELSE Only(u, S)
    BY OnlyOfAppend
  <2> QED BY <1>2, <2>1, <2>2
<1>3. Seq(X) \subseteq T
  <2> HIDE DEF T
  <2> QED BY <1>1, <1>2, SequenceInduction
<1> QED BY <1>3

(* Two selections are one. *)
LEMMA OnlyOfOnly ==
  ASSUME NEW X, NEW s \in Seq(X), NEW S1, NEW S2
  PROVE  Only(Only(s, S1), S2) = Only(s, S1 \cap S2)
<1> DEFINE T == {u \in Seq(X) : Only(Only(u, S1), S2) = Only(u, S1 \cap S2)}
<1>1. <<>> \in T
  <2>1. <<>> \in Seq(X)
    OBVIOUS
  <2> QED BY <2>1, OnlyOfEmpty
<1>2. ASSUME NEW u \in Seq(X), NEW x \in X, u \in T
      PROVE  Append(u, x) \in T
  <2>1. Only(u, S1) \in Seq(X) /\ Append(u, x) \in Seq(X)
    BY OnlyInSeq
  <2>2. \A R : Only(Append(u, x), R) = IF x \in R THEN Append(Only(u, R), x)
                                       ELSE Only(u, R)
    BY OnlyOfAppend
  <2>3. Only(Append(Only(u, S1), x), S2) =
          IF x \in S2 THEN Append(Only(Only(u, S1), S2), x)
          ELSE Only(Only(u, S1), S2)
    BY <2>1, OnlyOfAppend
  <2>4. Only(Only(u, S1), S2) = Only(u, S1 \cap S2)
    BY <1>2
  <2>5. CASE x \in S1
    <3>1. Only(Append(u, x), S1) = Append(Only(u, S1), x)
      BY <2>2, <2>5
    <3>2. Only(Append(u, x), S1 \cap S2) =
            IF x \in S2 THEN Append(Only(u, S1 \cap S2), x)
            ELSE Only(u, S1 \cap S2)
      <4>1. Only(Append(u, x), S1 \cap S2) =
              IF x \in S1 \cap S2 THEN Append(Only(u, S1 \cap S2), x)
              ELSE Only(u, S1 \cap S2)
        BY <2>2
      <4> QED BY <4>1, <2>5
    <3> QED BY <3>1, <3>2, <2>1, <2>3, <2>4
  <2>6. CASE x \notin S1
    <3>1. Only(Append(u, x), S1) = Only(u, S1)
      BY <2>2, <2>6
    <3>2. Only(Append(u, x), S1 \cap S2) = Only(u, S1 \cap S2)
      <4>1. Only(Append(u, x), S1 \cap S2) =
              IF x \in S1 \cap S2 THEN Append(Only(u, S1 \cap S2), x)
              ELSE Only(u, S1 \cap S2)
        BY <2>2
      <4> QED BY <4>1, <2>6
    <3> QED BY <3>1, <3>2, <2>1, <2>4
  <2> QED BY <2>5, <2>6
<1>3. Seq(X) \subseteq T
  <2> HIDE DEF T
  <2> QED BY <1>1, <1>2, SequenceInduction
<1> QED BY <1>3

\* One element is kept exactly if there is one index of a kept element.
HasOneIn(s, D, S) == \E n \in D : \A m \in D : s[m] \in S <=> m = n
HasOne(s, S) == HasOneIn(s, DOMAIN s, S)

LEMMA OneIsKept ==
  ASSUME NEW X, NEW s \in Seq(X), NEW S
  PROVE  /\ Len(Only(s, S)) = 1 <=> HasOne(s, S)
         /\ Len(Only(s, S)) = 1 =>
              \E n \in DOMAIN s : s[n] \in S /\ s[n] = Only(s, S)[1]
<1> DEFINE Same(u) == Len(Only(u, S)) = 1 <=> HasOne(u, S)
           T == {u \in Seq(X) : Same(u)}
<1>1. <<>> \in T
  <2>1. Only(<<>>, S) = <<>> /\ <<>> \in Seq(X)
    BY OnlyOfEmpty
  <2>2. Len(Only(<<>>, S)) # 1
    BY <2>1
  <2>3. ~HasOne(<<>>, S)
    BY DEF HasOne, HasOneIn
  <2> QED BY <2>1, <2>2, <2>3
<1>2. ASSUME NEW u \in Seq(X), NEW x \in X, u \in T
      PROVE  Append(u, x) \in T
  <2> DEFINE v == Append(u, x)
             N == Len(u)
  <2>1. /\ N \in Nat /\ DOMAIN u = 1..N /\ v \in Seq(X) /\ DOMAIN v = 1..(N + 1)
        /\ v[N + 1] = x /\ \A m \in 1..N : v[m] = u[m]
    OBVIOUS
  <2>2. Only(v, S) = IF x \in S THEN Append(Only(u, S), x) ELSE Only(u, S)
    BY OnlyOfAppend
  <2>3. Only(u, S) \in Seq(X) /\ ToSet(Only(u, S)) = ToSet(u) \cap S
    BY OnlyInSeq, OnlyElements
  <2>4. Same(u)
    BY <1>2
  <2> HIDE DEF v, N
  <2>5. \A m \in 1..(N + 1) : m \in 1..N \/ m = N + 1
    BY <2>1
  <2>6. \A m \in 1..N : m # N + 1 /\ m \in 1..(N + 1)
    BY <2>1
  <2>7. HasOne(v, S) <=> HasOneIn(v, 1..(N + 1), S)
    <3>1. DOMAIN v = 1..(N + 1)
      BY <2>1
    <3> QED BY <3>1, Zenon DEF HasOne
  <2>8. CASE x \notin S
    <3>1. Len(Only(v, S)) = 1 <=> HasOne(u, S)
      BY <2>2, <2>4, <2>8
    <3>2. ASSUME HasOne(u, S) PROVE HasOne(v, S)
      <4> HasOneIn(u, 1..N, S)
        BY <2>1, <3>2, Zenon DEF HasOne
      <4>1. PICK n \in 1..N : \A m \in 1..N : u[m] \in S <=> m = n
        BY DEF HasOneIn
      <4>2. v[N + 1] \notin S /\ n # N + 1 /\ n \in 1..(N + 1)
        BY <2>1, <2>6, <2>8
      <4>3. ASSUME NEW m \in 1..(N + 1) PROVE v[m] \in S <=> m = n
        <5>1. CASE m = N + 1
          BY <4>2, <5>1
        <5>2. CASE m \in 1..N
          BY <2>1, <4>1, <5>2
        <5> QED BY <2>5, <5>1, <5>2
      <4> QED BY <2>7, <4>2, <4>3 DEF HasOneIn
    <3>3. ASSUME HasOne(v, S) PROVE HasOne(u, S)
      <4>1. PICK n \in 1..(N + 1) : \A m \in 1..(N + 1) : v[m] \in S <=> m = n
        BY <2>7, <3>3 DEF HasOneIn
      <4>2. n \in 1..N
        <5>1. v[N + 1] \notin S /\ N + 1 \in 1..(N + 1)
          BY <2>1, <2>8
        <5> QED BY <2>5, <4>1, <5>1
      <4>3. ASSUME NEW m \in 1..N PROVE u[m] \in S <=> m = n
        <5>1. m \in 1..(N + 1) /\ v[m] = u[m]
          BY <2>1, <2>6
        <5> QED BY <4>1, <5>1
      <4>4. HasOneIn(u, 1..N, S)
        BY <4>2, <4>3, Zenon DEF HasOneIn
      <4> QED BY <2>1, <4>4, Zenon DEF HasOne
    <3> QED BY <2>1, <3>1, <3>2, <3>3 DEF v
  <2>9. CASE x \in S
    <3>1. Len(Only(v, S)) = 1 <=> Only(u, S) = <<>>
      <4>1. Len(Only(v, S)) = Len(Only(u, S)) + 1
        BY <2>2, <2>3, <2>9, AppendIs
      <4>2. \A w \in Seq(X) : Len(w) = 0 <=> w = <<>>
        OBVIOUS
      <4>3. Len(Only(u, S)) \in Nat
        BY <2>3
      <4>4. Len(Only(v, S)) = 1 <=> Len(Only(u, S)) = 0
        BY <4>1, <4>3
      <4> QED BY <2>3, <4>2, <4>4
    <3>2. Only(u, S) = <<>> <=> \A m \in 1..N : u[m] \notin S
      <4>1. ToSet(u) = {u[m] : m \in 1..N}
        BY <2>1 DEF ToSet
      <4>2. ASSUME Only(u, S) = <<>> PROVE ToSet(u) \cap S = {}
        <5>1. ToSet(<<>>) = {}
          BY DEF ToSet
        <5> QED BY <2>3, <4>2, <5>1
      <4>3. ToSet(u) \cap S = {} => Only(u, S) = <<>>
        BY OnlyOfNone
      <4> QED BY <4>1, <4>2, <4>3
    <3>3. HasOne(v, S) <=> \A m \in 1..N : u[m] \notin S
      <4>1. N + 1 \in 1..(N + 1) /\ v[N + 1] \in S
        BY <2>1, <2>9
      <4>2. ASSUME HasOne(v, S), NEW m \in 1..N PROVE u[m] \notin S
        <5>1. PICK n \in 1..(N + 1) : \A k \in 1..(N + 1) : v[k] \in S <=> k = n
          BY <2>7, <4>2 DEF HasOneIn
        <5>2. n = N + 1
          BY <4>1, <5>1
        <5> QED BY <2>1, <2>6, <5>1, <5>2
      <4>3. ASSUME \A m \in 1..N : u[m] \notin S PROVE HasOne(v, S)
        <5>1. \A m \in 1..(N + 1) : v[m] \in S <=> m = N + 1
          BY <2>1, <2>5, <2>6, <4>1, <4>3
        <5> QED BY <2>7, <4>1, <5>1 DEF HasOneIn
      <4> QED BY <4>2, <4>3
    <3> QED BY <2>1, <3>1, <3>2, <3>3 DEF v
  <2> QED BY <2>8, <2>9
<1>3. Seq(X) \subseteq T
  <2> HIDE DEF T
  <2> QED BY <1>1, <1>2, SequenceInduction
<1>4. ASSUME Len(Only(s, S)) = 1
      PROVE  \E n \in DOMAIN s : s[n] \in S /\ s[n] = Only(s, S)[1]
  <2>1. Only(s, S) \in Seq(X) /\ ToSet(Only(s, S)) = ToSet(s) \cap S
    BY OnlyInSeq, OnlyElements
  <2>2. Only(s, S)[1] \in ToSet(Only(s, S))
    <3>1. \A w \in Seq(X) : Len(w) = 1 => w[1] \in ToSet(w)
      BY DEF ToSet
    <3> QED BY <1>4, <2>1, <3>1
  <2>3. Only(s, S)[1] \in ToSet(s) /\ Only(s, S)[1] \in S
    BY <2>1, <2>2
  <2> QED BY <2>3 DEF ToSet
<1> QED BY <1>3, <1>4

-----------------------------------------------------------------------------

\* f is the function SumOf is defined with.
IsSum(f, numbers, k) ==
  /\ f \in [0..k -> Nat]
  /\ f[0] = 0
  /\ \A n \in 1..k : f[n] = f[n - 1] + numbers[n]
  /\ SumOf(numbers, k) = f[k]

LEMMA SumOfFunction ==
  ASSUME NEW k \in Nat, NEW numbers, \A n \in 1..k : numbers[n] \in Nat
  PROVE  \E f : IsSum(f, numbers, k)
<1> DEFINE step == [n \in 1..k |-> [q \in Nat |-> q + numbers[n]]]
           Body(f, n) == IF n = 0 THEN 0 ELSE f[n - 1] + numbers[n]
           sum == CHOOSE f : f = [n \in 0..k |-> Body(f, n)]
<1>1. step \in [1..k -> [Nat -> Nat]]
  OBVIOUS
<1>2. PICK f : IsRecursive(f, k, Nat, 0, step)
  <2> HIDE DEF step
  <2> QED BY <1>1, Recursion
<1>3. ASSUME NEW n \in 1..k
      PROVE  f[n] = f[n - 1] + numbers[n]
  <2>1. f[n - 1] \in Nat
    BY <1>2 DEF IsRecursive
  <2>2. step[n][f[n - 1]] = f[n - 1] + numbers[n]
    BY <2>1
  <2> QED BY <1>2, <2>2 DEF IsRecursive
<1>4. \A n \in 0..k : n = 0 \/ n \in 1..k
  OBVIOUS
<1>5. f = [n \in 0..k |-> Body(f, n)]
  <2>1. \A n \in 0..k : f[n] = Body(f, n)
    BY <1>2, <1>3, <1>4 DEF IsRecursive
  <2>2. f = [n \in 0..k |-> f[n]]
    BY <1>2 DEF IsRecursive
  <2> QED BY <2>1, <2>2, Zenon
<1>6. sum = [n \in 0..k |-> Body(sum, n)]
  BY <1>5, Zenon
<1> HIDE DEF sum
<1>7. \A n \in 0..k : sum[n] = Body(sum, n)
  BY <1>6, Zenon
<1>8. \A n \in 1..k : sum[n] = sum[n - 1] + numbers[n]
  BY <1>7
<1>9. sum[0] = 0
  BY <1>7
<1>10. sum \in [0..k -> Nat]
  <2> DEFINE T == {n \in 0..k : sum[n] \in Nat}
  <2>1. 0 \in T
    BY <1>9
  <2>2. ASSUME NEW n \in 1..k, n - 1 \in T
        PROVE  n \in T
    BY <2>2, <1>8
  <2>3. 0..k \subseteq T
    <3> HIDE DEF T
    <3> QED BY <2>1, <2>2, BoundedInduction
  <2>4. \A n \in 0..k : sum[n] \in Nat
    BY <2>3
  <2>5. sum = [n \in 0..k |-> sum[n]]
    BY <1>6, Zenon
  <2> QED BY <2>4, <2>5, Zenon
<1>11. SumOf(numbers, k) = sum[k]
  BY DEF SumOf, sum
<1> QED BY <1>8, <1>9, <1>10, <1>11 DEF IsSum

(* No number at all, one more number, and more numbers. *)
LEMMA SumOfNone == \A numbers : SumOf(numbers, 0) = 0
<1> TAKE numbers
<1>1. PICK f : IsSum(f, numbers, 0)
  BY SumOfFunction
<1> QED BY <1>1 DEF IsSum

LEMMA SumOfNext ==
  ASSUME NEW k \in Nat, NEW numbers, \A n \in 1..(k + 1) : numbers[n] \in Nat
  PROVE  SumOf(numbers, k + 1) = SumOf(numbers, k) + numbers[k + 1]
<1>1. PICK f : IsSum(f, numbers, k)
  BY SumOfFunction
<1>2. PICK g : IsSum(g, numbers, k + 1)
  BY SumOfFunction
<1> DEFINE T == {n \in 0..k : f[n] = g[n]}
<1>3. 0 \in T
  BY <1>1, <1>2 DEF IsSum
<1>4. ASSUME NEW n \in 1..k, n - 1 \in T
      PROVE  n \in T
  BY <1>1, <1>2, <1>4 DEF IsSum
<1>5. 0..k \subseteq T
  <2> HIDE DEF T
  <2> QED BY <1>3, <1>4, BoundedInduction
<1>6. f[k] = g[k]
  BY <1>5
<1> QED BY <1>1, <1>2, <1>6 DEF IsSum

LEMMA SumOfNat ==
  ASSUME NEW k \in Nat, NEW numbers, \A n \in 1..k : numbers[n] \in Nat
  PROVE  SumOf(numbers, k) \in Nat
<1>1. PICK f : IsSum(f, numbers, k)
  BY SumOfFunction
<1> QED BY <1>1 DEF IsSum

LEMMA SumOfGrows ==
  ASSUME NEW k \in Nat, NEW numbers, \A n \in 1..k : numbers[n] \in Nat,
         NEW j \in 0..k
  PROVE  SumOf(numbers, j) =< SumOf(numbers, k)
<1> DEFINE T == {n \in 0..(k - j) :
                   SumOf(numbers, j) =< SumOf(numbers, j + n)}
<1>1. 0 \in T
  <2>1. SumOf(numbers, j) \in Nat
    BY SumOfNat
  <2> QED BY <2>1
<1>2. ASSUME NEW n \in 1..(k - j), n - 1 \in T
      PROVE  n \in T
  <2> DEFINE m == j + n - 1
  <2>1. m \in Nat /\ m + 1 = j + n /\ m + 1 \in 1..k /\ m = j + (n - 1)
    OBVIOUS
  <2> HIDE DEF m
  <2>2. /\ SumOf(numbers, m) \in Nat /\ SumOf(numbers, j) \in Nat
        /\ numbers[m + 1] \in Nat
    BY <2>1, SumOfNat
  <2>3. SumOf(numbers, m + 1) = SumOf(numbers, m) + numbers[m + 1]
    BY <2>1, SumOfNext
  <2>4. SumOf(numbers, j) =< SumOf(numbers, m)
    BY <1>2, <2>1
  <2> QED BY <2>1, <2>2, <2>3, <2>4
<1>3. 0..(k - j) \subseteq T
  <2> HIDE DEF T
  <2> QED BY <1>1, <1>2, BoundedInduction
<1>4. k - j \in T
  <2> HIDE DEF T
  <2> QED BY <1>3
<1> QED BY <1>4

-----------------------------------------------------------------------------

\* f has what FlattenSeq makes of the first n sequences.
IsFlat(f, X, seqs) ==
  /\ f \in [0..Len(seqs) -> Seq(X)]
  /\ f[0] = <<>>
  /\ \A n \in 1..Len(seqs) : f[n] = f[n - 1] \o seqs[n]
  /\ FlattenSeq(seqs) = f[Len(seqs)]

LEMMA FlatFunction ==
  ASSUME NEW X, NEW seqs \in Seq(Seq(X)), seqs # <<>>
  PROVE  \E f : IsFlat(f, X, seqs)
<1> DEFINE N == Len(seqs)
           Q == Seq(X)
           step == [n \in 1..N |-> [q \in Q |-> q \o seqs[n]]]
           Body(f, n) == IF n = 1 THEN seqs[n] ELSE f[n - 1] \o seqs[n]
           flatten == CHOOSE f : f = [n \in 1..N |-> Body(f, n)]
<1>1. /\ N \in Nat \ {0} /\ <<>> \in Q
      /\ \A n \in 1..N : seqs[n] \in Q
      /\ \A q, r \in Q : q \o r \in Q
      /\ \A q \in Q : <<>> \o q = q
  OBVIOUS
<1> HIDE DEF N, Q
<1>2. step \in [1..N -> [Q -> Q]]
  BY <1>1
<1>3. PICK g : IsRecursive(g, N, Q, <<>>, step)
  <2> HIDE DEF step
  <2> QED BY <1>1, <1>2, Recursion
<1>4. ASSUME NEW n \in 1..N
      PROVE  g[n] \in Q /\ g[n] = g[n - 1] \o seqs[n]
  <2>1. g[n - 1] \in Q /\ g[n] \in Q
    BY <1>1, <1>3 DEF IsRecursive
  <2>2. step[n][g[n - 1]] = g[n - 1] \o seqs[n]
    BY <2>1
  <2> QED BY <1>3, <2>1, <2>2 DEF IsRecursive
<1>14. g[1] = seqs[1]
  <2>1. 1 \in 1..N /\ 1 - 1 = 0
    BY <1>1
  <2>2. g[1] = g[1 - 1] \o seqs[1]
    BY <1>4, <2>1, Zenon
  <2>3. g[0] = <<>>
    BY <1>3 DEF IsRecursive
  <2>4. g[1] = <<>> \o seqs[1]
    BY <2>1, <2>2, <2>3
  <2>5. <<>> \o seqs[1] = seqs[1]
    BY <1>1, <2>1, Zenon
  <2> QED BY <2>4, <2>5
<1> DEFINE h == [n \in 1..N |-> g[n]]
<1>5. h = [n \in 1..N |-> Body(h, n)]
  <2>1. ASSUME NEW n \in 1..N PROVE g[n] = Body(h, n)
    <3>1. CASE n = 1
      <4> HIDE DEF h
      <4> QED BY <3>1, <1>14
    <3>2. CASE n # 1
      <4>1. n - 1 \in 1..N
        BY <3>2, <1>1
      <4>2. h[n - 1] = g[n - 1]
        BY <4>1
      <4> HIDE DEF h
      <4> QED BY <3>2, <4>2, <1>4
    <3> QED BY <3>1, <3>2
  <2> QED BY <2>1, Zenon
<1> HIDE DEF h
<1>6. flatten = [n \in 1..N |-> Body(flatten, n)]
  BY <1>5, Zenon
<1> HIDE DEF flatten
<1>7. \A n \in 1..N : flatten[n] = Body(flatten, n)
  BY <1>6, Zenon
<1>8. \A n \in 2..N : flatten[n] = flatten[n - 1] \o seqs[n]
  <2>1. \A n \in 2..N : n # 1 /\ n \in 1..N
    BY <1>1
  <2> QED BY <1>7, <2>1
<1>9. flatten[1] = seqs[1]
  <2>1. 1 \in 1..N
    BY <1>1
  <2> QED BY <1>7, <2>1
<1>10. \A n \in 1..N : flatten[n] = g[n]
  <2> DEFINE T == {n \in 0..N : n # 0 => flatten[n] = g[n]}
  <2>1. 0 \in T
    BY <1>1
  <2>2. ASSUME NEW n \in 1..N, n - 1 \in T
        PROVE  n \in T
    <3>1. CASE n = 1
      BY <3>1, <1>9, <1>14
    <3>2. CASE n # 1
      <4>1. n - 1 \in 0..N /\ n - 1 # 0 /\ n \in 2..N
        BY <3>2, <1>1
      <4>2. flatten[n - 1] = g[n - 1]
        BY <2>2, <4>1
      <4>3. flatten[n] = g[n]
        <5>1. g[n] = g[n - 1] \o seqs[n] /\ flatten[n] = flatten[n - 1] \o seqs[n]
          BY <4>1, <1>4, <1>8, Zenon
        <5> QED BY <5>1, <4>2, Zenon
      <4> QED BY <4>3
    <3> QED BY <3>1, <3>2
  <2>3. 0..N \subseteq T
    <3> HIDE DEF T
    <3> QED BY <1>1, <2>1, <2>2, BoundedInduction
  <2>4. ASSUME NEW n \in 1..N PROVE n \in T /\ n # 0
    <3> HIDE DEF T
    <3> QED BY <2>3, <1>1
  <2> QED BY <2>4
<1>11. FlattenSeq(seqs) = flatten[N]
  BY <1>1 DEF FlattenSeq, flatten, N
<1>12. FlattenSeq(seqs) = g[N]
  BY <1>1, <1>10, <1>11
<1>13. g \in [0..N -> Q] /\ g[0] = <<>>
  BY <1>3 DEF IsRecursive
<1>15. IsFlat(g, X, seqs)
  BY <1>4, <1>12, <1>13 DEF N, Q, IsFlat
<1> QED BY <1>15
=============================================================================
