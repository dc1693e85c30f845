------------------------------ MODULE ListFacts ------------------------------
(***************************************************************************)
(* Facts about the lists of the drivers, for the proofs: what is on a list *)
(* after list_add_tail, after the first entry or one in the middle was     *)
(* taken off it, and how many entries a list without repetitions has; and  *)
(* about numbers and recursion.                                            *)
(***************************************************************************)
EXTENDS Integers, Sequences, FiniteSets, SequencesExt, SequenceTheorems,
        FiniteSetTheorems, WellFoundedInduction, TLAPS

\* An entry of a list, and one at its place.
LEMMA ListEntries ==
  ASSUME NEW S, NEW s \in Seq(S)
  PROVE  /\ ToSet(s) \subseteq S
         /\ Len(s) \in Nat /\ DOMAIN s = 1 .. Len(s)
         /\ \A i \in 1 .. Len(s) : s[i] \in ToSet(s) /\ s[i] \in S
         /\ \A x \in ToSet(s) : \E i \in 1 .. Len(s) : s[i] = x
         /\ s = << >> <=> Len(s) = 0
         /\ s = << >> <=> ToSet(s) = {}
<1>1. Len(s) \in Nat /\ DOMAIN s = 1 .. Len(s)
      /\ \A i \in 1 .. Len(s) : s[i] \in S
  OBVIOUS
<1>2. ToSet(s) = {s[i] : i \in 1 .. Len(s)}
  BY <1>1 DEF ToSet
<1>3. s = << >> <=> Len(s) = 0
  OBVIOUS
<1>4. Len(s) # 0 => s[1] \in ToSet(s)
  BY <1>1, <1>2
<1>5. Len(s) = 0 => ToSet(s) = {}
  BY <1>2
<1> QED
  BY <1>1, <1>2, <1>3, <1>4, <1>5

\* The empty list.
LEMMA ListEmpty ==
  /\ \A S : << >> \in Seq(S)
  /\ ToSet(<< >>) = {} /\ IsInjective(<< >>) /\ Len(<< >>) = 0
BY DEF ToSet, IsInjective

\* list_add_tail.
LEMMA ListAppend ==
  ASSUME NEW S, NEW s \in Seq(S), NEW x \in S
  PROVE  /\ Append(s, x) \in Seq(S) /\ Append(s, x) # << >>
         /\ Len(Append(s, x)) = Len(s) + 1
         /\ ToSet(Append(s, x)) = ToSet(s) \cup {x}
         /\ IsInjective(s) /\ x \notin ToSet(s) => IsInjective(Append(s, x))
<1> DEFINE t == Append(s, x)
<1>1. /\ t \in Seq(S) /\ Len(t) = Len(s) + 1 /\ Len(s) \in Nat
      /\ DOMAIN s = 1 .. Len(s) /\ DOMAIN t = 1 .. Len(s) + 1
      /\ \A i \in 1 .. Len(s) : t[i] = s[i]
      /\ t[Len(s) + 1] = x
  OBVIOUS
<1> HIDE DEF t
<1>2. ToSet(t) = ToSet(s) \cup {x}
  BY <1>1 DEF ToSet
<1>3. ASSUME IsInjective(s), x \notin ToSet(s) PROVE IsInjective(t)
  <2>1. \A i \in 1 .. Len(s) : t[i] # x
    BY <1>1, <1>3 DEF ToSet
  <2> QED
    BY <1>1, <1>3, <2>1 DEF IsInjective
<1>4. t # << >>
  BY <1>1
<1> QED
  BY <1>1, <1>2, <1>3, <1>4 DEF t

\* list_del of the first entry.
LEMMA ListTail ==
  ASSUME NEW S, NEW s \in Seq(S), s # << >>
  PROVE  /\ Tail(s) \in Seq(S) /\ Len(Tail(s)) = Len(s) - 1
         /\ Head(s) = s[1] /\ Head(s) \in S /\ Head(s) \in ToSet(s)
         /\ ToSet(s) = ToSet(Tail(s)) \cup {Head(s)}
         /\ IsInjective(s) => /\ IsInjective(Tail(s))
                              /\ ToSet(Tail(s)) = ToSet(s) \ {Head(s)}
<1> DEFINE t == Tail(s)
<1>1. /\ t \in Seq(S) /\ Len(t) = Len(s) - 1 /\ Len(s) \in Nat \ {0}
      /\ DOMAIN s = 1 .. Len(s) /\ DOMAIN t = 1 .. Len(s) - 1
      /\ \A i \in 1 .. Len(s) - 1 : t[i] = s[i + 1]
      /\ Head(s) = s[1] /\ s[1] \in S
  OBVIOUS
<1> HIDE DEF t
<1>2. \A i \in 2 .. Len(s) : i - 1 \in 1 .. Len(s) - 1 /\ t[i - 1] = s[i]
  BY <1>1
<1>3. ToSet(s) = ToSet(t) \cup {s[1]}
  <2>1. \A x \in ToSet(s) : x \in ToSet(t) \cup {s[1]}
    <3> SUFFICES ASSUME NEW i \in 1 .. Len(s)
                 PROVE  s[i] \in ToSet(t) \cup {s[1]}
      BY <1>1 DEF ToSet
    <3>1. CASE i = 1
      BY <3>1
    <3>2. CASE i # 1
      <4>1. i - 1 \in DOMAIN t /\ t[i - 1] = s[i]
        BY <1>1, <1>2, <3>2
      <4> QED
        BY <4>1 DEF ToSet
    <3> QED
      BY <3>1, <3>2
  <2>2. \A x \in ToSet(t) : x \in ToSet(s)
    BY <1>1 DEF ToSet
  <2>3. s[1] \in ToSet(s)
    BY <1>1 DEF ToSet
  <2> QED
    BY <2>1, <2>2, <2>3
<1>4. ASSUME IsInjective(s)
      PROVE  IsInjective(t) /\ ToSet(t) = ToSet(s) \ {s[1]}
  <2>1. \A i \in 1 .. Len(s) - 1 : t[i] # s[1]
    BY <1>1, <1>4 DEF IsInjective
  <2>2. s[1] \notin ToSet(t)
    BY <1>1, <2>1 DEF ToSet
  <2>3. IsInjective(t)
    BY <1>1, <1>4 DEF IsInjective
  <2> QED
    BY <1>3, <2>2, <2>3
<1> QED
  BY <1>1, <1>3, <1>4 DEF t

\* list_del of any entry.
LEMMA ListRemove ==
  ASSUME NEW S, NEW s \in Seq(S), IsInjective(s), NEW i \in 1 .. Len(s)
  PROVE  /\ RemoveAt(s, i) \in Seq(S) /\ Len(RemoveAt(s, i)) = Len(s) - 1
         /\ ToSet(RemoveAt(s, i)) = ToSet(s) \ {s[i]}
         /\ IsInjective(RemoveAt(s, i))
<1> DEFINE t == RemoveAt(s, i)
           a == SubSeq(s, 1, i - 1)
           b == SubSeq(s, i + 1, Len(s))
           n == Len(s)
<1>1. n \in Nat /\ DOMAIN s = 1 .. n /\ s \in [1 .. n -> S]
  OBVIOUS
<1>2. a \in Seq(S) /\ Len(a) = i - 1 /\ \A j \in 1 .. i - 1 : a[j] = s[j]
  <2>1. \A j \in 1 .. i - 1 : s[j] \in S
    BY <1>1
  <2> QED
    BY <1>1, <2>1, SubSeqProperties
<1>3. b \in Seq(S) /\ Len(b) = n - i /\ \A j \in 1 .. n - i : b[j] = s[i + j]
  <2>1. \A j \in i + 1 .. n : s[j] \in S
    BY <1>1
  <2>2. /\ b \in Seq(S) /\ Len(b) = IF i + 1 <= n THEN n - (i + 1) + 1 ELSE 0
        /\ \A j \in 1 .. n - (i + 1) + 1 : b[j] = s[i + 1 + j - 1]
    BY <1>1, <2>1, SubSeqProperties
  <2>3. n - (i + 1) + 1 = n - i /\ \A j \in 1 .. n - i : i + 1 + j - 1 = i + j
    BY <1>1
  <2> HIDE DEF b
  <2>4. Len(b) = n - i
    <3>1. CASE i = n
      BY <1>1, <2>2, <3>1
    <3>2. CASE i + 1 <= n
      BY <1>1, <2>2, <2>3, <3>2
    <3>3. i = n \/ i + 1 <= n
      <4>1. n \in Int /\ i \in Int /\ i <= n
        BY <1>1
      <4> HIDE DEF n
      <4> QED
        BY <4>1
    <3> QED
      BY <3>1, <3>2, <3>3
  <2> QED
    BY <2>2, <2>3, <2>4
<1>4. t = a \o b
  BY DEF RemoveAt
<1> HIDE DEF a, b, t
<1>5. /\ t \in Seq(S) /\ Len(t) = n - 1
      /\ \A j \in 1 .. n - 1 : t[j] = IF j <= i - 1 THEN a[j]
           ELSE b[j - (i - 1)]
  <2>1. (i - 1) + (n - i) = n - 1
    BY <1>1
  <2>2. /\ t \in Seq(S) /\ Len(t) = Len(a) + Len(b)
        /\ \A j \in 1 .. Len(a) + Len(b) :
             t[j] = IF j <= Len(a) THEN a[j] ELSE b[j - Len(a)]
    BY <1>2, <1>3, <1>4, ConcatProperties
  <2> QED
    BY <1>2, <1>3, <2>1, <2>2
<1>6. \A j \in 1 .. n - 1 : t[j] = IF j < i THEN s[j] ELSE s[j + 1]
  <2> SUFFICES ASSUME NEW j \in 1 .. n - 1
      PROVE t[j] = IF j < i THEN s[j] ELSE s[j + 1]
    OBVIOUS
  <2>1. CASE j < i
    <3>1. j \in 1 .. i - 1 /\ j <= i - 1
      BY <1>1, <2>1
    <3> QED
      BY <1>2, <1>5, <2>1, <3>1
  <2>2. CASE ~(j < i)
    <3>1. j - (i - 1) \in 1 .. n - i /\ i + (j - (i - 1)) = j + 1
      BY <1>1, <2>2
    <3>2. t[j] = b[j - (i - 1)]
      BY <1>1, <1>5, <2>2
    <3> QED
      BY <1>3, <2>2, <3>1, <3>2
  <2> QED
    BY <2>1, <2>2
<1>7. DOMAIN t = 1 .. n - 1
  BY <1>1, <1>5
<1>8. \A j \in 1 .. n : j # i => \E k \in 1 .. n - 1 : t[k] = s[j]
  <2> SUFFICES ASSUME NEW j \in 1 .. n, j # i
      PROVE \E k \in 1 .. n - 1 : t[k] = s[j]
    OBVIOUS
  <2>1. CASE j < i
    BY <1>1, <1>6, <2>1
  <2>2. CASE j > i
    <3>1. j - 1 \in 1 .. n - 1 /\ ~(j - 1 < i) /\ (j - 1) + 1 = j
      BY <1>1, <2>2
    <3> QED
      BY <1>6, <3>1
  <2> QED
    BY <1>1, <2>1, <2>2
<1>9. \A k \in 1 .. n - 1 : \E j \in 1 .. n : j # i /\ t[k] = s[j]
  <2> SUFFICES ASSUME NEW k \in 1 .. n - 1
      PROVE \E j \in 1 .. n : j # i /\ t[k] = s[j]
    OBVIOUS
  <2>1. CASE k < i
    BY <1>1, <1>6, <2>1
  <2>2. CASE ~(k < i)
    <3>1. k + 1 \in 1 .. n /\ k + 1 # i
      BY <1>1, <2>2
    <3> QED
      BY <1>6, <2>2, <3>1
  <2> QED
    BY <2>1, <2>2
<1>10. ToSet(t) = ToSet(s) \ {s[i]}
  BY <1>1, <1>7, <1>8, <1>9 DEF ToSet, IsInjective
<1>11. IsInjective(t)
  <2> SUFFICES ASSUME NEW j \in 1 .. n - 1, NEW k \in 1 .. n - 1, t[j] = t[k]
      PROVE j = k
    BY <1>7 DEF IsInjective
  <2> DEFINE jj == IF j < i THEN j ELSE j + 1
             kk == IF k < i THEN k ELSE k + 1
  <2>1. jj \in 1 .. n /\ kk \in 1 .. n
    BY <1>1
  <2>2. s[jj] = s[kk]
    BY <1>6
  <2>3. jj = kk
    BY <1>1, <2>1, <2>2 DEF IsInjective
  <2> QED
    BY <1>1, <2>3
<1> QED
  BY <1>5, <1>10, <1>11 DEF t

\* A list without repetitions has as many entries as it is long.
LEMMA ListCount ==
  ASSUME NEW S, NEW s \in Seq(S), IsInjective(s)
  PROVE  IsFiniteSet(ToSet(s)) /\ Cardinality(ToSet(s)) = Len(s)
<1>1. Len(s) \in Nat /\ DOMAIN s = 1 .. Len(s)
      /\ s \in [1 .. Len(s) -> ToSet(s)]
  BY DEF ToSet
<1>2. s \in Bijection(1 .. Len(s), ToSet(s))
  BY <1>1 DEF Bijection, Injection, Surjection, IsInjective, ToSet
<1>3. ExistsBijection(1 .. Len(s), ToSet(s))
  BY <1>2 DEF ExistsBijection
<1>4. IsFiniteSet(1 .. Len(s)) /\ Cardinality(1 .. Len(s)) = Len(s)
  BY <1>1, FS_Interval
<1> QED
  BY <1>3, <1>4, FS_Bijection

\* Disjoint sets count separately.
LEMMA CountDisjoint ==
  ASSUME NEW A, NEW B, IsFiniteSet(A), IsFiniteSet(B), A \cap B = {}
  PROVE  /\ IsFiniteSet(A \cup B)
         /\ Cardinality(A \cup B) = Cardinality(A) + Cardinality(B)
<1>1. Cardinality(A \cap B) = 0
  BY FS_EmptySet
<1> QED
  BY <1>1, FS_Union, FS_CardinalityType

-----------------------------------------------------------------------------
(* Numbers and recursion.  A property of all numbers follows from what its *)
(* least counterexample would be.                                          *)

\* A set of numbers that is not empty has a least one.
LEMMA LeastNumber ==
  ASSUME NEW S \in SUBSET Nat, S # {}
  PROVE  \E n \in S : \A m \in S : n <= m
<1>1. PICK n \in S : \A m \in S : ~ (<<m, n>> \in OpToRel(<, Nat))
  BY NatLessThanWellFounded, WFMin
<1>2. \A m \in S : ~ (m < n)
  BY <1>1 DEF OpToRel
<1> QED
  BY <1>2

\* And one that is bounded has a greatest one.
LEMMA GreatestNumber ==
  ASSUME NEW k \in Nat, NEW S \in SUBSET (0 .. k), S # {}
  PROVE  \E n \in S : \A m \in S : n >= m
<1> DEFINE T == {k - m : m \in S}
<1>1. T \in SUBSET Nat /\ T # {}
  <2>1. \A m \in S : k - m \in Nat
    OBVIOUS
  <2> QED
    BY <2>1
<1>2. PICK n \in T : \A m \in T : n <= m
  BY <1>1, LeastNumber
<1>3. PICK x \in S : n = k - x
  BY <1>2
<1>4. \A m \in S : k - x <= k - m
  BY <1>2, <1>3
<1> QED
  BY <1>4

\* What holds of 0, and of each number whose predecessor it holds of, holds of
\* all: a property is the set of those that have it.
LEMMA UpwardFromZero ==
  ASSUME NEW n \in Nat, NEW S, 0 \in S,
         \A i \in 1 .. n : i - 1 \in S => i \in S
  PROVE  0 .. n \subseteq S
<1> SUFFICES ASSUME (0 .. n) \ S # {} PROVE FALSE
  OBVIOUS
<1>1. PICK k \in (0 .. n) \ S : \A j \in (0 .. n) \ S : k <= j
  <2>1. (0 .. n) \ S \in SUBSET Nat
    OBVIOUS
  <2> QED
    BY <2>1, LeastNumber
<1>2. k \in 1 .. n /\ k - 1 \in 0 .. n /\ k - 1 \in S
  BY <1>1
<1> QED
  BY <1>1, <1>2

\* A recursion over the first n numbers defines a function: it begins with a,
\* and step says how it goes on.
LEMMA RecursionExists ==
  ASSUME NEW V, NEW a \in V, NEW n \in Nat, NEW step \in [1 .. n -> [V -> V]]
  PROVE  \E f \in [0 .. n -> V] :
           f[0] = a /\ \A i \in 1 .. n : f[i] = step[i][f[i - 1]]
<1> DEFINE Goes(k) == \E f \in [0 .. k -> V] :
             f[0] = a /\ \A i \in 1 .. k : f[i] = step[i][f[i - 1]]
           S == {k \in 0 .. n : Goes(k)}
<1>1. Goes(0)
  <2> DEFINE f == [i \in 0 .. 0 |-> a]
  <2>1. f \in [0 .. 0 -> V] /\ f[0] = a /\ 1 .. 0 = {}
    OBVIOUS
  <2> QED
    BY <2>1
<1>2. ASSUME NEW k \in 1 .. n, Goes(k - 1) PROVE Goes(k)
  <2>1. PICK f \in [0 .. k - 1 -> V] :
          f[0] = a /\ \A i \in 1 .. k - 1 : f[i] = step[i][f[i - 1]]
    BY <1>2
  <2> DEFINE g == [i \in 0 .. k |-> IF i = k THEN step[k][f[k - 1]] ELSE f[i]]
  <2>2. k - 1 \in 0 .. k - 1 /\ f[k - 1] \in V
    OBVIOUS
  <2>3. step[k][f[k - 1]] \in V
    BY <2>2
  <2>4. g \in [0 .. k -> V]
    BY <2>3
  <2>5. g[0] = a
    BY <2>1
  <2>6. ASSUME NEW i \in 1 .. k PROVE g[i] = step[i][g[i - 1]]
    <3>1. i - 1 \in 0 .. k - 1 /\ g[i - 1] = f[i - 1]
      OBVIOUS
    <3>2. CASE i = k
      <4>1. g[k] = step[k][f[k - 1]]
        OBVIOUS
      <4> HIDE DEF g
      <4> QED
        BY <3>1, <3>2, <4>1
    <3>3. CASE i # k
      BY <2>1, <3>1, <3>3
    <3> QED
      BY <3>2, <3>3
  <2> QED
    BY <2>4, <2>5, <2>6
<1> HIDE DEF Goes
<1>3. 0 \in S /\ \A k \in 1 .. n : k - 1 \in S => k \in S
  BY <1>1, <1>2
<1>4. n \in S
  <2> HIDE DEF S
  <2>1. 0 .. n \subseteq S
    BY <1>3, UpwardFromZero
  <2> QED
    BY <2>1
<1> QED
  BY <1>4 DEF Goes

\* Division with remainder, and what decides a remainder.
LEMMA Division ==
  ASSUME NEW a \in Nat, NEW n \in Nat \ {0}
  PROVE  /\ a \div n \in Nat /\ a % n \in 0 .. n - 1
         /\ a = (a \div n) * n + (a % n)
<1>1. a = n * (a \div n) + (a % n) /\ a % n \in 0 .. n - 1
  OBVIOUS
<1>2. a \div n \in Nat
  OBVIOUS
<1>3. \A q \in Nat : n * q = q * n
  OBVIOUS
<1> QED
  BY <1>1, <1>2, <1>3

\* A number of whole turns leaves the place in the ring.
LEMMA Remainder ==
  ASSUME NEW n \in Nat \ {0}, NEW q \in Nat, NEW r \in 0 .. n - 1
  PROVE  (q * n + r) % n = r
OBVIOUS

\* A place in a ring that is less than a turn ahead.
LEMMA WrappedOnce ==
  ASSUME NEW n \in Nat \ {0}
  PROVE  \A x \in 0 .. 2 * n - 1 : x % n = IF x < n THEN x ELSE x - n
<1> SUFFICES ASSUME NEW x \in 0 .. 2 * n - 1
    PROVE  x % n = IF x < n THEN x ELSE x - n
  OBVIOUS
<1>1. CASE x < n
  <2>1. (0 * n + x) % n = x
    BY <1>1, Remainder
  <2> QED
    BY <1>1, <2>1
<1>2. CASE x >= n
  <2> DEFINE r == x - n
  <2>1. r \in 0 .. n - 1 /\ 1 * n + r = x
    BY <1>2
  <2> HIDE DEF r
  <2>2. (1 * n + r) % n = r
    BY <2>1, Remainder
  <2> QED
    BY <1>2, <2>1, <2>2 DEF r
<1> QED
  BY <1>1, <1>2

\* Going on in two steps is going on by their sum.
LEMMA Onward ==
  ASSUME NEW n \in Nat \ {0}, NEW r \in 0 .. n - 1, NEW a \in 0 .. n,
         NEW b \in 0 .. n - a
  PROVE  /\ (r + a) % n \in 0 .. n - 1
         /\ (((r + a) % n) + b) % n = (r + (a + b)) % n
<1> DEFINE last == 2 * n - 1
<1>0. \A x \in 0 .. last : x % n = IF x < n THEN x ELSE x - n
  BY WrappedOnce
<1>1. (r + a) % n = IF r + a < n THEN r + a ELSE r + a - n
  <2>1. r + a \in 0 .. last
    OBVIOUS
  <2> QED
    BY <1>0, <2>1
<1>2. (r + (a + b)) % n = IF r + (a + b) < n THEN r + (a + b)
        ELSE r + (a + b) - n
  <2>1. r + (a + b) \in 0 .. last
    OBVIOUS
  <2> QED
    BY <1>0, <2>1
<1> DEFINE p == (r + a) % n
<1> HIDE DEF p
<1>3. p \in 0 .. n - 1 /\ p + b \in 0 .. last
  BY <1>1 DEF p
<1>4. (p + b) % n = IF p + b < n THEN p + b ELSE p + b - n
  BY <1>0, <1>3
<1>5. (p + b) % n = (r + (a + b)) % n
  BY <1>1, <1>2, <1>3, <1>4 DEF p
<1> QED
  BY <1>3, <1>5 DEF p

\* How far a place is from where a ring is written.
LEMMA Ahead ==
  ASSUME NEW n \in Nat \ {0}, NEW r \in 0 .. n - 1, NEW a \in 0 .. n,
         NEW k \in 0 .. n - 1
  PROVE  (((r + k) % n) + n - ((r + a) % n)) % n =
           IF k < a THEN k + n - a ELSE k - a
<1> DEFINE p == (r + k) % n
           w == (r + a) % n
           last == 2 * n - 1
<1>0. \A x \in 0 .. last : x % n = IF x < n THEN x ELSE x - n
  BY WrappedOnce
<1>1. p = IF r + k < n THEN r + k ELSE r + k - n
  <2>1. r + k \in 0 .. last
    OBVIOUS
  <2> QED
    BY <1>0, <2>1
<1>2. w = IF r + a < n THEN r + a ELSE r + a - n
  <2>1. r + a \in 0 .. last
    OBVIOUS
  <2> QED
    BY <1>0, <2>1
<1> HIDE DEF p, w
<1>3. p \in 0 .. n - 1 /\ w \in 0 .. n - 1
  BY <1>1, <1>2
<1>4. p + n - w \in 0 .. last
  BY <1>3
<1> DEFINE x == p + n - w
<1>5. x % n = IF x < n THEN x ELSE x - n
  <2> HIDE DEF x
  <2> QED
    BY <1>0, <1>4 DEF x
<1>6. x = IF k < a THEN (IF x < n THEN k + n - a ELSE k + n - a + n)
                   ELSE (IF x < n THEN k - a ELSE k - a + n)
  BY <1>1, <1>2
<1>7. x % n = IF k < a THEN k + n - a ELSE k - a
  <2>1. x \in 0 .. last
    BY <1>4
  <2>2. /\ k < a => k + n - a \in 0 .. n - 1
        /\ k >= a => k - a \in 0 .. n - 1
    OBVIOUS
  <2> HIDE DEF x
  <2> QED
    BY <1>5, <1>6, <2>1, <2>2
<1> QED
  BY <1>7 DEF p, w

\* Products with a positive number.
LEMMA Products ==
  ASSUME NEW a \in Int, NEW b \in Int, NEW n \in Nat \ {0}
  PROVE  /\ a * n \in Int /\ (a * n < b * n <=> a < b)
         /\ (a + 1) * n = a * n + n /\ (a - 1) * n = a * n - n
<1>1. a * n < b * n <=> a < b
  OBVIOUS
<1>2. (a + 1) * n = a * n + n /\ (a - 1) * n = a * n - n
  OBVIOUS
<1>3. a * n \in Int
  OBVIOUS
<1> QED
  BY <1>1, <1>2, <1>3

-----------------------------------------------------------------------------
\* What a stack becomes: its top is replaced, something is pushed, or its top
\* goes and what was below it is replaced.
TopIs(s, u, x) ==
  Len(u) = Len(s) /\ u[1] = x /\ \A i \in 2 .. Len(s) : u[i] = s[i]
Pushed(s, u, x) ==
  Len(u) = Len(s) + 1 /\ u[1] = x /\ \A i \in 1 .. Len(s) : u[i + 1] = s[i]
Popped(s, u, x) ==
  Len(u) = Len(s) - 1 /\ u[1] = x /\ \A i \in 3 .. Len(s) : u[i - 1] = s[i]

\* Something is pushed.
LEMMA StackPush ==
  ASSUME NEW S, NEW s \in Seq(S), NEW x \in S
  PROVE  <<x>> \o s \in Seq(S) /\ Pushed(s, <<x>> \o s, x)
<1> DEFINE u == <<x>> \o s
<1>1. Len(s) \in Nat /\ u \in Seq(S) /\ Len(u) = Len(s) + 1 /\ u[1] = x
  OBVIOUS
<1>2. \A i \in 1 .. Len(s) : u[i + 1] = s[i]
  OBVIOUS
<1> QED
  BY <1>1, <1>2 DEF Pushed

\* The top is replaced, in either way it is written.
LEMMA StackTop ==
  ASSUME NEW S, NEW s \in Seq(S), s # << >>, NEW x \in S
  PROVE  /\ [s EXCEPT ![1] = x] \in Seq(S) /\ TopIs(s, [s EXCEPT ![1] = x], x)
         /\ <<x>> \o Tail(s) \in Seq(S) /\ TopIs(s, <<x>> \o Tail(s), x)
<1>1. Len(s) \in Nat \ {0} /\ DOMAIN s = 1 .. Len(s)
  OBVIOUS
<1>2. [s EXCEPT ![1] = x] \in Seq(S) /\ TopIs(s, [s EXCEPT ![1] = x], x)
  <2> DEFINE u == [s EXCEPT ![1] = x]
  <2>1. u \in Seq(S) /\ Len(u) = Len(s)
    OBVIOUS
  <2>2. u[1] = x /\ \A i \in 2 .. Len(s) : u[i] = s[i]
    BY <1>1
  <2> QED
    BY <2>1, <2>2 DEF TopIs
<1>3. <<x>> \o Tail(s) \in Seq(S) /\ TopIs(s, <<x>> \o Tail(s), x)
  <2> DEFINE t == Tail(s)
             u == <<x>> \o t
  <2>1. t \in Seq(S) /\ Len(t) = Len(s) - 1
        /\ \A i \in 1 .. Len(s) - 1 : t[i] = s[i + 1]
    OBVIOUS
  <2> HIDE DEF t
  <2>2. Pushed(t, u, x) /\ u \in Seq(S)
    BY <2>1, StackPush
  <2> HIDE DEF u
  <2>3. \A i \in 2 .. Len(s) : u[i] = s[i]
    <3> SUFFICES ASSUME NEW i \in 2 .. Len(s) PROVE u[i] = s[i]
      OBVIOUS
    <3>1. i - 1 \in 1 .. Len(s) - 1 /\ (i - 1) + 1 = i
      BY <1>1
    <3> QED
      BY <2>1, <2>2, <3>1 DEF Pushed
  <2>4. TopIs(s, u, x)
    BY <1>1, <2>1, <2>2, <2>3 DEF TopIs, Pushed
  <2> QED
    BY <2>2, <2>4 DEF t, u
<1> QED
  BY <1>2, <1>3

\* The top goes, and what was below it is replaced.
LEMMA StackPop ==
  ASSUME NEW S, NEW s \in Seq(S), Tail(s) # << >>, s # << >>, NEW x \in S
  PROVE  /\ Len(s) >= 2 /\ Tail(s)[1] = s[2]
         /\ <<x>> \o Tail(Tail(s)) \in Seq(S)
         /\ Popped(s, <<x>> \o Tail(Tail(s)), x)
<1> DEFINE t == Tail(s)
           u == <<x>> \o Tail(t)
<1>1. /\ t \in Seq(S) /\ Len(t) = Len(s) - 1 /\ Len(s) \in Nat
      /\ \A i \in 1 .. Len(s) - 1 : t[i] = s[i + 1]
  OBVIOUS
<1>2. t # << >>
  OBVIOUS
<1> HIDE DEF t
<1>3. Len(s) >= 2
  BY <1>1, <1>2
<1>4. u \in Seq(S) /\ TopIs(t, u, x)
  BY <1>1, <1>2, StackTop
<1> HIDE DEF u
<1>5. \A i \in 3 .. Len(s) : u[i - 1] = s[i]
  <2> SUFFICES ASSUME NEW i \in 3 .. Len(s) PROVE u[i - 1] = s[i]
    OBVIOUS
  <2>1. i - 1 \in 2 .. Len(t) /\ i - 1 \in 1 .. Len(s) - 1 /\ (i - 1) + 1 = i
    BY <1>1
  <2> QED
    BY <1>1, <1>4, <2>1 DEF TopIs
<1> QED
  BY <1>1, <1>3, <1>4, <1>5 DEF Popped, TopIs, t, u

\* The top of a stack, and when it is the only one on it.
LEMMA StackEnd ==
  ASSUME NEW S, NEW s \in Seq(S), s # << >>
  PROVE  /\ Len(s) \in Nat /\ Len(s) >= 1 /\ Head(s) = s[1]
         /\ \A i \in 1 .. Len(s) : s[i] \in S
         /\ Tail(s) = << >> <=> Len(s) = 1
<1>1. Len(s) \in Nat /\ Len(s) # 0 /\ \A i \in 1 .. Len(s) : s[i] \in S
  OBVIOUS
<1>2. Tail(s) \in Seq(S) /\ Len(Tail(s)) = Len(s) - 1
  OBVIOUS
<1>3. Head(s) = s[1]
  OBVIOUS
<1>4. Tail(s) = << >> <=> Len(Tail(s)) = 0
  BY <1>2, ListEmpty
<1> QED
  BY <1>1, <1>2, <1>3, <1>4

\* One list and then another.
Joined(u, s, t) == u = s \o t

\* It has the entries of both, in their order.
LEMMA ListJoin ==
  ASSUME NEW S, NEW s \in Seq(S), NEW t \in Seq(S), NEW u, Joined(u, s, t)
  PROVE  /\ u \in Seq(S) /\ Len(u) = Len(s) + Len(t)
         /\ \A i \in 1 .. Len(s) : u[i] = s[i]
         /\ \A i \in 1 .. Len(t) : u[Len(s) + i] = t[i]
<1>1. Len(s) \in Nat /\ Len(t) \in Nat
  OBVIOUS
<1> USE DEF Joined
<1>2. u \in Seq(S)
  OBVIOUS
<1>3. Len(u) = Len(s) + Len(t)
  OBVIOUS
<1>4. \A i \in 1 .. Len(s) : u[i] = s[i]
  OBVIOUS
<1>5. \A i \in 1 .. Len(t) : u[Len(s) + i] = t[i]
  OBVIOUS
<1> QED
  BY <1>2, <1>3, <1>4, <1>5

\* All but perhaps the lowest of a stack are of a kind, and a step that leaves
\* the lowest alone keeps them so.
LEMMA StackAll ==
  ASSUME NEW F, NEW s, NEW u, NEW x \in F, Len(s) \in Nat, NEW n \in {0, 1},
         Len(s) - n >= 1, \A i \in 1 .. Len(s) - n : s[i] \in F,
         \/ TopIs(s, u, x)
         \/ Pushed(s, u, x)
         \/ Popped(s, u, x) /\ Len(s) - n >= 2
  PROVE  /\ \A i \in 1 .. Len(u) - n : u[i] \in F
         /\ n = 1 => u[Len(u)] = s[Len(s)]
         /\ Len(u) \in Nat /\ Len(u) - n >= 1
<1>1. CASE TopIs(s, u, x)
  <2>1. ASSUME NEW i \in 1 .. Len(u) - n PROVE u[i] \in F
    <3>1. i = 1 \/ (i \in 2 .. Len(s) /\ i \in 1 .. Len(s) - n)
      BY <1>1 DEF TopIs
    <3> QED
      BY <1>1, <3>1 DEF TopIs
  <2>2. n = 1 => u[Len(u)] = s[Len(s)]
    BY <1>1 DEF TopIs
  <2> QED
    BY <1>1, <2>1, <2>2 DEF TopIs
<1>2. CASE Pushed(s, u, x)
  <2>1. ASSUME NEW i \in 1 .. Len(u) - n PROVE u[i] \in F
    <3>1. i = 1 \/ (/\ i - 1 \in 1 .. Len(s) /\ i - 1 \in 1 .. Len(s) - n
                    /\ (i - 1) + 1 = i)
      BY <1>2 DEF Pushed
    <3> QED
      BY <1>2, <3>1 DEF Pushed
  <2>2. u[Len(u)] = s[Len(s)]
    <3>1. Len(s) \in 1 .. Len(s)
      OBVIOUS
    <3> QED
      BY <1>2, <3>1 DEF Pushed
  <2> QED
    BY <1>2, <2>1, <2>2 DEF Pushed
<1>3. CASE Popped(s, u, x) /\ Len(s) - n >= 2
  <2>1. ASSUME NEW i \in 1 .. Len(u) - n PROVE u[i] \in F
    <3>1. i = 1 \/ (/\ i + 1 \in 3 .. Len(s) /\ i + 1 \in 1 .. Len(s) - n
                    /\ (i + 1) - 1 = i)
      BY <1>3 DEF Popped
    <3> QED
      BY <1>3, <3>1 DEF Popped
  <2>2. n = 1 => u[Len(u)] = s[Len(s)]
    <3>1. n = 1 => Len(s) \in 3 .. Len(s)
      BY <1>3
    <3> QED
      BY <1>3, <3>1 DEF Popped
  <2> QED
    BY <1>3, <2>1, <2>2 DEF Popped
<1> QED
  BY <1>1, <1>2, <1>3
=============================================================================
