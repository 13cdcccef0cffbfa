--------------------------- MODULE SequenceFacts ---------------------------
(***************************************************************************)
(* What the operators on queues, stacks and lists return, preserve and     *)
(* bound: the elements of the result, and that no element occurs twice.    *)
(* And what the rings need of remainders.                                  *)
(***************************************************************************)
EXTENDS Integers, Sequences, SequencesExt, SequenceTheorems, FiniteSetTheorems, TLAPS

(* What Range and IsInjective say of a sequence, element by element. *)
LEMMA RangeFacts ==
  ASSUME NEW S, NEW s \in Seq(S)
  PROVE  /\ Range(s) \subseteq S
         /\ \A x : x \in Range(s) <=> \E i \in 1 .. Len(s) : s[i] = x
         /\ IsInjective(s) <=> \A i, j \in 1 .. Len(s) : s[i] = s[j] => i = j
         /\ Range(s) = {} <=> s = <<>>
         /\ Len(s) = 0 <=> s = <<>>
         /\ Range(<<>>) = {} /\ IsInjective(<<>>)
<1>1. DOMAIN s = 1 .. Len(s) /\ Len(s) \in Nat /\ \A i \in 1 .. Len(s) : s[i] \in S
  OBVIOUS
<1>2. Range(<<>>) = {} /\ IsInjective(<<>>)
  BY DEF Range, IsInjective
<1>3. Len(s) = 0 <=> s = <<>>
  OBVIOUS
<1>4. Range(s) = {} => s = <<>>
  <2>1. ASSUME s # <<>> PROVE s[1] \in Range(s)
    BY <1>1, <1>3, <2>1 DEF Range
  <2> QED BY <2>1
<1> QED
  BY <1>1, <1>2, <1>3, <1>4 DEF Range, IsInjective

(* A sequence of length one. *)
LEMMA SingletonFacts ==
  ASSUME NEW S, NEW s \in Seq(S), Len(s) = 1
  PROVE  Head(s) \in S /\ Range(s) = {Head(s)} /\ s # <<>> /\ IsInjective(s)
BY RangeFacts

(* The sequence with one given element. *)
LEMMA UnitFacts ==
  ASSUME NEW S, NEW x \in S
  PROVE  /\ <<x>> \in Seq(S) /\ Len(<<x>>) = 1
         /\ Range(<<x>>) = {x} /\ Head(<<x>>) = x /\ IsInjective(<<x>>)
<1>1. <<x>> \in Seq(S) /\ Len(<<x>>) = 1 /\ Head(<<x>>) = x
  OBVIOUS
<1> QED
  BY <1>1, SingletonFacts

(* Taking the first element of a queue. *)
LEMMA HeadTailFacts ==
  ASSUME NEW S, NEW s \in Seq(S), s # <<>>
  PROVE  /\ Head(s) \in S /\ Head(s) \in Range(s)
         /\ Tail(s) \in Seq(S) /\ Len(Tail(s)) = Len(s) - 1 /\ Len(s) \in Nat \ {0}
         /\ Head(s) = s[1] /\ \A i \in 1 .. Len(Tail(s)) : Tail(s)[i] = s[i + 1]
         /\ Range(s) = Range(Tail(s)) \cup {Head(s)}
         /\ IsInjective(s) => IsInjective(Tail(s)) /\ Head(s) \notin Range(Tail(s))
<1>1. /\ Tail(s) \in Seq(S) /\ Len(s) \in Nat \ {0} /\ Len(Tail(s)) = Len(s) - 1
      /\ \A i \in 1 .. Len(Tail(s)) : Tail(s)[i] = s[i + 1]
      /\ Head(s) = s[1] /\ Head(s) \in S
  OBVIOUS
<1>2. \A i \in 1 .. Len(s) : i = 1 \/ (i - 1 \in 1 .. Len(Tail(s)) /\ s[i] = Tail(s)[i - 1])
  BY <1>1
<1>3. Range(s) = Range(Tail(s)) \cup {Head(s)}
  <2>1. ASSUME NEW x \in Range(s) PROVE x \in Range(Tail(s)) \cup {Head(s)}
    <3>1. PICK i \in 1 .. Len(s) : s[i] = x
      BY RangeFacts
    <3> QED
      BY <3>1, <1>1, <1>2, RangeFacts
  <2>2. ASSUME NEW x \in Range(Tail(s)) PROVE x \in Range(s)
    <3>1. PICK i \in 1 .. Len(Tail(s)) : Tail(s)[i] = x
      BY <1>1, RangeFacts
    <3>2. i + 1 \in 1 .. Len(s) /\ s[i + 1] = x
      BY <3>1, <1>1
    <3> QED
      BY <3>2, RangeFacts
  <2>3. Head(s) \in Range(s)
    BY <1>1, RangeFacts
  <2> QED
    BY <2>1, <2>2, <2>3
<1>4. ASSUME IsInjective(s) PROVE IsInjective(Tail(s)) /\ Head(s) \notin Range(Tail(s))
  <2>1. \A i, j \in 1 .. Len(s) : s[i] = s[j] => i = j
    BY <1>4, RangeFacts
  <2>2. \A i, j \in 1 .. Len(Tail(s)) : Tail(s)[i] = Tail(s)[j] => i = j
    BY <2>1, <1>1
  <2>3. \A i \in 1 .. Len(Tail(s)) : Tail(s)[i] # Head(s)
    BY <2>1, <1>1
  <2>4. IsInjective(Tail(s))
    BY <2>2, <1>1, RangeFacts
  <2> QED
    BY <2>3, <2>4, <1>1, RangeFacts
<1> QED
  BY <1>1, <1>3, <1>4

(* Two queues put one after the other. *)
LEMMA ConcatFacts ==
  ASSUME NEW S, NEW s \in Seq(S), NEW t \in Seq(S)
  PROVE  /\ s \o t \in Seq(S) /\ Len(s \o t) = Len(s) + Len(t)
         /\ Range(s \o t) = Range(s) \cup Range(t)
         /\ IsInjective(s) /\ IsInjective(t) /\ Range(s) \cap Range(t) = {}
              => IsInjective(s \o t)
<1> DEFINE u == s \o t
<1>1. /\ u \in Seq(S) /\ Len(u) = Len(s) + Len(t) /\ Len(s) \in Nat /\ Len(t) \in Nat
      /\ \A i \in 1 .. Len(s) : u[i] = s[i]
      /\ \A i \in 1 .. Len(t) : u[Len(s) + i] = t[i]
  OBVIOUS
<1>2. \A i \in 1 .. Len(u) :
        \/ i \in 1 .. Len(s) /\ u[i] = s[i]
        \/ i - Len(s) \in 1 .. Len(t) /\ u[i] = t[i - Len(s)]
  <2>1. ASSUME NEW i \in 1 .. Len(u), i \notin 1 .. Len(s)
        PROVE  i - Len(s) \in 1 .. Len(t) /\ u[i] = t[i - Len(s)]
    BY <1>1, <2>1
  <2> QED
    BY <1>1, <2>1
<1> HIDE DEF u
<1>3. \A x : x \in Range(u) <=> x \in Range(s) \/ x \in Range(t)
  <2>1. ASSUME NEW x \in Range(u) PROVE x \in Range(s) \/ x \in Range(t)
    <3>1. PICK i \in 1 .. Len(u) : u[i] = x
      BY <1>1, RangeFacts
    <3> QED
      BY <3>1, <1>2, RangeFacts
  <2>2. ASSUME NEW x \in Range(s) PROVE x \in Range(u)
    <3>1. PICK i \in 1 .. Len(s) : s[i] = x
      BY RangeFacts
    <3>2. i \in 1 .. Len(u) /\ u[i] = x
      BY <3>1, <1>1
    <3> QED
      BY <3>2, <1>1, RangeFacts
  <2>3. ASSUME NEW x \in Range(t) PROVE x \in Range(u)
    <3>1. PICK i \in 1 .. Len(t) : t[i] = x
      BY RangeFacts
    <3>2. Len(s) + i \in 1 .. Len(u) /\ u[Len(s) + i] = x
      BY <3>1, <1>1
    <3> QED
      BY <3>2, <1>1, RangeFacts
  <2> QED
    BY <2>1, <2>2, <2>3
<1>4. ASSUME IsInjective(s), IsInjective(t), Range(s) \cap Range(t) = {}
      PROVE  IsInjective(u)
  <2>1. /\ \A i, j \in 1 .. Len(s) : s[i] = s[j] => i = j
        /\ \A i, j \in 1 .. Len(t) : t[i] = t[j] => i = j
        /\ \A i \in 1 .. Len(s), j \in 1 .. Len(t) : s[i] # t[j]
    BY <1>4, RangeFacts
  <2>2. ASSUME NEW i \in 1 .. Len(u), NEW j \in 1 .. Len(u), u[i] = u[j] PROVE i = j
    BY <2>1, <2>2, <1>1, <1>2, SMTT(30)
  <2> QED
    BY <2>2, <1>1, RangeFacts
<1> QED
  BY <1>1, <1>3, <1>4 DEF u

(* Adding an element at the end of a queue. *)
LEMMA AppendFacts ==
  ASSUME NEW S, NEW s \in Seq(S), NEW x \in S
  PROVE  /\ Append(s, x) \in Seq(S) /\ Len(Append(s, x)) = Len(s) + 1 /\ Append(s, x) # <<>>
         /\ Range(Append(s, x)) = Range(s) \cup {x}
         /\ IsInjective(s) /\ x \notin Range(s) => IsInjective(Append(s, x))
<1> DEFINE t == <<x>>
<1>1. /\ Append(s, x) = s \o t /\ t \in Seq(S)
      /\ Append(s, x) \in Seq(S) /\ Len(Append(s, x)) = Len(s) + 1 /\ Append(s, x) # <<>>
  OBVIOUS
<1>2. Range(t) = {x} /\ IsInjective(t)
  BY UnitFacts
<1> HIDE DEF t
<1>3. /\ Range(s \o t) = Range(s) \cup {x}
      /\ IsInjective(s) /\ Range(s) \cap {x} = {} => IsInjective(s \o t)
  BY <1>1, <1>2, ConcatFacts
<1> QED
  BY <1>1, <1>3

(* A part of a queue. *)
LEMMA SubSeqFacts ==
  ASSUME NEW S, NEW s \in Seq(S), NEW m \in 1 .. Len(s) + 1, NEW n \in 0 .. Len(s), m <= n + 1
  PROVE  /\ SubSeq(s, m, n) \in Seq(S) /\ Len(SubSeq(s, m, n)) = n - m + 1
         /\ \A x : x \in Range(SubSeq(s, m, n)) <=> \E i \in m .. n : s[i] = x
         /\ Range(SubSeq(s, m, n)) \subseteq Range(s)
         /\ IsInjective(s) => IsInjective(SubSeq(s, m, n))
<1> DEFINE u == SubSeq(s, m, n)
<1>0. /\ Len(s) \in Nat /\ m \in Int /\ n \in Int
      /\ m .. n \subseteq 1 .. Len(s)
      /\ \A i \in m .. n : s[i] \in S
  OBVIOUS
<1>1. /\ u \in Seq(S) /\ Len(u) = n - m + 1 /\ Len(s) \in Nat
      /\ \A i \in 1 .. Len(u) : u[i] = s[m + i - 1] /\ m + i - 1 \in m .. n
      /\ m .. n \subseteq 1 .. Len(s)
  <2>1. /\ u \in Seq(S) /\ Len(u) = IF m <= n THEN n - m + 1 ELSE 0
        /\ \A i \in 1 .. n - m + 1 : u[i] = s[m + i - 1]
    BY <1>0, SubSeqProperties
  <2> QED
    BY <1>0, <2>1
<1> HIDE DEF u
<1>2. \A x : x \in Range(u) <=> \E i \in m .. n : s[i] = x
  <2>1. ASSUME NEW x \in Range(u) PROVE \E i \in m .. n : s[i] = x
    <3>1. PICK i \in 1 .. Len(u) : u[i] = x
      BY <1>1, RangeFacts
    <3> QED
      BY <3>1, <1>1
  <2>2. ASSUME NEW i \in m .. n PROVE s[i] \in Range(u)
    <3>1. PICK j \in 1 .. Len(u) : m + j - 1 = i
      <4>1. i - m + 1 \in 1 .. Len(u) /\ m + (i - m + 1) - 1 = i
        BY <1>0, <1>1
      <4> QED
        BY <4>1
    <3>2. u[j] = s[i]
      BY <1>1, <3>1
    <3> QED
      BY <3>1, <3>2, <1>1, RangeFacts
  <2> QED
    BY <2>1, <2>2
<1>3. Range(u) \subseteq Range(s)
  BY <1>1, <1>2, RangeFacts
<1>4. ASSUME IsInjective(s) PROVE IsInjective(u)
  <2>1. \A i, j \in 1 .. Len(u) : u[i] = u[j] => i = j
    BY <1>1, <1>4, RangeFacts
  <2> QED
    BY <2>1, <1>1, RangeFacts
<1> QED
  BY <1>1, <1>2, <1>3, <1>4 DEF u

(* Taking the element at a position out of a list. *)
LEMMA RemoveAtFacts ==
  ASSUME NEW S, NEW s \in Seq(S), NEW k \in 1 .. Len(s)
  PROVE  /\ s[k] \in S /\ s[k] \in Range(s)
         /\ RemoveAt(s, k) \in Seq(S) /\ Len(RemoveAt(s, k)) = Len(s) - 1
         /\ IsInjective(s) => /\ IsInjective(RemoveAt(s, k))
                              /\ Range(RemoveAt(s, k)) = Range(s) \ {s[k]}
<1> DEFINE a == SubSeq(s, 1, k - 1)
           b == SubSeq(s, k + 1, Len(s))
<1>0. Len(s) \in Nat /\ s[k] \in S
  OBVIOUS
<1>1. /\ a \in Seq(S) /\ Len(a) = k - 1
      /\ \A x : x \in Range(a) <=> \E i \in 1 .. k - 1 : s[i] = x
      /\ IsInjective(s) => IsInjective(a)
  BY <1>0, SubSeqFacts
<1>2. /\ b \in Seq(S) /\ Len(b) = Len(s) - k
      /\ \A x : x \in Range(b) <=> \E i \in k + 1 .. Len(s) : s[i] = x
      /\ IsInjective(s) => IsInjective(b)
  BY <1>0, SubSeqFacts
<1> HIDE DEF a, b
<1>3. /\ a \o b \in Seq(S) /\ Len(a \o b) = Len(s) - 1
      /\ Range(a \o b) = Range(a) \cup Range(b)
      /\ IsInjective(a) /\ IsInjective(b) /\ Range(a) \cap Range(b) = {} => IsInjective(a \o b)
  <2>1. /\ a \o b \in Seq(S) /\ Len(a \o b) = Len(a) + Len(b)
        /\ Range(a \o b) = Range(a) \cup Range(b)
        /\ IsInjective(a) /\ IsInjective(b) /\ Range(a) \cap Range(b) = {}
             => IsInjective(a \o b)
    BY <1>1, <1>2, ConcatFacts
  <2> QED
    BY <1>0, <1>1, <1>2, <2>1
<1>4. ASSUME IsInjective(s)
      PROVE  Range(a) \cap Range(b) = {} /\ Range(a) \cup Range(b) = Range(s) \ {s[k]}
  <2>1. \A i, j \in 1 .. Len(s) : s[i] = s[j] => i = j
    BY <1>4, RangeFacts
  <2>2. Range(a) \cap Range(b) = {}
    BY <2>1, <1>0, <1>1, <1>2
  <2>3. ASSUME NEW x \in Range(a) \cup Range(b) PROVE x \in Range(s) \ {s[k]}
    <3>1. PICK i \in 1 .. Len(s) : s[i] = x /\ i # k
      BY <2>3, <1>0, <1>1, <1>2, SMTT(30)
    <3> QED
      BY <3>1, <2>1, RangeFacts
  <2>4. ASSUME NEW x \in Range(s) \ {s[k]} PROVE x \in Range(a) \cup Range(b)
    <3>1. PICK i \in 1 .. Len(s) : s[i] = x
      BY <2>4, RangeFacts
    <3>2. i \in 1 .. k - 1 \/ i \in k + 1 .. Len(s)
      BY <3>1, <2>4, <1>0
    <3> QED
      BY <3>1, <3>2, <1>1, <1>2
  <2> QED
    BY <2>2, <2>3, <2>4
<1> QED
  BY <1>0, <1>1, <1>2, <1>3, <1>4, RangeFacts DEF RemoveAt, a, b

(* Taking the last element of a stack. *)
LEMMA FrontFacts ==
  ASSUME NEW S, NEW s \in Seq(S), s # <<>>
  PROVE  /\ Last(s) \in S /\ Last(s) \in Range(s)
         /\ Front(s) \in Seq(S) /\ Len(Front(s)) = Len(s) - 1
         /\ IsInjective(s) => IsInjective(Front(s)) /\ Range(Front(s)) = Range(s) \ {Last(s)}
<1>1. /\ Len(s) \in 1 .. Len(s) /\ Len(s) \in Nat
      /\ SubSeq(s, Len(s) + 1, Len(s)) = <<>>
      /\ SubSeq(s, 1, Len(s) - 1) \in Seq(S)
  OBVIOUS
<1>2. RemoveAt(s, Len(s)) = Front(s)
  BY <1>1 DEF RemoveAt, Front
<1> QED
  BY <1>1, <1>2, RemoveAtFacts DEF Last

(* Taking a given element out of a list without duplicates. *)
LEMMA RemoveFirstFacts ==
  ASSUME NEW S, NEW s \in Seq(S), NEW x, IsInjective(s)
  PROVE  /\ RemoveFirst(s, x) \in Seq(S)
         /\ IsInjective(RemoveFirst(s, x))
         /\ Range(RemoveFirst(s, x)) = Range(s) \ {x}
<1>1. CASE x \in Range(s)
  <2>1. PICK k \in 1 .. Len(s) : s[k] = x
    BY <1>1, RangeFacts
  <2>2. {i \in 1 .. Len(s) : s[i] = x} = {k}
    BY <2>1, RangeFacts
  <2>3. Min({k}) = k
    BY DEF Min
  <2>4. RemoveFirst(s, x) = RemoveAt(s, k)
    BY <2>1, <2>2, <2>3 DEF RemoveFirst, SelectInSeq
  <2> QED
    BY <2>1, <2>4, RemoveAtFacts
<1>2. CASE x \notin Range(s)
  <2>1. RemoveFirst(s, x) = s
    BY <1>2, RangeFacts DEF RemoveFirst
  <2> QED
    BY <1>2, <2>1
<1> QED
  BY <1>1, <1>2

(* A queue has at least as many places as different elements. *)
LEMMA RangeCardinality ==
  ASSUME NEW S, NEW s \in Seq(S)
  PROVE  IsFiniteSet(Range(s)) /\ Cardinality(Range(s)) <= Len(s)
<1>1. s \in Surjection(1 .. Len(s), Range(s)) /\ Len(s) \in Nat
  <2>1. s \in [1 .. Len(s) -> Range(s)] /\ Len(s) \in Nat
    BY RangeFacts
  <2> QED
    BY <2>1, RangeFacts DEF Surjection
<1>2. IsFiniteSet(1 .. Len(s)) /\ Cardinality(1 .. Len(s)) = Len(s)
  <2>1. 1 \in Int /\ Len(s) \in Int
    BY <1>1
  <2>2. /\ IsFiniteSet(1 .. Len(s))
        /\ Cardinality(1 .. Len(s)) = IF 1 > Len(s) THEN 0 ELSE Len(s) - 1 + 1
    BY <2>1, FS_Interval, Zenon
  <2> QED
    BY <1>1, <2>2
<1> QED
  BY <1>1, <1>2, FS_Surjection

(* A set with at most one element. *)
LEMMA CountOne ==
  ASSUME NEW S, \A x, y \in S : x = y
  PROVE  /\ Cardinality(S) \in {0, 1}
         /\ Cardinality(S) = 1 <=> S # {}
<1>1. CASE S = {}
  <2>1. Cardinality(S) = 0
    BY <1>1, FS_EmptySet
  <2> QED
    BY <1>1, <2>1
<1>2. CASE S # {}
  <2>1. PICK x : S = {x}
    BY <1>2
  <2>2. Cardinality({x}) = 1
    BY FS_Singleton
  <2> QED
    BY <1>2, <2>1, <2>2
<1> QED
  BY <1>1, <1>2

-----------------------------------------------------------------------------
(* Remainders *)

(* Quotient and remainder of a division. *)
LEMMA DivMod ==
  ASSUME NEW n \in Nat \ {0}, NEW x \in Int
  PROVE  x \div n \in Int /\ x % n \in 0..(n - 1) /\ x = n * (x \div n) + (x % n)
OBVIOUS

(* The only multiple of n below n and above -n is zero. *)
LEMMA SmallMultiple ==
  ASSUME NEW n \in Nat \ {0}, NEW d \in Int, n * d < n, -n < n * d
  PROVE  d = 0
<1>1. CASE d >= 1
  <2>1. n * d >= n * 1
    BY <1>1
  <2> QED
    BY <2>1
<1>2. CASE d <= -1
  <2>1. n * d <= n * (-1)
    BY <1>2
  <2> QED
    BY <2>1
<1> QED
  BY <1>1, <1>2

(* The remainder is unique. *)
LEMMA ModUnique ==
  ASSUME NEW n \in Nat \ {0}, NEW x \in Int, NEW q \in Int, NEW r \in 0..(n - 1), x = n * q + r
  PROVE  x % n = r
<1> DEFINE e == x \div n
           s == x % n
<1>1. e \in Int /\ s \in 0..(n - 1) /\ x = n * e + s
  BY DivMod
<1> HIDE DEF e, s
<1> DEFINE d == e - q
<1>2. n * d = n * e - n * q
  BY <1>1
<1>3. n * d = r - s /\ d \in Int
  BY <1>1, <1>2
<1> HIDE DEF d
<1>4. n * d < n /\ -n < n * d
  BY <1>1, <1>3
<1>5. d = 0
  BY <1>3, <1>4, SmallMultiple
<1>6. n * d = 0
  BY <1>5
<1>7. r = s
  BY <1>1, <1>3, <1>6
<1> QED
  BY <1>7 DEF s

(* Adding a multiple of n does not change the remainder. *)
LEMMA ModShift ==
  ASSUME NEW n \in Nat \ {0}, NEW x \in Int, NEW k \in Int
  PROVE  (x + n * k) % n = x % n
<1> DEFINE e == x \div n
           s == x % n
           y == x + n * k
           q == e + k
<1>1. e \in Int /\ s \in 0..(n - 1) /\ x = n * e + s
  BY DivMod
<1> HIDE DEF e, s
<1>2. n * (e + k) = n * e + n * k
  BY <1>1
<1>3. y = n * q + s /\ y \in Int /\ q \in Int
  BY <1>1, <1>2
<1> HIDE DEF y, q
<1>4. y % n = s
  BY <1>1, <1>3, ModUnique
<1> QED
  BY <1>4 DEF y, s

(* Numbers with the same remainder are n apart or more, or equal. *)
LEMMA ModClose ==
  ASSUME NEW n \in Nat \ {0}, NEW x \in Int, NEW y \in Int,
         x % n = y % n, x < y + n, y < x + n
  PROVE  x = y
<1> DEFINE e == x \div n
           f == y \div n
           d == e - f
<1>1. e \in Int /\ x % n \in 0..(n - 1) /\ x = n * e + (x % n)
  BY DivMod
<1>2. f \in Int /\ y % n \in 0..(n - 1) /\ y = n * f + (y % n)
  BY DivMod
<1> HIDE DEF e, f
<1>3. n * d = n * e - n * f /\ d \in Int
  BY <1>1, <1>2
<1>4. n * d = x - y
  BY <1>1, <1>2, <1>3
<1> HIDE DEF d
<1>5. n * d < n /\ -n < n * d /\ d \in Int
  BY <1>3, <1>4
<1>6. d = 0
  BY <1>5, SmallMultiple
<1>7. n * d = 0
  BY <1>6
<1> QED
  BY <1>4, <1>7

=============================================================================
