----------------------------- MODULE KeysProofs -----------------------------
(***************************************************************************)
(* What TablePrefixTransform owes to the loops over a prefix of GetAll, and*)
(* the order of the keys that these loops go through.                      *)
(***************************************************************************)
EXTENDS Keys, TLAPS, WellFoundedInduction

\* A key that holds an underscore has a first one.
LEMMA FirstExists ==
  ASSUME NEW key \in Seq(Int), InDomain(key)
  PROVE  /\ FirstUnderscore(key) \in 1..Len(key)
         /\ key[FirstUnderscore(key)] = Underscore
         /\ \A j \in 1..(FirstUnderscore(key) - 1) : key[j] # Underscore
<1> DEFINE T == {i \in 1..Len(key) : key[i] = Underscore}
<1>1. T # {} /\ T \subseteq Nat
  BY DEF InDomain
<1>2. PICK i \in T : \A j \in T : <<j, i>> \notin OpToRel(<, Nat)
  <2> HIDE DEF T
  <2> QED BY <1>1, NatLessThanWellFounded, WFMin, Zenon
<1>3. \A j \in T : ~(j < i)
  BY <1>1, <1>2 DEF OpToRel
<1>4. \E n \in 1..Len(key) :
        key[n] = Underscore /\ \A j \in 1..(n - 1) : key[j] # Underscore
  <2>1. i \in 1..Len(key) /\ key[i] = Underscore
    OBVIOUS
  <2>2. \A j \in 1..(i - 1) : key[j] # Underscore
    BY <2>1, <1>3
  <2> QED BY <2>1, <2>2
<1> QED BY <1>4, Zenon DEF FirstUnderscore

\* The first underscore is at one place only.
LEMMA FirstUnique ==
  ASSUME NEW key \in Seq(Int), NEW i \in 1..Len(key), key[i] = Underscore,
         \A j \in 1..(i - 1) : key[j] # Underscore
  PROVE  InDomain(key) /\ FirstUnderscore(key) = i
<1>1. InDomain(key)
  BY DEF InDomain
<1>2. ~(FirstUnderscore(key) < i) /\ ~(i < FirstUnderscore(key))
  BY <1>1, FirstExists
<1> QED BY <1>1, <1>2, FirstExists

\* A key that starts with a prefix in the domain of TablePrefixTransform is in
\* its domain, too, and both are transformed alike: an iterator that RocksDB
\* restricts to the transformed prefix still visits every key that GetAll is to
\* return (server_launcher.cc sets the extractor, kv_worker.cc iterates).
THEOREM PrefixShared ==
  ASSUME NEW key \in Seq(Int), NEW prefix \in Seq(Int),
         InDomain(prefix), StartsWith(key, prefix)
  PROVE  InDomain(key) /\ Transform(key) = Transform(prefix)
<1> DEFINE n == FirstUnderscore(prefix)
<1>1. n \in 1..Len(prefix) /\ prefix[n] = Underscore
      /\ \A j \in 1..(n - 1) : prefix[j] # Underscore
  BY FirstExists
<1>2. Len(prefix) <= Len(key) /\ SubSeq(key, 1, Len(prefix)) = prefix
  BY DEF StartsWith
<1>3. \A j \in 1..Len(prefix) : prefix[j] = key[j]
  BY <1>2
<1>4. n \in 1..Len(key) /\ key[n] = Underscore
      /\ \A j \in 1..(n - 1) : key[j] # Underscore
  <2> HIDE DEF n
  <2> QED BY <1>1, <1>2, <1>3
<1>5. InDomain(key) /\ FirstUnderscore(key) = n
  <2> HIDE DEF n
  <2> QED BY <1>4, FirstUnique
<1>6. SubSeq(key, 1, n) = SubSeq(prefix, 1, n)
  <2> HIDE DEF n
  <2>1. /\ SubSeq(key, 1, n) \in Seq(Int) /\ SubSeq(prefix, 1, n) \in Seq(Int)
        /\ Len(SubSeq(key, 1, n)) = n /\ Len(SubSeq(prefix, 1, n)) = n
    BY <1>1, <1>4
  <2>2. \A j \in 1..n : SubSeq(key, 1, n)[j] = SubSeq(prefix, 1, n)[j]
    BY <1>1, <1>3, <1>4
  <2> QED BY <2>1, <2>2
<1> QED BY <1>5, <1>6 DEF Transform

-----------------------------------------------------------------------------
(* Numbers. *)

\* A string of digits has a value, and it is a natural number: the digits up to
\* any of them have one, given the value of those before.
LEMMA ValueIsNat ==
  ASSUME NEW d \in Seq(DigitChars)
  PROVE  ValueOf(d) \in Nat
<1> DEFINE Step(f, i) == IF i = 0 THEN 0 ELSE 10 * f[i - 1] + d[i] - 48
           Prefix(f, n) == f = [i \in 0..n |-> Step(f, i)]
<1>1. Len(d) \in Nat
  OBVIOUS
<1>2. \A n \in 0..Len(d) : \E f : Prefix(f, n)
  <2> DEFINE T == {n \in 0..Len(d) : ~\E f : Prefix(f, n)}
  <2> SUFFICES ASSUME T # {} PROVE FALSE
    OBVIOUS
  <2>1. T \subseteq Nat
    OBVIOUS
  <2>2. PICK n \in T : \A j \in T : <<j, n>> \notin OpToRel(<, Nat)
    <3> HIDE DEF T
    <3> QED BY <2>1, NatLessThanWellFounded, WFMin, Zenon
  <2>3. n \in 0..Len(d) /\ n \in Nat /\ \A j \in T : ~(j < n)
    BY <2>1, <2>2 DEF OpToRel
  <2>4. CASE n = 0
    <3> DEFINE g == [i \in 0..0 |-> 0]
    <3>1. Prefix(g, 0)
      OBVIOUS
    <3> QED BY <2>2, <2>4, <3>1
  <2>5. CASE n # 0
    <3>1. n - 1 \in 0..Len(d) /\ n - 1 < n
      BY <1>1, <2>3, <2>5
    <3>2. PICK f : Prefix(f, n - 1)
      BY <2>3, <3>1
    <3> DEFINE g == [i \in 0..n |-> IF i = n THEN Step(f, n) ELSE f[i]]
    <3>3. \A i \in 0..(n - 1) : f[i] = Step(f, i)
      BY <3>2
    <3>4. \A i \in 0..n : Step(g, i) = Step(f, i)
      BY <2>3
    <3>5. \A i \in 0..n : g[i] = Step(f, i)
      <4> HIDE DEF Step
      <4>1. \A i \in 0..n : i = n \/ i \in 0..(n - 1)
        BY <2>3
      <4> QED BY <3>3, <4>1
    <3>6. g = [i \in 0..n |-> Step(g, i)]
      <4>1. g = [i \in 0..n |-> g[i]]
        OBVIOUS
      <4> HIDE DEF Step, g
      <4> QED BY <3>4, <3>5, <4>1
    <3> HIDE DEF g
    <3> QED BY <2>2, <3>6
  <2> QED BY <2>4, <2>5
<1>3. PICK v : v = (CHOOSE f : Prefix(f, Len(d)))
  OBVIOUS
<1>4. Prefix(v, Len(d))
  <2>1. \E f : Prefix(f, Len(d))
    BY <1>1, <1>2
  <2> HIDE DEF Prefix
  <2> QED BY <1>3, <2>1, Zenon
<1>5. ValueOf(d) = v[Len(d)]
  BY <1>3 DEF ValueOf
<1>6. \A i \in 0..Len(d) : v[i] \in Nat
  <2> DEFINE T == {i \in 0..Len(d) : v[i] \notin Nat}
  <2> SUFFICES ASSUME T # {} PROVE FALSE
    OBVIOUS
  <2>1. T \subseteq Nat
    OBVIOUS
  <2>2. PICK n \in T : \A j \in T : <<j, n>> \notin OpToRel(<, Nat)
    <3> HIDE DEF T
    <3> QED BY <2>1, NatLessThanWellFounded, WFMin, Zenon
  <2>3. n \in 0..Len(d) /\ v[n] \notin Nat /\ \A j \in T : ~(j < n)
    BY <2>1, <2>2 DEF OpToRel
  <2>4. v[n] = Step(v, n)
    BY <1>4, <2>3
  <2>5. n # 0
    BY <2>3, <2>4
  <2>6. v[n - 1] \in Nat /\ d[n] \in DigitChars
    <3>1. n - 1 \in 0..Len(d) /\ n - 1 < n /\ n \in 1..Len(d)
      BY <1>1, <2>3, <2>5
    <3> QED BY <2>3, <3>1
  <2>7. \A x \in Nat, y \in DigitChars : 10 * x + y - 48 \in Nat
    BY DEF DigitChars
  <2> QED BY <2>3, <2>4, <2>5, <2>6, <2>7
<1> QED BY <1>1, <1>5, <1>6

\* std::stoul reads a string of digits to its end, and as its value.
LEMMA DigitsRead ==
  ASSUME NEW d \in Seq(DigitChars), d # <<>>, ValueOf(d) <= ULongMax
  PROVE  stoul(d) = ValueOf(d)
<1>1. /\ Len(d) \in Nat /\ Len(d) > 0 /\ d[1] \in DigitChars
      /\ \A i \in 1..Len(d) : d[i] \in DigitChars
  OBVIOUS
<1>2. d[1] \notin Spaces /\ d[1] \notin {Plus, Minus}
  <2>1. \A c \in DigitChars : c \notin Spaces /\ c \notin {Plus, Minus}
    BY DEF DigitChars, Spaces, Plus, Minus
  <2> QED BY <1>1, <2>1
<1>3. Skip(d, Spaces) = d
  <2> DEFINE P(n) == /\ \A i \in 1..n : d[i] \in Spaces
                     /\ n < Len(d) => d[n + 1] \notin Spaces
  <2>1. 0 \in 0..Len(d) /\ P(0)
    BY <1>1, <1>2
  <2>2. \A n \in 0..Len(d) : P(n) => n = 0
    BY <1>1, <1>2
  <2>3. (CHOOSE n \in 0..Len(d) : P(n)) = 0
    BY <2>1, <2>2
  <2>4. SubSeq(d, 0 + 1, Len(d)) = d
    BY <1>1
  <2> QED BY <2>3, <2>4 DEF Skip
<1>4. Skip(d, DigitChars) = <<>>
  <2> DEFINE P(n) == /\ \A i \in 1..n : d[i] \in DigitChars
                     /\ n < Len(d) => d[n + 1] \notin DigitChars
  <2>1. Len(d) \in 0..Len(d) /\ P(Len(d))
    BY <1>1
  <2>2. \A n \in 0..Len(d) : P(n) => n = Len(d)
    BY <1>1
  <2>3. (CHOOSE n \in 0..Len(d) : P(n)) = Len(d)
    BY <2>1, <2>2
  <2>4. SubSeq(d, Len(d) + 1, Len(d)) = <<>>
    BY <1>1
  <2> QED BY <2>3, <2>4 DEF Skip
<1>5. Leading(d, DigitChars) = d
  <2>1. Len(d) - Len(<<>>) = Len(d) /\ SubSeq(d, 1, Len(d)) = d
    BY <1>1
  <2> QED BY <1>4, <2>1 DEF Leading
<1>6. ~(ValueOf(d) > ULongMax)
  BY ValueIsNat, WidthAssumption
<1> QED BY <1>2, <1>3, <1>5, <1>6 DEF stoul

\* A number below the divisor is its own remainder.
LEMMA SmallRemainder ==
  ASSUME NEW m \in Nat, NEW k \in Nat, m < k
  PROVE  m % k = m
<1>1. PICK q \in Int : q = m \div k
  OBVIOUS
<1>2. PICK r \in 0..(k - 1) : r = m % k
  OBVIOUS
<1>3. m = k * q + r
  BY <1>1, <1>2
<1>4. ~(q >= 1)
  <2>1. q >= 1 => k * q >= k
    OBVIOUS
  <2> QED BY <1>3, <2>1
<1>5. ~(q <= -1)
  <2>1. q <= -1 => k * q <= -k
    OBVIOUS
  <2> QED BY <1>3, <2>1
<1>6. q = 0
  BY <1>4, <1>5
<1> QED BY <1>2, <1>3, <1>6

\* A key of the intended form, <table>_<number> with a number that an int can
\* hold: ExtractKey gives the number, without an exception and without a sign.
LEMMA NumberExtracted ==
  ASSUME NEW key \in Seq(Int), InDomain(key),
         SubSeq(key, FirstUnderscore(key) + 1, Len(key)) \in Seq(DigitChars),
         SubSeq(key, FirstUnderscore(key) + 1, Len(key)) # <<>>,
         ValueOf(SubSeq(key, FirstUnderscore(key) + 1, Len(key))) <= IntMax
  PROVE  /\ ExtractKey(key) \in Nat
         /\ ExtractKey(key) = ValueOf(SubSeq(key, FirstUnderscore(key) + 1, Len(key)))
<1>1. PICK d \in Seq(DigitChars) :
        d = SubSeq(key, FirstUnderscore(key) + 1, Len(key))
  OBVIOUS
<1>2. PICK n \in Nat : n = ValueOf(d)
  BY ValueIsNat
<1>3. n <= IntMax /\ n <= ULongMax /\ IntMax \in Nat
  BY <1>1, <1>2, WidthAssumption
<1>4. stoul(d) = n
  BY <1>1, <1>2, <1>3, DigitsRead
<1>5. n # Throws
  BY ThrowsAssumption
<1>6. CutToInt(n, IntMax) = n
  <2>1. \A m, k \in Nat : m < k => m % k = m
    BY SmallRemainder
  <2>2. 2 * (IntMax + 1) \in Nat /\ n < 2 * (IntMax + 1)
    BY <1>3
  <2>3. n % (2 * (IntMax + 1)) = n
    BY <2>1, <2>2
  <2> QED BY <1>3, <2>3 DEF CutToInt
<1> QED BY <1>1, <1>2, <1>4, <1>5, <1>6 DEF ExtractKey

\* The remainder of a number without a sign is the number of a shard.
LEMMA RemainderInRange ==
  ASSUME NEW id \in Nat, NEW n \in Nat \ {0}
  PROVE  GetShardId(id, n) \in 0..(n - 1)
BY DEF GetShardId, CRem

-----------------------------------------------------------------------------
(* The order of RocksDB's keys. *)

\* Two strings agree on their first i characters.
LEMMA SameStart ==
  ASSUME NEW a \in Seq(Int), NEW b \in Seq(Int), NEW i \in Nat,
         i <= Len(a), i <= Len(b)
  PROVE  SubSeq(a, 1, i) = SubSeq(b, 1, i) <=> \A j \in 1..i : a[j] = b[j]
<1>1. /\ SubSeq(a, 1, i) = [j \in 1..i |-> a[j]]
      /\ SubSeq(b, 1, i) = [j \in 1..i |-> b[j]]
  OBVIOUS
<1>2. ASSUME NEW j \in 1..i
      PROVE  SubSeq(a, 1, i)[j] = a[j] /\ SubSeq(b, 1, i)[j] = b[j]
  BY <1>1
<1>3. ASSUME SubSeq(a, 1, i) = SubSeq(b, 1, i), NEW j \in 1..i
      PROVE  a[j] = b[j]
  BY <1>2, <1>3
<1>4. ASSUME \A j \in 1..i : a[j] = b[j]
      PROVE  SubSeq(a, 1, i) = SubSeq(b, 1, i)
  BY <1>1, <1>4
<1> QED BY <1>3, <1>4

\* One string comes before another by its first character that is different, or
\* by its end.
LEMMA BeforeAt ==
  ASSUME NEW a \in Seq(Int), NEW b \in Seq(Int)
  PROVE  Before(a, b) <=>
           \E i \in 0..Len(a) : /\ i < Len(b) /\ \A j \in 1..i : a[j] = b[j]
                                /\ i < Len(a) => a[i + 1] < b[i + 1]
<1>1. Len(a) \in Nat /\ Len(b) \in Nat
  OBVIOUS
<1>2. ASSUME NEW i \in 0..Len(a), i < Len(b)
      PROVE  SubSeq(a, 1, i) = SubSeq(b, 1, i) <=> \A j \in 1..i : a[j] = b[j]
  BY <1>1, <1>2, SameStart
<1> QED BY <1>2 DEF Before

\* A prefix, character by character.
LEMMA StartsAt ==
  ASSUME NEW key \in Seq(Int), NEW prefix \in Seq(Int)
  PROVE  StartsWith(key, prefix) <=>
           Len(prefix) <= Len(key) /\ \A j \in 1..Len(prefix) : key[j] = prefix[j]
<1>1. Len(key) \in Nat /\ Len(prefix) \in Nat /\ SubSeq(prefix, 1, Len(prefix)) = prefix
  OBVIOUS
<1> QED BY <1>1, SameStart DEF StartsWith

\* No key comes before itself.
LEMMA BeforeIrreflexive ==
  ASSUME NEW a \in Seq(Int)
  PROVE  ~Before(a, a)
<1>1. Len(a) \in Nat /\ \A i \in 1..Len(a) : a[i] \in Int
  OBVIOUS
<1> SUFFICES ASSUME Before(a, a) PROVE FALSE
  OBVIOUS
<1>2. PICK i \in 0..Len(a) : i < Len(a) /\ a[i + 1] < a[i + 1]
  BY BeforeAt
<1>3. i + 1 \in 1..Len(a)
  BY <1>1, <1>2
<1>4. PICK x \in Int : x = a[i + 1]
  BY <1>1, <1>3
<1> QED BY <1>2, <1>4

\* The order is transitive.
LEMMA BeforeTransitive ==
  ASSUME NEW a \in Seq(Int), NEW b \in Seq(Int), NEW c \in Seq(Int),
         Before(a, b), Before(b, c)
  PROVE  Before(a, c)
<1>1. PICK i \in 0..Len(a) : /\ i < Len(b) /\ \A j \in 1..i : a[j] = b[j]
                             /\ i < Len(a) => a[i + 1] < b[i + 1]
  BY BeforeAt
<1>2. PICK k \in 0..Len(b) : /\ k < Len(c) /\ \A j \in 1..k : b[j] = c[j]
                             /\ k < Len(b) => b[k + 1] < c[k + 1]
  BY BeforeAt
<1>3. Len(a) \in Nat /\ Len(b) \in Nat /\ Len(c) \in Nat
      /\ i \in Nat /\ k \in Nat /\ i <= Len(a)
  OBVIOUS
<1>4. CASE i <= k
  <2>1. i < Len(c) /\ \A j \in 1..i : j \in 1..k
    BY <1>2, <1>3, <1>4
  <2>2. \A j \in 1..i : a[j] = c[j]
    BY <1>1, <1>2, <2>1
  <2>3. ASSUME i < Len(a) PROVE a[i + 1] < c[i + 1]
    <3>1. /\ i + 1 \in 1..Len(a) /\ i + 1 \in 1..Len(b) /\ i + 1 \in 1..Len(c)
      <4>1. i < Len(b) /\ i < Len(c)
        BY <1>1, <2>1
      <4> QED BY ONLY <1>3, <2>3, <4>1
    <3>2. PICK x, y, z \in Int : x = a[i + 1] /\ y = b[i + 1] /\ z = c[i + 1]
      <4>1. a[i + 1] \in Int /\ b[i + 1] \in Int /\ c[i + 1] \in Int
        BY <3>1
      <4> QED BY <4>1
    <3>3. x < y
      BY <1>1, <2>3, <3>2
    <3>4. CASE i = k
      <4>1. k < Len(b)
        BY <1>1, <3>4
      <4>2. b[k + 1] < c[k + 1]
        BY <1>2, <4>1
      <4>3. y < z
        BY ONLY <3>2, <3>4, <4>2
      <4>4. x < z
        BY <3>3, <4>3
      <4> QED BY ONLY <3>2, <4>4
    <3>5. CASE i < k
      <4>1. i + 1 \in 1..k
        BY <1>3, <3>5
      <4>2. b[i + 1] = c[i + 1]
        BY ONLY <1>2, <4>1
      <4> QED BY ONLY <3>2, <3>3, <4>2
    <3> QED BY <1>3, <1>4, <3>4, <3>5
  <2> QED BY <2>1, <2>2, <2>3, BeforeAt
<1>5. CASE k < i
  <2>1. /\ k < Len(a) /\ k < Len(b) /\ k \in 0..Len(a)
        /\ \A j \in 1..k : j \in 1..i
    BY <1>1, <1>3, <1>5
  <2>2. \A j \in 1..k : a[j] = c[j]
    BY <1>1, <1>2, <2>1
  <2>3. k + 1 \in 1..i
    BY <1>3, <1>5
  <2>4. a[k + 1] < c[k + 1]
    BY <1>1, <1>2, <2>1, <2>3
  <2> QED BY <1>2, <2>1, <2>2, <2>4, BeforeAt
<1> QED BY <1>3, <1>4, <1>5

\* Of two different keys one comes before the other.
LEMMA BeforeTotal ==
  ASSUME NEW a \in Seq(Int), NEW b \in Seq(Int), a # b
  PROVE  Before(a, b) \/ Before(b, a)
<1> DEFINE T == {i \in Nat : i + 1 > Len(a) \/ i + 1 > Len(b) \/ a[i + 1] # b[i + 1]}
<1>1. Len(a) \in Nat /\ Len(b) \in Nat
  OBVIOUS
<1>2. Len(a) \in T /\ T \subseteq Nat
  BY <1>1
<1>3. PICK i \in T : \A j \in T : <<j, i>> \notin OpToRel(<, Nat)
  <2> HIDE DEF T
  <2> QED BY <1>2, NatLessThanWellFounded, WFMin, Zenon
<1>4. \A j \in T : ~(j < i)
  BY <1>2, <1>3 DEF OpToRel
<1>5. i \in Nat /\ i <= Len(a) /\ i <= Len(b)
  <2>1. Len(b) \in T
    BY <1>1
  <2> QED BY <1>1, <1>2, <1>4, <2>1
<1>6. \A j \in 1..i : a[j] = b[j]
  <2> SUFFICES ASSUME NEW j \in 1..i PROVE a[j] = b[j]
    OBVIOUS
  <2>1. j - 1 \in Nat /\ j - 1 < i /\ (j - 1) + 1 = j /\ ~(j > Len(a)) /\ ~(j > Len(b))
    BY <1>1, <1>5
  <2>2. j - 1 \notin T
    BY <1>4, <2>1
  <2> QED BY <2>1, <2>2
<1> HIDE DEF T
<1>7. CASE i = Len(a) /\ i = Len(b)
  <2>1. a = [j \in 1..Len(a) |-> a[j]] /\ b = [j \in 1..Len(b) |-> b[j]]
    OBVIOUS
  <2>2. a = b
    BY <1>6, <1>7, <2>1
  <2> QED BY <2>2
<1>8. CASE i = Len(a) /\ i < Len(b)
  <2>1. i \in 0..Len(a) /\ i < Len(b) /\ ~(i < Len(a))
    BY <1>1, <1>5, <1>8
  <2> QED BY <1>6, <2>1, BeforeAt
<1>9. CASE i < Len(a) /\ i = Len(b)
  <2>1. i \in 0..Len(b) /\ i < Len(a) /\ ~(i < Len(b))
    BY <1>1, <1>5, <1>9
  <2>2. \A j \in 1..i : b[j] = a[j]
    BY <1>6
  <2> QED BY <2>1, <2>2, BeforeAt
<1>10. CASE i < Len(a) /\ i < Len(b)
  <2>1. i + 1 \in 1..Len(a) /\ i + 1 \in 1..Len(b)
    BY <1>1, <1>5, <1>10
  <2>2. a[i + 1] \in Int /\ b[i + 1] \in Int
    BY <2>1
  <2>3. a[i + 1] # b[i + 1]
    BY <1>1, <1>5, <1>10 DEF T
  <2>4. a[i + 1] < b[i + 1] \/ b[i + 1] < a[i + 1]
    BY <2>2, <2>3
  <2> QED BY <1>1, <1>5, <1>6, <1>10, <2>4, BeforeAt
<1> QED BY <1>1, <1>5, <1>7, <1>8, <1>9, <1>10

\* Seek(prefix) does not skip a key that starts with the prefix.
LEMMA SeekReaches ==
  ASSUME NEW key \in Seq(Int), NEW prefix \in Seq(Int), StartsWith(key, prefix)
  PROVE  ~Before(key, prefix)
<1> SUFFICES ASSUME Before(key, prefix) PROVE FALSE
  OBVIOUS
<1>1. Len(prefix) <= Len(key) /\ \A j \in 1..Len(prefix) : key[j] = prefix[j]
  BY StartsAt
<1>2. Len(key) \in Nat /\ Len(prefix) \in Nat
  OBVIOUS
<1>3. PICK i \in 0..Len(key) :
        i < Len(prefix) /\ (i < Len(key) => key[i + 1] < prefix[i + 1])
  BY BeforeAt
<1>4. i + 1 \in 1..Len(prefix) /\ i < Len(key)
  BY <1>1, <1>2, <1>3
<1>5. PICK x \in Int : x = prefix[i + 1]
  BY <1>4
<1> QED BY <1>1, <1>3, <1>4, <1>5

\* The keys that start with a prefix lie together: what lies between the prefix
\* and one of them is another.
LEMMA PrefixTogether ==
  ASSUME NEW a \in Seq(Int), NEW key \in Seq(Int), NEW prefix \in Seq(Int),
         ~Before(a, prefix), Before(a, key), StartsWith(key, prefix)
  PROVE  StartsWith(a, prefix)
<1>1. Len(prefix) <= Len(key) /\ \A j \in 1..Len(prefix) : key[j] = prefix[j]
  BY StartsAt
<1>2. Len(key) \in Nat /\ Len(prefix) \in Nat /\ Len(a) \in Nat
  OBVIOUS
<1>3. PICK i \in 0..Len(a) : /\ i < Len(key) /\ \A j \in 1..i : a[j] = key[j]
                             /\ i < Len(a) => a[i + 1] < key[i + 1]
  BY BeforeAt
<1>4. CASE Len(prefix) <= i
  <2>1. Len(prefix) <= Len(a) /\ \A j \in 1..Len(prefix) : j \in 1..i
    BY <1>2, <1>3, <1>4
  <2>2. \A j \in 1..Len(prefix) : a[j] = prefix[j]
    BY <1>1, <1>3, <2>1
  <2> QED BY <2>1, <2>2, StartsAt
<1>5. CASE i < Len(prefix)
  <2>1. i + 1 \in 1..Len(prefix) /\ \A j \in 1..i : j \in 1..Len(prefix)
    BY <1>2, <1>5
  <2>2. \A j \in 1..i : a[j] = prefix[j]
    BY <1>1, <1>3, <2>1
  <2>3. i < Len(a) => a[i + 1] < prefix[i + 1]
    BY <1>1, <1>3, <2>1
  <2>4. Before(a, prefix)
    BY <1>5, <2>2, <2>3, BeforeAt
  <2> QED BY <2>4
<1> QED BY <1>2, <1>4, <1>5
=============================================================================
