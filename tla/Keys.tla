-------------------------------- MODULE Keys --------------------------------
(***************************************************************************)
(* Keys as the code reads them: <table>_<number>.  ShardingPolicy finds    *)
(* the shard by the number (sharding_policy.cc), TablePrefixTransform the  *)
(* part RocksDB indexes (table_prefix_transform.cc).                       *)
(***************************************************************************)
EXTENDS CInts, Sequences

CONSTANTS
  IntMax,       \* INT_MAX
  ULongMax,     \* ULONG_MAX
  Throws        \* the call throws an exception or runs into an assert

ASSUME WidthAssumption ==
  IntMax \in Nat /\ ULongMax \in Nat /\ 2 * IntMax + 1 <= ULongMax
ASSUME ThrowsAssumption == Throws \notin Int

Underscore == 95
Plus == 43
Minus == 45
Spaces == {9, 10, 11, 12, 13, 32}
DigitChars == 48..57

\* std::stoul of a string: spaces, a sign, then digits up to anything else.
Skip(s, chars) ==
  LET n == CHOOSE n \in 0..Len(s) :
             /\ \A i \in 1..n : s[i] \in chars
             /\ n < Len(s) => s[n + 1] \notin chars
  IN SubSeq(s, n + 1, Len(s))

Leading(s, chars) == SubSeq(s, 1, Len(s) - Len(Skip(s, chars)))

ValueOf(digits) ==
  LET value[i \in 0..Len(digits)] ==
        IF i = 0 THEN 0 ELSE 10 * value[i - 1] + digits[i] - 48
  IN value[Len(digits)]

stoul(string) ==
  LET s == Skip(string, Spaces)
      signed == s # <<>> /\ s[1] \in {Plus, Minus}
      negative == signed /\ s[1] = Minus
      digits == Leading(IF signed THEN Tail(s) ELSE s, DigitChars)
      n == ValueOf(digits)
  IN IF digits = <<>> \/ n > ULongMax THEN Throws
     ELSE IF negative /\ n > 0 THEN ULongMax + 1 - n ELSE n

\* A key holds an underscore; its position, from 1.
InDomain(key) == \E i \in 1..Len(key) : key[i] = Underscore

FirstUnderscore(key) ==
  CHOOSE i \in 1..Len(key) :
    key[i] = Underscore /\ \A j \in 1..(i - 1) : key[j] # Underscore

\* TablePrefixTransform::Transform, which has no result for other keys.
Transform(key) == SubSeq(key, 1, FirstUnderscore(key))

\* ShardingPolicy::ExtractKey.  Without an underscore the loop runs into the
\* assert of Slice, or on to a string of negative length.
ExtractKey(key) ==
  LET n == stoul(SubSeq(key, FirstUnderscore(key) + 1, Len(key)))
  IN IF ~InDomain(key) THEN Throws
     ELSE IF n = Throws THEN Throws ELSE CutToInt(n, IntMax)

\* Mutant: the shards are numbered from 1.
GetShardIdFromOne(id, num_nodes) == 1 + CRem(id, num_nodes)

\* RoundRobinShardingPolicy::GetShardId, for an id.
GetShardId(id, num_nodes) == CRem(id, num_nodes)

\* Slice::starts_with, and the order of RocksDB's keys.
StartsWith(key, prefix) ==
  Len(prefix) <= Len(key) /\ SubSeq(key, 1, Len(prefix)) = prefix

Before(a, b) ==
  \E i \in 0..Len(a) :
    /\ i < Len(b) /\ SubSeq(a, 1, i) = SubSeq(b, 1, i)
    /\ i < Len(a) => a[i + 1] < b[i + 1]
=============================================================================
