------------------------------- MODULE CInts --------------------------------
(* Integer arithmetic of the C++ the code is written in. *)
EXTENDS Integers

\* The remainder of int operands, which has the sign of the dividend.
CRem(a, b) == IF a < 0 THEN -((-a) % b) ELSE a % b

\* An unsigned number cut to an int in two's complement with maximum int_max.
CutToInt(n, int_max) ==
  LET low == n % (2 * (int_max + 1))
  IN IF low > int_max THEN low - 2 * (int_max + 1) ELSE low
=============================================================================
