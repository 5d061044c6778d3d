----------------------------- MODULE MCRequest ------------------------------
(***************************************************************************)
(* An instance of Request for TLC, with an int of 4 bits and an unsigned   *)
(* long of 6.                                                              *)
(***************************************************************************)
EXTENDS Request

\* "t_1", "t_3_1", "u_2"; "t_12", beyond an int; "t_77", beyond an unsigned
\* long; "t_-3"; "t", without a number; "shard_id", the launcher's own.
SomeKeys ==
  {<<116, 95, 49>>, <<116, 95, 51, 95, 49>>, <<117, 95, 50>>,
   <<116, 95, 49, 50>>, <<116, 95, 55, 55>>, <<116, 95, 45, 51>>, <<116>>,
   kShardIdKey}

\* The empty value, and "a_".
SomeValues == {<<>>, <<97, 95>>}

\* The empty prefix; "t", which is no key of the transform; "t_"; "t_1"; "v_";
\* "shard_".
SomePrefixes ==
  {<<>>, <<116>>, <<116, 95>>, <<116, 95, 49>>, <<118, 95>>,
   <<115, 104, 97, 114, 100, 95>>}

\* "IO error: x" and "NotFound: ", shortened.
SomeErrors == {<<73, 79, 58, 32, 120>>}
NotFoundMessage == <<78, 70>>
=============================================================================
