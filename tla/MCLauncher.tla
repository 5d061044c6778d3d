----------------------------- MODULE MCLauncher -----------------------------
(* Instances of Launcher for TLC. *)
EXTENDS Launcher

\* Clients of a shard store the proxy's id, a shard's, one out of range, or
\* something that is no number.
AnyIds == {0, 1, 7, NoNumber}
=============================================================================
