------------------------------- MODULE MCRdma -------------------------------
(* Instances of Rdma for TLC. *)
EXTENDS Rdma

CONSTANTS c1, c2

AnyResult == {"nothing", "data", "unwritten", "eof", "err"}
AnswersOnly == {"nothing", "data"}
RegMr == {"reg_mr"}
=============================================================================
