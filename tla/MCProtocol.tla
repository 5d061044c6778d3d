----------------------------- MODULE MCProtocol -----------------------------
(* Instances of Protocol for TLC: K stands for 131072. *)
EXTENDS Protocol

\* Less than, exactly and more than one and two chunks, below three.
Small == 1..(3 * K - 1)

\* Exactly three chunks.
Triple == {3 * K}
=============================================================================
