-------------------------- MODULE MCSequenceWork --------------------------
(* Instances of SequenceWork for TLC.                                      *)
EXTENDS SequenceWork, TLC

\* Neither the identity of a token nor that of a runner matters to safety.
Symmetric == Permutations(Tokens) \cup Permutations(Runners)
============================================================================
