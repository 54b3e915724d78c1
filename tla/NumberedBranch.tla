--------------------------- MODULE NumberedBranch ---------------------------
(***************************************************************************)
(* What the two effects of merge numbers on GitHub have in common: one     *)
(* branch whose commits get merge numbers, epoch after epoch, the switch   *)
(* and the block a repository has for the effect, and the requests to      *)
(* GitHub whose answer was not received.  MergeTag and TitleAnnotation     *)
(* each have a switch, a block and requests of their own.                  *)
(***************************************************************************)
EXTENDS Naturals, Sequences

CONSTANTS
  History,               \* [1 .. MaxEpoch -> Seq(...)]: what has number n in an epoch, a commit for MergeTag, a pull request for TitleAnnotation
  MaxEpoch, MaxFaults,   \* bounds
  None

VARIABLES
  epoch, reassigning,    \* sequence_space
  flight,                \* requests without an answer that GitHub may still execute
  enabled, blocked,      \* of the repository: tag_enabled and tag_blocked_at, annotate_enabled and annotate_blocked_at
  faults

Fault == faults < MaxFaults /\ faults' = faults + 1
=============================================================================
