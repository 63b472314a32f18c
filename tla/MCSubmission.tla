---------------------------- MODULE MCSubmission ----------------------------
(* Small instances of Submission.  Runtimes are interchangeable; symmetry is *)
(* used in the runs of invariants and step properties only.                  *)
EXTENDS Submission, TLC

RuntimeSymmetry == Permutations(Runtimes)
=============================================================================
