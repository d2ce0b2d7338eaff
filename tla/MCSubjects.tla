----------------------------- MODULE MCSubjects -----------------------------
(* Subjects for TLC: the calls are alike.                                  *)
EXTENDS Subjects, TLC

Alike == Permutations(Calls)
=============================================================================
