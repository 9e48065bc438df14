----------------------------- MODULE MCSkillReview ------------------------------
(* Small instances of SkillReview. *)
EXTENDS SkillReview, TLC

CONSTANTS s1, s2, c1, c2, f1

SessionPair == {s1, s2}
TwoCases == {c1, c2}

OneFinding == {f1}
OneDocument == {{f1}}

SessionSymmetry == Permutations(SessionPair)
CaseSymmetry == Permutations(TwoCases)
Symmetry == SessionSymmetry \cup CaseSymmetry
===============================================================================
