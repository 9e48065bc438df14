---------------------------- MODULE MCMandateGateway ----------------------------
(* Small instances of MandateGateway. *)
EXTENDS MandateGateway, TLC

CONSTANTS c1, c2, h1, h2, r1, r2

OneCall == {c1}
TwoCalls == {c1, c2}
TwoRuns == {r1, r2}
OneRef == {h1}
TwoRefs == {h1, h2}

(* Everything, the CRM, and a list that has nothing in common with it. *)
ScopeLists == {{}, {Crm}, {"web.search"}}

Symmetry == Permutations(TwoCalls) \cup Permutations(TwoRefs) \cup Permutations(TwoRuns)
===============================================================================
