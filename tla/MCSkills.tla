-------------------------------- MODULE MCSkills ---------------------------------
(***************************************************************************)
(* Skills, each part on a small instance of its own: the review of scanned *)
(* ones against the abstract grants, the store of a workspace (once with   *)
(* two leaders writing, once with an agent reading and one leader at a     *)
(* time), and the guard on a developer's machine.  A behaviour follows one *)
(* of them, chosen at the start; they share no variable.                   *)
(***************************************************************************)
EXTENDS SkillReview, ManagedSkills, LocalGuard, TLC

CONSTANTS a1, a2, b1, b2, h1, h2, t1, t2

TwoAs == {a1, a2}   \* sessions, editors
TwoBs == {b1, b2}   \* cases, slugs
Symmetry == Permutations(TwoAs) \cup Permutations(TwoBs)

OneFinding == {"f"}
OneDocument == {OneFinding}

TwoHeadings == {h1, h2}
TwoContents == {t1, t2}
LastTwo == {<<h2, t2>>}
ThreeTexts == {"clean", "one", "two"}
IssuesOfThree == [c \in ThreeTexts |->
    CASE c = "clean" -> {} [] c = "one" -> {<<"a", 1>>} [] c = "two" -> {<<"a", 1>>, <<"b", 2>>}]
BothIssues == {<<"a", 1>>, <<"b", 2>>}

VARIABLE focus

craftVars == <<focus, reviewVars, skillVars, localVars>>

CraftInit ==
    /\ focus \in {"review", "write", "read", "machine"}
    /\ ReviewInit /\ SkillsInit /\ LocalInit
    /\ focus # "write" => ~private
    /\ focus # "review" => account.home = "team"

(* Bound of this instance: while an agent reads one skill is ever created,  *)
(* and one leader writes at a time.                                         *)
OneWriter == \E e \in Editors : (\A d \in Editors \ {e} : editor[d].phase = "idle") /\ Edit(e)

CraftNext ==
    /\ UNCHANGED focus
    /\ \/ focus = "review" /\ ReviewNext /\ UNCHANGED <<skillVars, localVars>>
       \/ focus = "write" /\ (\E e \in Editors : Edit(e)) /\ UNCHANGED <<reviewVars, localVars>>
       \/ focus = "read" /\ (Read \/ OneWriter) /\ made' <= 1 /\ UNCHANGED <<reviewVars, localVars>>
       \/ focus = "machine" /\ LocalNext /\ UNCHANGED <<reviewVars, skillVars>>

CraftSpec == CraftInit /\ [][CraftNext]_craftVars

(* Every variable of the three parts has its type. *)
CraftTypeOK == ReviewTypeOK /\ SkillsTypeOK /\ LocalTypeOK
===============================================================================
