---------------------------- MODULE Skills_proofs ----------------------------
(***************************************************************************)
(* Proofs about skills: SkillGrants and SkillReview, for any number of     *)
(* sessions, workspaces, findings and cases; ManagedSkills, for any number *)
(* of leaders, agents, slugs and texts and every verdict the scanner may   *)
(* give of them; LocalGuard, for any files, texts and issues; and all of   *)
(* MCSkills.                                                               *)
(***************************************************************************)
EXTENDS MCSkills, FiniteSetTheorems, TLAPS

(***************************************************************************)
(* The operators on grants.                                                *)
(***************************************************************************)
LEMMA SpentFacts ==
    ASSUME NEW grant \in Grants, NEW doc \in SUBSET Findings
    PROVE  /\ Spent(grant, doc) \in Grants
           /\ Spent(grant, doc).always = grant.always
           /\ \A f \in Findings :
                 Spent(grant, doc).once[f] =
                     IF f \in Approved(grant, doc) \ grant.always
                     THEN grant.once[f] - 1 ELSE grant.once[f]
<1>1. \A f \in Findings : grant.once[f] \in Nat
  BY DEF Grants
<1>2. \A f \in Findings :
         f \in doc \ grant.always /\ grant.once[f] > 0
             <=> f \in Approved(grant, doc) \ grant.always
  BY DEF Approved
<1>3. [f \in Findings |->
          IF f \in doc \ grant.always /\ grant.once[f] > 0
          THEN grant.once[f] - 1 ELSE grant.once[f]] \in [Findings -> Nat]
  BY <1>1
<1> QED BY <1>1, <1>2, <1>3 DEF Spent, Grants

LEMMA AllowedFacts ==
    ASSUME NEW grant \in Grants, NEW fs \in SUBSET Findings, NEW action \in Actions
    PROVE  /\ Allowed(grant, fs, action) \in Grants
           /\ \A f \in Findings :
                 \/ Allowed(grant, fs, action).once[f] = grant.once[f]
                 \/ /\ action = "allow_once" /\ f \in fs
                    /\ Allowed(grant, fs, action).once[f] = grant.once[f] + 1
           /\ \/ Allowed(grant, fs, action).always = grant.always
              \/ /\ action # "allow_once"
                 /\ Allowed(grant, fs, action).always = grant.always \cup fs
<1>1. \A f \in Findings : grant.once[f] \in Nat
  BY DEF Grants
<1>2. [f \in Findings |-> grant.once[f] + (IF f \in fs THEN 1 ELSE 0)] \in [Findings -> Nat]
  BY <1>1
<1>3. CASE action = "allow_once"
  BY <1>1, <1>2, <1>3 DEF Allowed, Grants
<1>4. CASE action # "allow_once"
  BY <1>4 DEF Allowed, Grants
<1> QED BY <1>3, <1>4

LEMMA RevokedFacts ==
    ASSUME NEW grant \in Grants, NEW fs \in SUBSET Findings
    PROVE  /\ Revoked(grant, fs) \in Grants
           /\ \A f \in Findings : Revoked(grant, fs).once[f] <= grant.once[f]
           /\ Revoked(grant, fs).always \subseteq grant.always
<1>1. \A f \in Findings : grant.once[f] \in Nat
  BY DEF Grants
<1>2. [f \in Findings |-> IF f \in fs THEN 0 ELSE grant.once[f]] \in [Findings -> Nat]
  BY <1>1
<1> QED BY <1>1, <1>2 DEF Revoked, Grants

LEMMA GrantAfterFacts ==
    ASSUME NEW grant \in Grants, NEW c \in Cases, NEW action \in Actions
    PROVE  /\ GrantAfter(grant, c, action) \in Grants
           /\ \A f \in Findings :
                 \/ GrantAfter(grant, c, action).once[f] <= grant.once[f]
                 \/ /\ action = "allow_once" /\ f \in c.findings
                    /\ GrantAfter(grant, c, action).once[f] = grant.once[f] + 1
           /\ \A f \in GrantAfter(grant, c, action).always :
                 \/ f \in grant.always
                 \/ action = "allow_always" /\ f \in c.findings
<1>1. c.findings \in SUBSET Findings
  BY DEF Cases
<1>2. \A f \in Findings : grant.once[f] \in Nat
  BY DEF Grants
<1>3. CASE action # "keep_rejected"
  <2>1. GrantAfter(grant, c, action) = Allowed(grant, c.findings, action)
    BY <1>3 DEF GrantAfter
  <2>2. action = "allow_once" \/ action = "allow_always"
    BY <1>3 DEF Actions
  <2> DEFINE fs == c.findings
             new == Allowed(grant, fs, action)
  <2>3. fs \in SUBSET Findings
    BY <1>1
  <2> HIDE DEF fs
  <2>4. /\ new \in Grants
        /\ \A f \in Findings :
              \/ new.once[f] = grant.once[f]
              \/ action = "allow_once" /\ f \in fs /\ new.once[f] = grant.once[f] + 1
        /\ \/ new.always = grant.always
           \/ action # "allow_once" /\ new.always = grant.always \cup fs
    BY <2>3, AllowedFacts
  <2> HIDE DEF new
  <2>5. \A f \in Findings :
           \/ new.once[f] <= grant.once[f]
           \/ action = "allow_once" /\ f \in fs /\ new.once[f] = grant.once[f] + 1
    BY <1>2, <2>4
  <2>6. \A f \in new.always : f \in grant.always \/ (action = "allow_always" /\ f \in fs)
    BY <2>2, <2>4
  <2> QED BY <2>1, <2>4, <2>5, <2>6 DEF new, fs
<1>4. CASE action = "keep_rejected" /\ c.bound = c.scope
  BY <1>1, <1>2, <1>4, RevokedFacts DEF GrantAfter
<1>5. CASE action = "keep_rejected" /\ c.bound # c.scope
  BY <1>2, <1>5 DEF GrantAfter
<1> QED BY <1>3, <1>4, <1>5

LEMMA StatusAfterFacts ==
    ASSUME NEW action \in Actions
    PROVE  /\ StatusAfter(action) \in Resolved
           /\ StatusAfter(action) = "unblocked_once" <=> action = "allow_once"
BY DEF StatusAfter, Actions, Resolved

(* Filing leaves the cases alone, or opens one new case, for which there   *)
(* was no pending case with the same evidence.                             *)
LEMMA FiledFacts ==
    ASSUME NEW cs \in [CaseIds -> Cases], NEW scope \in Scopes, NEW bound \in Scopes,
           NEW fs \in SUBSET Findings, NEW cs2 \in FiledCases(cs, scope, bound, fs)
    PROVE  /\ cs2 \in [CaseIds -> Cases]
           /\ \/ cs2 = cs
              \/ \E c \in CaseIds :
                    /\ cs[c].status = "none"
                    /\ cs2 = [cs EXCEPT ![c] = FiledCase(scope, bound, fs)]
                    /\ SameEvidence(cs, scope, fs) = {}
<1>1. FiledCase(scope, bound, fs) \in Cases
  BY DEF FiledCase, Cases, Open
<1>2. CASE fs = {} \/ SameEvidence(cs, scope, fs) # {}
  BY <1>2 DEF FiledCases
<1>3. CASE ~(fs = {} \/ SameEvidence(cs, scope, fs) # {})
  <2>1. PICK c \in CaseIds : /\ cs[c].status = "none"
                             /\ cs2 = [cs EXCEPT ![c] = FiledCase(scope, bound, fs)]
    BY <1>3 DEF FiledCases
  <2> QED BY <1>1, <1>3, <2>1
<1> QED BY <1>2, <1>3

(***************************************************************************)
(* SkillGrants: type, one pending case per evidence, once means once.      *)
(***************************************************************************)
GInv == TypeOK /\ NoDuplicatePending /\ OnceMeansOnce

LEMMA GInit == Init => GInv
<1> SUFFICES ASSUME Init PROVE GInv
  OBVIOUS
<1>1. NoCase \in Cases /\ NoGrant \in Grants
  BY DEF NoCase, Cases, Open, NoGrant, Grants
<1>2. TypeOK
  BY <1>1 DEF Init, TypeOK
<1>3. NoDuplicatePending
  BY DEF Init, NoDuplicatePending, NoCase
<1>4. OnceMeansOnce
  <2> SUFFICES ASSUME NEW scope \in Scopes, NEW f \in Findings
               PROVE  used[scope][f] + store[scope].once[f] <= Cardinality(Reviews(scope, f))
    BY DEF OnceMeansOnce
  <2>1. Reviews(scope, f) = {}
    BY DEF Init, Reviews, NoCase
  <2>2. Cardinality(Reviews(scope, f)) = 0
    BY <2>1, FS_EmptySet
  <2>3. used[scope][f] = 0
    BY DEF Init
  <2>4. store[scope].once[f] = 0
    BY DEF Init, NoGrant
  <2> QED BY <2>2, <2>3, <2>4
<1> QED BY <1>2, <1>3, <1>4 DEF GInv

LEMMA FilingKeepsUnique ==
    ASSUME TypeOK, NoDuplicatePending, NEW scope \in Scopes, NEW bound \in Scopes,
           NEW fs \in SUBSET Findings, case' \in FiledCases(case, scope, bound, fs)
    PROVE  /\ case' \in [CaseIds -> Cases]
           /\ NoDuplicatePending'
           /\ \A s \in Scopes, f \in Findings : Reviews(s, f)' = Reviews(s, f)
<1>1. case \in [CaseIds -> Cases]
  BY DEF TypeOK
<1>2. /\ case' \in [CaseIds -> Cases]
      /\ \/ case' = case
         \/ \E c \in CaseIds :
               /\ case[c].status = "none"
               /\ case' = [case EXCEPT ![c] = FiledCase(scope, bound, fs)]
               /\ SameEvidence(case, scope, fs) = {}
  BY <1>1, FiledFacts
<1>3. CASE case' = case
  BY <1>2, <1>3 DEF NoDuplicatePending, Reviews
<1>4. ASSUME NEW c \in CaseIds, case[c].status = "none",
             case' = [case EXCEPT ![c] = FiledCase(scope, bound, fs)],
             SameEvidence(case, scope, fs) = {}
      PROVE  NoDuplicatePending' /\ \A s \in Scopes, f \in Findings : Reviews(s, f)' = Reviews(s, f)
  <2>1. /\ case'[c].status = "pending" /\ case'[c].scope = scope /\ case'[c].findings = fs
        /\ \A d \in CaseIds \ {c} : case'[d] = case[d]
    BY <1>1, <1>4 DEF FiledCase
  <2>2. \A d \in CaseIds : ~(case[d].status = "pending" /\ case[d].scope = scope
                                                        /\ case[d].findings = fs)
    BY <1>4 DEF SameEvidence
  <2>3. NoDuplicatePending'
    BY <2>1, <2>2 DEF NoDuplicatePending
  <2>4. \A s \in Scopes, f \in Findings : Reviews(s, f)' = Reviews(s, f)
    BY <1>4, <2>1 DEF Reviews
  <2> QED BY <2>3, <2>4
<1> QED BY <1>2, <1>3, <1>4

LEMMA ReviewsFinite ==
    ASSUME NEW scope \in Scopes, NEW f \in Findings
    PROVE  IsFiniteSet(Reviews(scope, f)) /\ Cardinality(Reviews(scope, f)) \in Nat
<1>1. Reviews(scope, f) \subseteq CaseIds
  BY DEF Reviews
<1> QED BY <1>1, CaseIdsAssumption, FS_Subset, FS_CardinalityType

LEMMA AttemptStep ==
    ASSUME GInv, NEW scope \in Scopes, NEW filed \in Scopes,
           NEW doc \in SUBSET Findings, Attempt(scope, filed, doc)
    PROVE  GInv'
<1> DEFINE grant == store[scope]
<1>1. grant \in Grants
  BY DEF GInv, TypeOK
<1>2. /\ Spent(grant, doc) \in Grants
      /\ \A f \in Findings :
            Spent(grant, doc).once[f] =
                IF f \in Approved(grant, doc) \ grant.always
                THEN grant.once[f] - 1 ELSE grant.once[f]
  BY <1>1, SpentFacts
<1>3. store' = [store EXCEPT ![scope] = Spent(grant, doc)]
  BY DEF Attempt
<1>4. /\ case' \in [CaseIds -> Cases]
      /\ NoDuplicatePending'
      /\ \A s \in Scopes, f \in Findings : Reviews(s, f)' = Reviews(s, f)
  BY FilingKeepsUnique DEF Attempt, GInv
<1>5. \A s \in Scopes, f \in Findings :
         used'[s][f] = IF s = scope /\ f \in Approved(grant, doc) \ grant.always
                       THEN used[s][f] + 1 ELSE used[s][f]
  BY DEF Attempt, CountUse, GInv, TypeOK
<1>6. used' \in [Scopes -> [Findings -> Nat]]
  BY DEF Attempt, CountUse, GInv, TypeOK
<1>7. TypeOK'
  BY <1>2, <1>3, <1>4, <1>6 DEF GInv, TypeOK
<1>8. OnceMeansOnce'
  <2> SUFFICES ASSUME NEW s \in Scopes, NEW f \in Findings
               PROVE  used'[s][f] + store'[s].once[f] <= Cardinality(Reviews(s, f))
    BY <1>4 DEF OnceMeansOnce
  <2>1. used[s][f] \in Nat /\ store[s].once[f] \in Nat
    BY DEF GInv, TypeOK, Grants
  <2>2. used[s][f] + store[s].once[f] <= Cardinality(Reviews(s, f))
    BY DEF GInv, OnceMeansOnce
  <2>3. used'[s][f] + store'[s].once[f] = used[s][f] + store[s].once[f]
    <3>1. CASE s = scope
      <4>1. store'[s] = Spent(grant, doc)
        BY <1>3, <3>1 DEF GInv, TypeOK
      <4>2. CASE f \in Approved(grant, doc) \ grant.always
        <5>1. store'[s].once[f] = store[s].once[f] - 1
          BY <1>2, <3>1, <4>1, <4>2
        <5>2. used'[s][f] = used[s][f] + 1
          BY <1>5, <3>1, <4>2
        <5> QED BY <2>1, <5>1, <5>2
      <4>3. CASE f \notin Approved(grant, doc) \ grant.always
        BY <1>2, <1>5, <3>1, <4>1, <4>3
      <4> QED BY <4>2, <4>3
    <3>2. CASE s # scope
      BY <1>3, <1>5, <3>2 DEF GInv, TypeOK
    <3> QED BY <3>1, <3>2
  <2> QED BY <2>2, <2>3
<1> QED BY <1>4, <1>7, <1>8 DEF GInv

LEMMA ReportStep ==
    ASSUME GInv, NEW filed \in Scopes, NEW bound \in Scopes,
           NEW doc \in SUBSET Findings, Report(filed, bound, doc)
    PROVE  GInv'
<1>1. /\ case' \in [CaseIds -> Cases]
      /\ NoDuplicatePending'
      /\ \A s \in Scopes, f \in Findings : Reviews(s, f)' = Reviews(s, f)
  BY FilingKeepsUnique DEF Report, GInv
<1>2. store' = store /\ used' = used
  BY DEF Report
<1>3. OnceMeansOnce'
  BY <1>1, <1>2 DEF GInv, OnceMeansOnce
<1> QED BY <1>1, <1>2, <1>3 DEF GInv, TypeOK

LEMMA ResolveStep ==
    ASSUME GInv, NEW c \in CaseIds, NEW action \in Actions, Resolve(c, action)
    PROVE  GInv'
<1> DEFINE row == case[c]
           scope == row.scope
<1>1. row \in Cases /\ row.status = "pending"
  BY DEF Resolve, Resolvable, GInv, TypeOK
<1>2. /\ case' = [case EXCEPT ![c] = [row EXCEPT !.status = StatusAfter(action)]]
      /\ store' = [store EXCEPT ![scope] = GrantAfter(store[scope], row, action)]
      /\ used' = used
  BY DEF Resolve
<1>3. [row EXCEPT !.status = StatusAfter(action)] \in Cases
  BY <1>1, StatusAfterFacts DEF Cases
<1>4. /\ case' \in [CaseIds -> Cases]
      /\ \A d \in CaseIds \ {c} : case'[d] = case[d]
      /\ case'[c].status = StatusAfter(action)
      /\ case'[c].scope = scope /\ case'[c].findings = row.findings
  BY <1>1, <1>2, <1>3 DEF GInv, TypeOK, Cases
<1>5. \A s \in Scopes : s = scope => GrantAfter(store[s], row, action) \in Grants
  BY <1>1, GrantAfterFacts DEF GInv, TypeOK
<1>6. TypeOK'
  BY <1>2, <1>4, <1>5 DEF GInv, TypeOK
<1>7. NoDuplicatePending'
  BY <1>4, StatusAfterFacts DEF GInv, NoDuplicatePending, Resolved
<1>8. OnceMeansOnce'
  <2> SUFFICES ASSUME NEW s \in Scopes, NEW f \in Findings
               PROVE  used'[s][f] + store'[s].once[f] <= Cardinality(Reviews(s, f)')
    BY DEF OnceMeansOnce
  <2>1. used[s][f] \in Nat /\ store[s].once[f] \in Nat /\ store'[s].once[f] \in Nat
    BY <1>6 DEF GInv, TypeOK, Grants
  <2>2. used[s][f] + store[s].once[f] <= Cardinality(Reviews(s, f))
    BY DEF GInv, OnceMeansOnce
  <2>3. IsFiniteSet(Reviews(s, f)) /\ Cardinality(Reviews(s, f)) \in Nat
    BY ReviewsFinite
  <2>4. c \notin Reviews(s, f)
    BY <1>1 DEF Reviews
  <2>5. CASE s = scope /\ f \in row.findings /\ action = "allow_once"
    <3>1. Reviews(s, f)' = Reviews(s, f) \cup {c}
      BY <1>4, <2>5, StatusAfterFacts DEF Reviews
    <3>2. Cardinality(Reviews(s, f)') = Cardinality(Reviews(s, f)) + 1
      BY <3>1, <2>3, <2>4, FS_AddElement
    <3>3. store'[s].once[f] <= store[s].once[f] + 1
      <4>1. store'[s] = GrantAfter(store[s], row, action) /\ store[s] \in Grants
        BY <1>2, <2>5 DEF GInv, TypeOK
      <4>2. \/ GrantAfter(store[s], row, action).once[f] <= store[s].once[f]
            \/ GrantAfter(store[s], row, action).once[f] = store[s].once[f] + 1
        BY <1>1, <4>1, GrantAfterFacts
      <4> QED BY <2>1, <4>1, <4>2
    <3> QED BY <1>2, <2>1, <2>2, <2>3, <3>2, <3>3
  <2>6. CASE ~(s = scope /\ f \in row.findings /\ action = "allow_once")
    <3>1. Reviews(s, f)' = Reviews(s, f)
      BY <1>4, <2>4, <2>6, StatusAfterFacts DEF Reviews
    <3>2. store'[s].once[f] <= store[s].once[f]
      <4>1. CASE s = scope
        BY <1>1, <1>2, <2>1, <2>6, <4>1, GrantAfterFacts DEF GInv, TypeOK
      <4>2. CASE s # scope
        BY <1>2, <2>1, <4>2 DEF GInv, TypeOK
      <4> QED BY <4>1, <4>2
    <3> QED BY <1>2, <2>1, <2>2, <2>3, <3>1, <3>2
  <2> QED BY <2>5, <2>6
<1> QED BY <1>6, <1>7, <1>8 DEF GInv

LEMMA GNext == GInv /\ [Next]_vars => GInv'
<1> SUFFICES ASSUME GInv, [Next]_vars PROVE GInv'
  OBVIOUS
<1>1. \A doc \in Documents : doc \in SUBSET Findings
  BY DocumentsAssumption
<1>2. CASE UNCHANGED vars
  BY <1>2 DEF vars, GInv, TypeOK, NoDuplicatePending, OnceMeansOnce, Reviews
<1> QED BY <1>1, <1>2, AttemptStep, ReportStep, ResolveStep DEF Next

LEMMA GInductive == Spec => []GInv
BY GInit, GNext, PTL DEF Spec

(* Grants and cases are well-typed: no allowance goes below zero.          *)
THEOREM GrantsTypeCorrect == Spec => []TypeOK
BY GInductive, PTL DEF GInv

(* An allow-once review lets its finding through once, for any number of   *)
(* workspaces, findings and cases.                                         *)
THEOREM AllowOnceLetsThroughOnce == Spec => []OnceMeansOnce
BY GInductive, PTL DEF GInv

(* Repeated attempts share their pending case.                             *)
THEOREM OnePendingCase == Spec => []NoDuplicatePending
BY GInductive, PTL DEF GInv

(***************************************************************************)
(* What one step may do to grants and cases.                               *)
(***************************************************************************)
LEMMA FilingStep ==
    ASSUME GInv, NEW scope \in Scopes, NEW bound \in Scopes, NEW fs \in SUBSET Findings,
           case' \in FiledCases(case, scope, bound, fs)
    PROVE  CaseStep
<1>1. case \in [CaseIds -> Cases]
  BY DEF GInv, TypeOK
<1>2. \/ case' = case
      \/ \E c \in CaseIds :
            /\ case[c].status = "none"
            /\ case' = [case EXCEPT ![c] = FiledCase(scope, bound, fs)]
  BY <1>1, FiledFacts
<1> QED BY <1>2 DEF CaseStep, GInv, TypeOK

LEMMA AttemptGrants ==
    ASSUME GInv, NEW scope \in Scopes, NEW filed \in Scopes,
           NEW doc \in SUBSET Findings, Attempt(scope, filed, doc)
    PROVE  GrantStep /\ CaseStep
<1>1. store[scope] \in Grants
  BY DEF GInv, TypeOK
<1>2. store' = [store EXCEPT ![scope] = Spent(store[scope], doc)]
  BY DEF Attempt
<1>3. \A s \in Scopes, f \in Findings :
         store'[s].once[f] <= store[s].once[f] /\ store'[s].always = store[s].always
  <2> TAKE s \in Scopes, f \in Findings
  <2>1. store[s].once[f] \in Nat
    BY DEF GInv, TypeOK, Grants
  <2>2. CASE s = scope
    <3>1. store'[s] = Spent(store[s], doc)
      BY <1>2, <2>2 DEF GInv, TypeOK
    <3>2. /\ Spent(store[s], doc).always = store[s].always
          /\ \/ Spent(store[s], doc).once[f] = store[s].once[f]
             \/ Spent(store[s], doc).once[f] = store[s].once[f] - 1
      BY <1>1, <2>2, SpentFacts
    <3> QED BY <2>1, <3>1, <3>2
  <2>3. CASE s # scope
    BY <1>2, <2>1, <2>3 DEF GInv, TypeOK
  <2> QED BY <2>2, <2>3
<1>4. \A s \in Scopes, f \in Findings : store[s].once[f] \in Nat /\ store'[s].once[f] \in Nat
  BY AttemptStep DEF GInv, TypeOK, Grants
<1>5. GrantStep
  BY <1>3, <1>4 DEF GrantStep
<1>6. CaseStep
  BY FilingStep DEF Attempt
<1> QED BY <1>5, <1>6

LEMMA ResolveGrants ==
    ASSUME GInv, NEW c \in CaseIds, NEW action \in Actions, Resolve(c, action)
    PROVE  GrantStep /\ CaseStep
<1> DEFINE row == case[c]
<1>1. row \in Cases /\ row.status = "pending" /\ (action = "keep_rejected" \/ row.bound = row.scope)
  BY DEF Resolve, Resolvable, GInv, TypeOK
<1>2. /\ case' = [case EXCEPT ![c] = [row EXCEPT !.status = StatusAfter(action)]]
      /\ store' = [store EXCEPT ![row.scope] = GrantAfter(store[row.scope], row, action)]
  BY DEF Resolve
<1>3. case'[c] = [row EXCEPT !.status = StatusAfter(action)]
  BY <1>2 DEF GInv, TypeOK
<1>4. case'[c].status = StatusAfter(action)
  BY <1>1, <1>3 DEF Cases
<1>5. CaseStep
  <2>1. \A d \in CaseIds \ {c} : case'[d] = case[d]
    BY <1>2 DEF GInv, TypeOK
  <2>2. [case'[c] EXCEPT !.status = "pending"] = row
    BY <1>1, <1>3 DEF Cases
  <2>3. case'[c].status \in Resolved
    BY <1>4, StatusAfterFacts
  <2> QED BY <1>1, <2>1, <2>2, <2>3 DEF CaseStep
<1>6. GrantStep
  <2> SUFFICES ASSUME NEW s \in Scopes, NEW f \in Findings
               PROVE  /\ store'[s].once[f] > store[s].once[f]
                             => /\ store'[s].once[f] = store[s].once[f] + 1
                                /\ Reviewed(s, f, "allow_once")
                      /\ f \in store'[s].always \ store[s].always
                             => Reviewed(s, f, "allow_always")
    BY DEF GrantStep
  <2>1. store[s] \in Grants /\ store[s].once[f] \in Nat /\ store'[s].once[f] \in Nat
    BY ResolveStep DEF GInv, TypeOK, Grants
  <2>2. CASE s # row.scope
    <3>1. store'[s] = store[s]
      BY <1>2, <2>2 DEF GInv, TypeOK
    <3> QED BY <2>1, <3>1
  <2>3. CASE s = row.scope
    <3>1. store'[s] = GrantAfter(store[s], row, action)
      BY <1>2, <2>3 DEF GInv, TypeOK
    <3>2. \/ store'[s].once[f] <= store[s].once[f]
          \/ /\ action = "allow_once" /\ f \in row.findings
             /\ store'[s].once[f] = store[s].once[f] + 1
      BY <1>1, <2>1, <3>1, GrantAfterFacts
    <3>3. f \in store'[s].always \ store[s].always
              => action = "allow_always" /\ f \in row.findings
      BY <1>1, <2>1, <3>1, GrantAfterFacts
    <3>4. action # "keep_rejected" /\ f \in row.findings => Reviewed(s, f, action)
      BY <1>1, <1>4, <2>3 DEF Reviewed
    <3>5. store'[s].once[f] > store[s].once[f]
              => /\ store'[s].once[f] = store[s].once[f] + 1
                 /\ action = "allow_once" /\ f \in row.findings
      BY <2>1, <3>2
    <3> QED BY <3>3, <3>4, <3>5
  <2> QED BY <2>2, <2>3
<1> QED BY <1>5, <1>6

LEMMA StepFacts == GInv /\ [Next]_vars => [GrantStep]_vars /\ [CaseStep]_vars
<1> SUFFICES ASSUME GInv, Next PROVE GrantStep /\ CaseStep
  OBVIOUS
<1>1. \A doc \in Documents : doc \in SUBSET Findings
  BY DocumentsAssumption
<1>2. ASSUME NEW scope \in Scopes, NEW filed \in Scopes, NEW doc \in Documents,
             Report(filed, scope, doc)
      PROVE  GrantStep /\ CaseStep
  <2>1. CaseStep
    BY <1>1, <1>2, FilingStep DEF Report
  <2>2. store' = store /\ \A s \in Scopes, f \in Findings : store[s].once[f] \in Nat
    BY <1>2 DEF Report, GInv, TypeOK, Grants
  <2>3. GrantStep
    BY <2>2 DEF GrantStep
  <2> QED BY <2>1, <2>3
<1> QED BY <1>1, <1>2, AttemptGrants, ResolveGrants DEF Next

(* A grant appears or grows only by the review of a pending case of its    *)
(* workspace that lists the finding.                                       *)
THEOREM GrantsComeFromReviews == Spec => OnlyReviewsGrant
BY GInductive, StepFacts, PTL DEF Spec, OnlyReviewsGrant

(* A resolved case never changes again.                                    *)
THEOREM ResolvedCasesStay == Spec => CasesImmutable
BY GInductive, StepFacts, PTL DEF Spec, CasesImmutable

(***************************************************************************)
(* SkillReview: under the lock a session decides on the rows as they are,  *)
(* so that each of its commits is one step of SkillGrants.                 *)
(***************************************************************************)
ScansDocuments ==
    \A s \in Sessions :
        session[s].phase # "idle" /\ session[s].op # "resolve"
            => session[s].doc \in Documents

RInv == ReviewTypeOK /\ GInv /\ DecidesOnCurrentRows /\ ScansDocuments

LEMMA ReviewStart == ReviewInit => RInv
<1> SUFFICES ASSUME ReviewInit PROVE RInv
  OBVIOUS
<1>1. GInv
  BY GInit DEF ReviewInit
<1>2. NoGrants \in [Scopes -> Grants] /\ NoCases \in [CaseIds -> Cases]
  BY DEF NoGrants, NoGrant, Grants, NoCases, NoCase, Cases, Open
<1>3. NoSession \in SessionStates
  BY <1>2, PersonalAssumption DEF NoSession, SessionStates, Actions
<1>4. NoSession.phase = "idle"
  BY DEF NoSession
<1>5. ReviewTypeOK
  BY <1>1, <1>3, ChangesAssumption DEF ReviewInit, ReviewTypeOK, GInv
<1> QED BY <1>1, <1>4, <1>5 DEF ReviewInit, RInv, DecidesOnCurrentRows, ScansDocuments

(* The decisions are steps of SkillGrants. *)
LEMMA WroteGrants ==
    ASSUME RInv, NEW s \in Sessions, session[s].phase = "deciding",
           NEW scope \in Scopes, NEW grant, WriteGrants(session[s], scope, grant)
    PROVE  store' = [store EXCEPT ![scope] = grant]
BY DEF RInv, ReviewTypeOK, TypeOK, DecidesOnCurrentRows, WriteGrants

LEMMA WroteCases ==
    ASSUME RInv, NEW s \in Sessions, session[s].phase = "deciding",
           NEW cs2 \in [CaseIds -> Cases], WriteCases(session[s], cs2)
    PROVE  case' = cs2
<1>1. session[s].cases = case
  BY DEF RInv, DecidesOnCurrentRows
<1>2. \A c \in CaseIds : case'[c] = cs2[c]
  BY <1>1 DEF WriteCases
<1>3. case' = [c \in CaseIds |-> cs2[c]]
  BY <1>1 DEF WriteCases
<1> QED BY <1>3

LEMMA ScanImplements ==
    ASSUME RInv, NEW s \in Sessions, DecideScan(s)
    PROVE  /\ session[s].scope \in Scopes /\ session[s].org \in Scopes
           /\ session[s].doc \in Documents
           /\ Attempt(session[s].scope, session[s].org, session[s].doc)
<1> DEFINE scope == session[s].scope
           org == session[s].org
           doc == session[s].doc
           grant == store[scope]
<1>1. /\ session[s] \in SessionStates /\ session[s].phase = "deciding"
      /\ session[s].op = "scan"
  BY DEF RInv, ReviewTypeOK, DecideScan
<1>2. scope \in Scopes /\ org \in Scopes /\ doc \in SUBSET Findings
  BY <1>1 DEF SessionStates
<1>3. doc \in Documents
  BY <1>1 DEF RInv, ScansDocuments
<1>4. session[s].grants = store /\ session[s].cases = case /\ case \in [CaseIds -> Cases]
  BY <1>1 DEF RInv, DecidesOnCurrentRows, GInv, TypeOK
<1>5. WriteGrants(session[s], scope, Spent(grant, doc)) /\ CountUse(scope, grant, doc)
  BY <1>4 DEF DecideScan
<1>6. store' = [store EXCEPT ![scope] = Spent(grant, doc)]
  BY <1>1, <1>2, <1>5, WroteGrants
<1>7. PICK cs2 \in FiledCases(case, org, org, doc \ Approved(grant, doc)) :
         WriteCases(session[s], cs2)
  BY <1>4 DEF DecideScan
<1>8. doc \ Approved(grant, doc) \in SUBSET Findings
  BY <1>2
<1>9. cs2 \in [CaseIds -> Cases]
  BY <1>2, <1>4, <1>7, <1>8, FiledFacts
<1>10. case' = cs2
  BY <1>1, <1>7, <1>9, WroteCases
<1> QED BY <1>2, <1>3, <1>5, <1>6, <1>7, <1>10 DEF Attempt

LEMMA ReportImplements ==
    ASSUME RInv, NEW s \in Sessions, DecideReport(s)
    PROVE  /\ session[s].scope \in Scopes /\ session[s].org \in Scopes
           /\ session[s].doc \in Documents
           /\ Report(session[s].org, session[s].scope, session[s].doc)
<1> DEFINE scope == session[s].scope
           org == session[s].org
           doc == session[s].doc
<1>1. /\ session[s] \in SessionStates /\ session[s].phase = "deciding"
      /\ session[s].op = "report"
  BY DEF RInv, ReviewTypeOK, DecideReport
<1>2. scope \in Scopes /\ org \in Scopes /\ doc \in SUBSET Findings
  BY <1>1 DEF SessionStates
<1>3. doc \in Documents
  BY <1>1 DEF RInv, ScansDocuments
<1>4. session[s].cases = case /\ case \in [CaseIds -> Cases]
  BY <1>1 DEF RInv, DecidesOnCurrentRows, GInv, TypeOK
<1>5. PICK cs2 \in FiledCases(case, org, scope, doc) : WriteCases(session[s], cs2)
  BY <1>4 DEF DecideReport
<1>6. cs2 \in [CaseIds -> Cases]
  BY <1>2, <1>4, <1>5, FiledFacts
<1>7. case' = cs2
  BY <1>1, <1>5, <1>6, WroteCases
<1> QED BY <1>2, <1>3, <1>5, <1>7 DEF Report, DecideReport

LEMMA ResolveImplements ==
    ASSUME RInv, NEW s \in Sessions, NEW c \in CaseIds, DecideResolve(s, c)
    PROVE  session[s].action \in Actions /\ Resolve(c, session[s].action)
<1> DEFINE action == session[s].action
           row == case[c]
           resolved == [row EXCEPT !.status = StatusAfter(action)]
           cs2 == [case EXCEPT ![c] = resolved]
<1>1. session[s] \in SessionStates /\ session[s].phase = "deciding"
  BY DEF RInv, ReviewTypeOK, DecideResolve
<1>2. action \in Actions /\ session[s].org \in Scopes
  BY <1>1 DEF SessionStates
<1>3. /\ session[s].grants = store /\ session[s].cases = case
      /\ case \in [CaseIds -> Cases] /\ row \in Cases
  BY <1>1 DEF RInv, DecidesOnCurrentRows, GInv, TypeOK
<1>4. /\ row.scope = session[s].org /\ Resolvable(row, action)
      /\ WriteGrants(session[s], row.scope, GrantAfter(store[row.scope], row, action))
      /\ WriteCases(session[s], cs2)
      /\ used' = used
  BY <1>3 DEF DecideResolve
<1>5. store' = [store EXCEPT ![row.scope] = GrantAfter(store[row.scope], row, action)]
  BY <1>1, <1>2, <1>4, WroteGrants
<1>6. resolved \in Cases
  BY <1>2, <1>3, StatusAfterFacts DEF Cases
<1>7. cs2 \in [CaseIds -> Cases]
  BY <1>3, <1>6
<1>8. case' = cs2
  BY <1>1, <1>4, <1>7, WroteCases
<1> QED BY <1>2, <1>4, <1>5, <1>8 DEF Resolve

LEMMA StepImplements == RInv /\ [ReviewNext]_reviewVars => [Next]_vars
<1> SUFFICES ASSUME RInv, ReviewNext PROVE [Next]_vars
  BY DEF reviewVars, vars
<1>1. ASSUME NEW s \in Sessions, DecideScan(s) PROVE Next
  BY <1>1, ScanImplements DEF Next
<1>2. ASSUME NEW s \in Sessions, DecideReport(s) PROVE Next
  BY <1>2, ReportImplements DEF Next
<1>3. ASSUME NEW s \in Sessions, NEW c \in CaseIds, DecideResolve(s, c) PROVE Next
  BY <1>3, ResolveImplements DEF Next
<1>4. ASSUME AccountStep PROVE UNCHANGED vars
  BY <1>4 DEF AccountStep, Switch, Join, Leave, Deactivate, Change, vars
<1>5. ASSUME NEW s \in Sessions,
             \/ \E byKey \in BOOLEAN, scope \in Scopes, doc \in Documents :
                   BeginScan(s, byKey, scope, doc)
             \/ \E doc \in Documents : BeginReport(s, doc)
             \/ \E c \in CaseIds, action \in Actions : BeginResolve(s, c, action)
             \/ Acquire(s) \/ Abandon(s)
      PROVE  UNCHANGED vars
  BY <1>5 DEF BeginScan, BeginReport, BeginResolve, Acquire, Abandon, vars
<1> QED BY <1>1, <1>2, <1>3, <1>4, <1>5 DEF ReviewNext, SessionStep

LEMMA StepKeepsLock ==
    ASSUME RInv, [ReviewNext]_reviewVars
    PROVE  RInv'
<1>1. GInv'
  BY StepImplements, GNext DEF RInv
<1>2. /\ account \in Accounts /\ holder \in SUBSET Sessions /\ changes \in 0..Changes
      /\ session \in [Sessions -> SessionStates]
  BY DEF RInv, ReviewTypeOK
<1>3. store \in [Scopes -> Grants] /\ case \in [CaseIds -> Cases]
  BY DEF RInv, GInv, TypeOK
<1>4. NoSession \in SessionStates /\ NoSession.phase = "idle"
  <2>1. NoGrants \in [Scopes -> Grants] /\ NoCases \in [CaseIds -> Cases]
    BY DEF NoGrants, NoGrant, Grants, NoCases, NoCase, Cases, Open
  <2> QED BY <2>1, PersonalAssumption DEF NoSession, SessionStates, Actions
<1>5. ASSUME NEW s \in Sessions, NEW new \in SessionStates, Become(s, new),
             new.phase = "waiting", new.op # "resolve" => new.doc \in Documents,
             UNCHANGED <<store, case, used, account, holder, changes>>
      PROVE  RInv'
  <2>1. session' = [session EXCEPT ![s] = new]
    BY <1>5 DEF Become
  <2>2. ReviewTypeOK'
    BY <1>1, <1>2, <1>5, <2>1 DEF ReviewTypeOK, GInv
  <2>3. DecidesOnCurrentRows' /\ ScansDocuments'
    BY <1>2, <1>5, <2>1 DEF RInv, DecidesOnCurrentRows, ScansDocuments
  <2> QED BY <1>1, <2>2, <2>3 DEF RInv
<1>6. ASSUME NEW s \in Sessions, Become(s, NoSession), holder' = holder \ {s},
             session[s].phase = "deciding" \/ (store' = store /\ case' = case),
             UNCHANGED <<account, changes>>
      PROVE  RInv'
  <2>1. session' = [session EXCEPT ![s] = NoSession]
    BY <1>6 DEF Become
  <2>2. ReviewTypeOK'
    BY <1>1, <1>2, <1>4, <1>6, <2>1 DEF ReviewTypeOK, GInv
  <2>3. ScansDocuments'
    BY <1>2, <1>4, <2>1 DEF RInv, ScansDocuments
  <2>4. DecidesOnCurrentRows'
    <3> SUFFICES ASSUME NEW t \in Sessions, session'[t].phase = "deciding"
                 PROVE  holder' = {t} /\ session'[t].grants = store' /\ session'[t].cases = case'
      BY DEF DecidesOnCurrentRows
    <3>1. t # s /\ session'[t] = session[t]
      BY <1>2, <1>4, <2>1
    <3>2. holder = {t} /\ session[t].grants = store /\ session[t].cases = case
      BY <3>1 DEF RInv, DecidesOnCurrentRows
    <3>3. session[s].phase # "deciding"
      BY <3>1, <3>2 DEF RInv, DecidesOnCurrentRows
    <3> QED BY <1>6, <3>1, <3>2, <3>3
  <2> QED BY <1>1, <2>2, <2>3, <2>4 DEF RInv
<1>7. ASSUME NEW s \in Sessions, NEW byKey \in BOOLEAN, NEW scope \in Scopes,
             NEW doc \in Documents, BeginScan(s, byKey, scope, doc)
      PROVE  RInv'
  <2> DEFINE new == [NoSession EXCEPT !.phase = "waiting", !.byKey = byKey,
                                      !.scope = scope, !.org = scope, !.doc = doc]
  <2>1. new \in SessionStates /\ new.phase = "waiting" /\ new.doc \in Documents
    BY <1>4, DocumentsAssumption DEF NoSession, SessionStates
  <2>2. Become(s, new) /\ UNCHANGED <<store, case, used, account, holder, changes>>
    BY <1>7 DEF BeginScan
  <2> QED BY <1>5, <2>1, <2>2
<1>8. ASSUME NEW s \in Sessions, NEW doc \in Documents, BeginReport(s, doc)
      PROVE  RInv'
  <2> DEFINE new == [NoSession EXCEPT !.phase = "waiting", !.op = "report",
                        !.scope = account.home, !.org = account.home, !.doc = doc]
  <2>1. new \in SessionStates /\ new.phase = "waiting" /\ new.doc \in Documents
    BY <1>2, <1>4, DocumentsAssumption DEF NoSession, SessionStates, Accounts
  <2>2. Become(s, new) /\ UNCHANGED <<store, case, used, account, holder, changes>>
    BY <1>8 DEF BeginReport
  <2> QED BY <1>5, <2>1, <2>2
<1>9. ASSUME NEW s \in Sessions, NEW c \in CaseIds, NEW action \in Actions,
             BeginResolve(s, c, action)
      PROVE  RInv'
  <2> DEFINE new == [NoSession EXCEPT !.phase = "waiting", !.op = "resolve",
                        !.scope = account.home, !.org = account.home,
                        !.target = {c}, !.action = action]
  <2>1. new \in SessionStates /\ new.phase = "waiting" /\ new.op = "resolve"
    BY <1>2, <1>4 DEF NoSession, SessionStates, Accounts
  <2>2. Become(s, new) /\ UNCHANGED <<store, case, used, account, holder, changes>>
    BY <1>9 DEF BeginResolve
  <2> QED BY <1>5, <2>1, <2>2
<1>10. ASSUME NEW s \in Sessions, Acquire(s) PROVE RInv'
  <2> DEFINE old == session[s]
             org == IF old.byKey THEN old.org ELSE account.home
             new == [old EXCEPT !.phase = "deciding", !.org = org,
                                !.grants = store, !.cases = case]
  <2>1. old \in SessionStates /\ org \in Scopes
    BY <1>2 DEF SessionStates, Accounts
  <2>2. /\ new \in SessionStates /\ new.phase = "deciding" /\ new.op = old.op
        /\ new.doc = old.doc /\ new.grants = store /\ new.cases = case
    BY <1>3, <2>1 DEF SessionStates
  <2>3. /\ session' = [session EXCEPT ![s] = new]
        /\ holder = {} /\ holder' = {s} /\ old.phase = "waiting"
        /\ UNCHANGED <<store, case, used, account, changes>>
    BY <1>10 DEF Acquire, Become, LockFree
  <2> HIDE DEF new
  <2>4. ReviewTypeOK'
    BY <1>1, <1>2, <2>2, <2>3 DEF ReviewTypeOK, GInv
  <2>5. ScansDocuments'
    BY <1>2, <2>2, <2>3 DEF RInv, ScansDocuments
  <2>6. DecidesOnCurrentRows'
    <3> SUFFICES ASSUME NEW t \in Sessions, session'[t].phase = "deciding"
                 PROVE  holder' = {t} /\ session'[t].grants = store' /\ session'[t].cases = case'
      BY DEF DecidesOnCurrentRows
    <3>1. CASE t = s
      BY <1>2, <2>2, <2>3, <3>1
    <3>2. CASE t # s
      <4>1. session[t].phase = "deciding"
        BY <1>2, <2>3, <3>2
      <4>2. holder = {t}
        BY <4>1 DEF RInv, DecidesOnCurrentRows
      <4> QED BY <2>3, <4>2
    <3> QED BY <3>1, <3>2
  <2> QED BY <1>1, <2>4, <2>5, <2>6 DEF RInv
<1>11. ASSUME NEW s \in Sessions, Abandon(s) PROVE RInv'
  BY <1>6, <1>11 DEF Abandon
<1>12. ASSUME NEW s \in Sessions,
              DecideScan(s) \/ DecideReport(s) \/ \E c \in CaseIds : DecideResolve(s, c)
       PROVE  RInv'
  <2>1. session[s].phase = "deciding" /\ Commit(s)
    BY <1>12 DEF DecideScan, DecideReport, DecideResolve
  <2> QED BY <1>6, <2>1 DEF Commit
<1>13. ASSUME NEW new \in Accounts, Change(new) PROVE RInv'
  <2>1. UNCHANGED <<store, case, used, holder, session>> /\ account' = new
    BY <1>13 DEF Change
  <2>2. changes' \in 0..Changes
    BY <1>2, <1>13, ChangesAssumption DEF Change
  <2>3. ReviewTypeOK'
    BY <1>1, <1>2, <1>13, <2>1, <2>2 DEF ReviewTypeOK, GInv
  <2>4. DecidesOnCurrentRows' /\ ScansDocuments'
    BY <2>1 DEF RInv, DecidesOnCurrentRows, ScansDocuments
  <2> QED BY <1>1, <2>3, <2>4 DEF RInv
<1>14. ASSUME AccountStep PROVE RInv'
  <2>1. ASSUME NEW w \in Workspaces, Switch(w) PROVE RInv'
    <3>1. [account EXCEPT !.home = w] \in Accounts
      BY <1>2 DEF Accounts, Workspaces
    <3> QED BY <1>13, <2>1, <3>1 DEF Switch
  <2>2. ASSUME NEW w \in Workspaces, Join(w) PROVE RInv'
    <3> DEFINE new == [home |-> IF account.home = Personal THEN w ELSE account.home,
                       member |-> account.member \cup {w}, active |-> TRUE]
    <3>1. new \in Accounts
      BY <1>2 DEF Accounts, Workspaces
    <3> QED BY <1>13, <2>2, <3>1 DEF Join
  <2>3. ASSUME NEW w \in Workspaces, Leave(w) PROVE RInv'
    <3>1. PICK home \in Scopes :
             Change([account EXCEPT !.home = home, !.member = account.member \ {w}])
      BY <1>2, <2>3, PersonalAssumption DEF Leave, Accounts, Workspaces
    <3>2. [account EXCEPT !.home = home, !.member = account.member \ {w}] \in Accounts
      BY <1>2, <3>1 DEF Accounts
    <3> QED BY <1>13, <3>1, <3>2
  <2>4. ASSUME Deactivate PROVE RInv'
    <3>1. [account EXCEPT !.active = FALSE] \in Accounts
      BY <1>2 DEF Accounts
    <3> QED BY <1>13, <2>4, <3>1 DEF Deactivate
  <2> QED BY <1>14, <2>1, <2>2, <2>3, <2>4 DEF AccountStep
<1>15. CASE UNCHANGED reviewVars
  <2>1. UNCHANGED <<store, case, used, account, holder, session, changes>>
    BY <1>15 DEF reviewVars
  <2>2. ReviewTypeOK'
    BY <1>1, <1>2, <2>1 DEF ReviewTypeOK, GInv
  <2>3. DecidesOnCurrentRows' /\ ScansDocuments'
    BY <2>1 DEF RInv, DecidesOnCurrentRows, ScansDocuments
  <2> QED BY <1>1, <2>2, <2>3 DEF RInv
<1>16. CASE ReviewNext
  BY <1>7, <1>8, <1>9, <1>10, <1>11, <1>12, <1>14, <1>16 DEF ReviewNext, SessionStep
<1> QED BY <1>15, <1>16

LEMMA ReviewInductive == ReviewSpec => []RInv
BY ReviewStart, StepKeepsLock, PTL DEF ReviewSpec

(* Sessions, account and rows are well-typed. *)
THEOREM ReviewTypeCorrect == ReviewSpec => []ReviewTypeOK
BY ReviewInductive, PTL DEF RInv

(* Two sessions are never between their reading of the rows and their      *)
(* commit, however the user is moved about meanwhile.                      *)
THEOREM LockCoversDecision == ReviewSpec => []DecidesOnCurrentRows
BY ReviewInductive, PTL DEF RInv

(* Overlapping sessions implement the atomic review of SkillGrants, for    *)
(* any number of sessions, workspaces, findings and cases.                 *)
THEOREM LockSerializes == ReviewSpec => Serialized
<1>1. ReviewInit => Init
  BY DEF ReviewInit
<1> QED BY <1>1, ReviewInductive, StepImplements, PTL DEF ReviewSpec, Serialized, Spec

(* What SkillGrants guarantees holds of the overlapping sessions too: a    *)
(* grant is consumed once, whichever requests race for it.                 *)
THEOREM OnceMeansOnceUnderRaces == ReviewSpec => []OnceMeansOnce
BY ReviewInductive, PTL DEF RInv, GInv

-------------------------------------------------------------------------------
(* What the properties need to be inductive.                                *)

(* What is about to be written in private mode is safe already: the draft   *)
(* of a new skill by itself, that of an update joined with the row it has   *)
(* locked.                                                                  *)
DraftsSafe ==
    private => \A e \in Editors :
        LET s == editor[e].slug
            text == Merge(editor[e].draft, skill[s]) IN
        /\ editor[e].phase # "checked"
        /\ editor[e].phase = "locked" =>
              /\ s \in Slugs /\ skill[s] # NoRow
              /\ <<text.heading, text.content>> \notin Flagged
        /\ editor[e].phase \in {"drafted", "counted"} =>
              <<editor[e].draft.heading, editor[e].draft.content>> \notin Flagged

(* One leader at a time has counted the workspace, and what he has counted  *)
(* leaves room.                                                             *)
CountedFits ==
    \A e \in Editors : editor[e].phase = "counted" =>
        /\ WorkspaceFree(e)
        /\ Cardinality(Stored) < MaxSkills

(* An editor with something to write has a slug, a new skill its words.     *)
EditorsFit ==
    \A e \in Editors :
        /\ editor[e].phase # "idle" => editor[e].slug \in Slugs
        /\ editor[e].phase \in {"drafted", "counted"} =>
              editor[e].draft.heading # Keep /\ editor[e].draft.content # Keep

(* An approval comes from a review.                                         *)
GrantsReviewed ==
    \A i \in grants.once \cup grants.always : \E r \in reviewed : Identity(r) = i

-------------------------------------------------------------------------------
(* Rows. *)

LEMMA RowParts ==
    ASSUME NEW row \in Rows
    PROVE  /\ row.id \in 1..MaxRows /\ row.heading \in Headings
           /\ row.content \in Contents /\ row.version \in 1..MaxVersion
           /\ row # NoRow
BY SkillBounds DEF Rows, NoRow

(* An edit keeps a row a row, and replaces what the draft does not keep.    *)
LEMMA EditedRow ==
    ASSUME NEW row \in Rows, NEW draft \in Drafts, Edited(row, draft).version <= MaxVersion
    PROVE  /\ Edited(row, draft) \in Rows
           /\ Edited(row, draft).heading = Merge(draft, row).heading
           /\ Edited(row, draft).content = Merge(draft, row).content
<1> DEFINE text == Merge(draft, row)
           version == IF text.content = row.content THEN row.version ELSE row.version + 1
<1>1. text.heading \in Headings /\ text.content \in Contents
  BY RowParts DEF Merge, Drafts
<1>2. Edited(row, draft) = [row EXCEPT !.heading = text.heading, !.content = text.content,
                                       !.version = version]
  BY DEF Edited
<1>3. version \in Nat \ {0}
  BY RowParts, SkillBounds
<1> HIDE DEF text, version
<1>4. /\ Edited(row, draft).heading = text.heading /\ Edited(row, draft).content = text.content
      /\ Edited(row, draft).version = version
  BY <1>2 DEF Rows
<1>5. version \in 1..MaxVersion
  BY <1>3, <1>4, SkillBounds
<1>6. Edited(row, draft) \in Rows
  BY <1>1, <1>2, <1>5 DEF Rows
<1> QED BY <1>4, <1>6 DEF text

(* Documents with the same identity have the same words and form.           *)
LEMMA IdentityWords ==
    ASSUME NEW d \in SkillDocuments, NEW r \in SkillDocuments, Identity(d) = Identity(r)
    PROVE  Words(d) = Words(r)
<1> DEFINE i == Identity(d)
           j == Identity(r)
<1>1. i.slug = d.slug /\ i.form = d.form /\ i.row.heading = d.row.heading /\ i.row.content = d.row.content
  BY DEF Identity, SkillDocuments, Rows
<1>2. j.slug = r.slug /\ j.form = r.form /\ j.row.heading = r.row.heading /\ j.row.content = r.row.content
  BY DEF Identity, SkillDocuments, Rows
<1> QED BY <1>1, <1>2 DEF Words

LEMMA IdentityTyped ==
    ASSUME NEW d \in SkillDocuments PROVE Identity(d) \in SkillDocuments
<1>1. d.row \in Rows
  BY DEF SkillDocuments
<1>2. [d.row EXCEPT !.id = 1] \in Rows
  BY <1>1, SkillBounds DEF Rows
<1>3. Identity(d) = [d EXCEPT !.row = [d.row EXCEPT !.id = 1]]
  BY DEF Identity, SkillDocuments
<1> QED BY <1>2, <1>3 DEF SkillDocuments

-------------------------------------------------------------------------------
(* Types. *)

EditorStates == [phase : Phases, slug : Slugs \cup {NoSlug}, draft : Drafts,
                 seen : Rows \cup {NoRow}, strict : BOOLEAN]

Shape == SkillsTypeOK /\ EditorsFit

LEMMA InitShape == SkillsInit => Shape
<1> SUFFICES ASSUME SkillsInit PROVE Shape
  OBVIOUS
<1>1. NoEditor \in EditorStates
  BY DEF NoEditor, NoDraft, EditorStates, Phases, Drafts
<1>2. made \in 0..MaxRows
  BY SkillBounds DEF SkillsInit
<1>3. SkillsTypeOK
  BY <1>1, <1>2 DEF SkillsInit, SkillsTypeOK, EditorStates
<1>4. EditorsFit
  BY DEF SkillsInit, EditorsFit, NoEditor
<1> QED BY <1>3, <1>4 DEF Shape

(* A leader's step changes his own request, and at most one row, which      *)
(* stays one.                                                               *)
EditMove(e) ==
    /\ editor' \in [Editors -> EditorStates]
    /\ \A d \in Editors \ {e} : editor'[d] = editor[d]
    /\ editor'[e].phase # "idle" => editor'[e].slug \in Slugs
    /\ editor'[e].phase \in {"drafted", "counted"} =>
          editor'[e].draft.heading # Keep /\ editor'[e].draft.content # Keep
    /\ skill' \in [Slugs -> Rows \cup {NoRow}]
    /\ made' \in 0..MaxRows
    /\ UNCHANGED <<private, fetch, rejected, grants, handed, reviewed>>

LEMMA EditIsMove == ASSUME Shape, NEW e \in Editors, Edit(e) PROVE EditMove(e)
<1> USE DEF Shape, EditMove
<1>1. /\ editor \in [Editors -> EditorStates] /\ skill \in [Slugs -> Rows \cup {NoRow}]
      /\ made \in 0..MaxRows
  BY DEF SkillsTypeOK, EditorStates
<1>2. NoEditor \in EditorStates /\ NoEditor.phase = "idle"
  BY DEF NoEditor, NoDraft, EditorStates, Phases, Drafts
<1>3. CASE \E s \in Slugs : OpenSkill(e, s)
  <2>1. PICK s \in Slugs : OpenSkill(e, s)
    BY <1>3
  <2> DEFINE new == [editor[e] EXCEPT !.phase = "open", !.slug = s, !.seen = skill[s]]
  <2>2. new \in EditorStates /\ new.slug = s /\ new.phase = "open"
    BY <1>1 DEF EditorStates, Phases
  <2>3. editor' = [editor EXCEPT ![e] = new]
    BY <2>1 DEF OpenSkill
  <2> HIDE DEF new
  <2> QED BY <1>1, <2>1, <2>2, <2>3 DEF OpenSkill
<1>4. CASE \E s \in Slugs : Find(e, s)
  <2>1. PICK s \in Slugs : Find(e, s)
    BY <1>4
  <2> DEFINE new == [editor[e] EXCEPT !.phase = "deleting", !.slug = s, !.seen = skill[s]]
  <2>2. new \in EditorStates /\ new.slug = s /\ new.phase = "deleting"
    BY <1>1 DEF EditorStates, Phases
  <2>3. editor' = [editor EXCEPT ![e] = new]
    BY <2>1 DEF Find
  <2> HIDE DEF new
  <2> QED BY <1>1, <2>1, <2>2, <2>3 DEF Find
<1>5. CASE \E s \in Slugs, draft \in Drafts : Draft(e, s, draft)
  <2>1. PICK s \in Slugs, draft \in Drafts : Draft(e, s, draft)
    BY <1>5
  <2> DEFINE new == [editor[e] EXCEPT !.phase = "drafted", !.slug = s, !.draft = draft]
  <2>2. new \in EditorStates /\ new.slug = s /\ new.draft = draft
    BY <1>1 DEF EditorStates, Phases
  <2>3. editor' = [editor EXCEPT ![e] = new]
    BY <2>1 DEF Draft
  <2> HIDE DEF new
  <2> QED BY <1>1, <2>1, <2>2, <2>3 DEF Draft
<1>6. CASE \E draft \in Drafts, strict \in BOOLEAN : Submit(e, draft, strict)
  <2>1. PICK draft \in Drafts, strict \in BOOLEAN : Submit(e, draft, strict)
    BY <1>6
  <2>2. editor[e].slug \in Slugs
    BY <2>1 DEF Submit, EditorsFit
  <2> DEFINE asked(phase) == [editor[e] EXCEPT !.draft = draft, !.strict = strict, !.phase = phase]
  <2>3. \A phase \in {"checked", "locked"} :
           asked(phase) \in EditorStates /\ asked(phase).slug = editor[e].slug /\ asked(phase).phase = phase
    BY <1>1 DEF EditorStates, Phases
  <2>4. \/ editor' = [editor EXCEPT ![e] = asked("checked")]
        \/ editor' = [editor EXCEPT ![e] = asked("locked")]
        \/ editor' = [editor EXCEPT ![e] = NoEditor]
    BY <2>1 DEF Submit, CloseEditor
  <2> HIDE DEF asked
  <2> QED BY <1>1, <1>2, <2>1, <2>2, <2>3, <2>4 DEF Submit
<1>7. CASE Save(e)
  <2> DEFINE s == editor[e].slug
  <2>1. editor[e].draft \in Drafts /\ s \in Slugs
    BY <1>1, <1>7 DEF Save, EditorStates, EditorsFit
  <2>2. skill' \in [Slugs -> Rows \cup {NoRow}]
    <3>1. CASE skill[s] # NoRow /\ Expected(e, skill[s])
      <4>1. skill[s] \in Rows /\ Edited(skill[s], editor[e].draft).version <= MaxVersion
        BY <1>1, <1>7, <2>1, <3>1 DEF Save
      <4>2. Edited(skill[s], editor[e].draft) \in Rows
        BY <2>1, <4>1, EditedRow
      <4> QED BY <1>1, <1>7, <3>1, <4>2 DEF Save
    <3> QED BY <1>1, <1>7, <3>1 DEF Save
  <2> QED BY <1>1, <1>2, <1>7, <2>2 DEF Save, CloseEditor
<1>8. CASE Count(e)
  BY <1>1, <1>2, <1>8 DEF Count, CloseEditor, EditorStates, Phases, EditorsFit
<1>9. CASE Create(e)
  <2> DEFINE s == editor[e].slug
             row == [id |-> made + 1, heading |-> editor[e].draft.heading,
                     content |-> editor[e].draft.content, version |-> 1]
  <2>1. made + 1 \in 1..MaxRows
    BY <1>1, <1>9, SkillBounds DEF Create
  <2>2. editor[e].draft.heading \in Headings /\ editor[e].draft.content \in Contents
    BY <1>1, <1>9 DEF Create, EditorStates, Drafts, EditorsFit
  <2>3. row \in Rows
    BY <2>1, <2>2, SkillBounds DEF Rows
  <2>4. skill' \in [Slugs -> Rows \cup {NoRow}]
    BY <1>1, <1>9, <2>3 DEF Create
  <2>5. made' \in 0..MaxRows
    BY <1>1, <1>9, <2>1 DEF Create
  <2> QED BY <1>1, <1>2, <1>9, <2>4, <2>5 DEF Create, CloseEditor
<1>10. CASE Delete(e)
  BY <1>1, <1>2, <1>10 DEF Delete, CloseEditor
<1>11. CASE EditorStops(e)
  BY <1>1, <1>2, <1>11 DEF EditorStops, CloseEditor
<1> QED BY <1>3, <1>4, <1>5, <1>6, <1>7, <1>8, <1>9, <1>10, <1>11 DEF Edit

(* What opening, finding and drafting make of a request.                    *)
LEMMA Beginnings ==
    ASSUME Shape, NEW e \in Editors, NEW s \in Slugs
    PROVE  /\ OpenSkill(e, s) => editor'[e].phase = "open"
           /\ Find(e, s) => editor'[e].phase = "deleting"
           /\ \A draft \in Drafts : Draft(e, s, draft) =>
                 editor'[e].phase = "drafted" /\ editor'[e].draft = draft
<1>1. editor \in [Editors -> EditorStates]
  BY DEF Shape, SkillsTypeOK, EditorStates
<1>2. ASSUME NEW new, editor' = [editor EXCEPT ![e] = new] PROVE editor'[e] = new
  BY <1>1, <1>2
<1>3. ASSUME OpenSkill(e, s) PROVE editor'[e].phase = "open"
  <2>1. editor'[e] = [editor[e] EXCEPT !.phase = "open", !.slug = s, !.seen = skill[s]]
    BY <1>2, <1>3 DEF OpenSkill
  <2> QED BY <1>1, <2>1 DEF EditorStates
<1>4. ASSUME Find(e, s) PROVE editor'[e].phase = "deleting"
  <2>1. editor'[e] = [editor[e] EXCEPT !.phase = "deleting", !.slug = s, !.seen = skill[s]]
    BY <1>2, <1>4 DEF Find
  <2> QED BY <1>1, <2>1 DEF EditorStates
<1>5. ASSUME NEW draft \in Drafts, Draft(e, s, draft)
      PROVE  editor'[e].phase = "drafted" /\ editor'[e].draft = draft
  <2>1. editor'[e] = [editor[e] EXCEPT !.phase = "drafted", !.slug = s, !.draft = draft]
    BY <1>2, <1>5 DEF Draft
  <2> QED BY <1>1, <2>1 DEF EditorStates
<1> QED BY <1>3, <1>4, <1>5

(* A reader's step leaves rows and leaders alone.                           *)
ReadMove ==
    /\ fetch' \in [Fetches -> SkillDocuments \cup {NoFetch}]
    /\ rejected' \subseteq SkillDocuments
    /\ grants' \in [once : SUBSET SkillDocuments, always : SUBSET SkillDocuments]
    /\ handed' \subseteq SkillDocuments /\ reviewed' \subseteq SkillDocuments
    /\ UNCHANGED <<private, skill, made, editor>>

LEMMA ReadIsMove == ASSUME Shape, Read PROVE ReadMove
<1>1. SkillsTypeOK
  BY DEF Shape
<1>2. CASE \E f \in Fetches, s \in Slugs, form \in Forms : Fetch(f, s, form)
  <2>1. PICK f \in Fetches, s \in Slugs, form \in Forms : Fetch(f, s, form)
    BY <1>2
  <2>2. skill[s] \in Rows
    BY <1>1, <2>1 DEF Fetch, SkillsTypeOK
  <2>3. [slug |-> s, row |-> skill[s], form |-> form] \in SkillDocuments
    BY <2>2 DEF SkillDocuments
  <2> QED BY <1>1, <2>1, <2>3 DEF Fetch, SkillsTypeOK, ReadMove
<1>3. CASE \E f \in Fetches : Distribute(f)
  <2>1. PICK f \in Fetches : Distribute(f)
    BY <1>3
  <2>2. fetch[f] \in SkillDocuments
    BY <1>1, <2>1 DEF Distribute, SkillsTypeOK
  <2> QED BY <1>1, <2>1, <2>2 DEF Distribute, SkillsTypeOK, ReadMove
<1>4. CASE \E d \in rejected, action \in {"allow_once", "allow_always", "keep_rejected"} : Review(d, action)
  <2>1. PICK d \in rejected, action \in {"allow_once", "allow_always", "keep_rejected"} : Review(d, action)
    BY <1>4
  <2>2. Identity(d) \in SkillDocuments
    BY <1>1, IdentityTyped DEF SkillsTypeOK
  <2> QED BY <1>1, <2>1, <2>2 DEF Review, SkillsTypeOK, ReadMove
<1> QED BY <1>2, <1>3, <1>4 DEF Read

LEMMA NextShape == Shape /\ [SkillsNext]_skillVars => Shape'
<1> SUFFICES ASSUME Shape, [SkillsNext]_skillVars PROVE Shape'
  OBVIOUS
<1> USE DEF Shape, SkillsTypeOK, EditorsFit
<1>1. CASE \E e \in Editors : Edit(e)
  <2>1. PICK e \in Editors : EditMove(e)
    BY <1>1, EditIsMove
  <2> QED BY <2>1 DEF EditMove, EditorStates
<1>2. CASE Read
  BY <1>2, ReadIsMove DEF ReadMove
<1>3. CASE UNCHANGED skillVars
  BY <1>3 DEF skillVars
<1> QED BY <1>1, <1>2, <1>3 DEF SkillsNext

LEMMA ShapeHolds == SkillsSpec => []Shape
BY InitShape, NextShape, PTL DEF SkillsSpec

(* Every variable of the store has its type, whatever drafts, documents and *)
(* reviews meet.                                                            *)
THEOREM SkillsTypesCorrect == SkillsSpec => []SkillsTypeOK
<1>1. Shape => SkillsTypeOK
  BY DEF Shape
<1> QED BY <1>1, ShapeHolds, PTL

-------------------------------------------------------------------------------
(* No edit is overwritten unseen. *)

LEMMA StepSeesWhatItReplaces ==
    ASSUME Shape, [SkillsNext]_skillVars, NEW e \in Editors,
           editor[e].phase \in {"checked", "locked"}, editor[e].strict,
           editor'[e] = NoEditor, skill'[editor[e].slug] # skill[editor[e].slug]
    PROVE  Revision(skill[editor[e].slug]) = Revision(editor[e].seen)
<1>1. editor[e] # NoEditor
  BY DEF NoEditor
<1>2. skill' # skill
  OBVIOUS
<1>3. Edit(e)
  <2>1. PICK d \in Editors : Edit(d)
    BY <1>2, ReadIsMove DEF SkillsNext, skillVars, ReadMove
  <2>2. d = e
    BY <1>1, <2>1, EditIsMove DEF EditMove
  <2> QED BY <2>1, <2>2
<1>4. Save(e)
  BY <1>2, <1>3 DEF Edit, OpenSkill, Find, Draft, Submit, Count, Create, Delete, EditorStops
<1> QED BY <1>2, <1>4 DEF Save, Expected

(* "This skill changed since you opened it": an editor who names the        *)
(* revision he has open overwrites nothing he has not seen, whoever else    *)
(* writes between his reading and his lock.                                 *)
THEOREM NothingOverwrittenUnseen == SkillsSpec => NoUnseenOverwrite
<1>1. Shape /\ [SkillsNext]_skillVars =>
          [\A e \in Editors :
              LET s == editor[e].slug
              IN  /\ editor[e].phase \in {"checked", "locked"} /\ editor[e].strict
                  /\ editor'[e] = NoEditor /\ skill'[s] # skill[s]
                  => Revision(skill[s]) = Revision(editor[e].seen)]_skillVars
  BY StepSeesWhatItReplaces
<1> QED BY <1>1, ShapeHolds, PTL DEF SkillsSpec, NoUnseenOverwrite

-------------------------------------------------------------------------------
(* What was handed out was reviewed. *)

Approvals == Shape /\ GrantsReviewed /\ HandedOutReviewed

LEMMA NextApprovals == Approvals /\ [SkillsNext]_skillVars => Approvals'
<1> SUFFICES ASSUME Approvals, [SkillsNext]_skillVars PROVE Approvals'
  OBVIOUS
<1> USE DEF Approvals
<1>1. Shape'
  BY NextShape
<1>2. SkillsTypeOK
  BY DEF Shape
<1>3. CASE UNCHANGED <<grants, reviewed, handed>>
  BY <1>1, <1>3 DEF GrantsReviewed, HandedOutReviewed
<1>4. CASE \E f \in Fetches : Distribute(f)
  <2>1. PICK f \in Fetches : Distribute(f)
    BY <1>4
  <2> DEFINE d == fetch[f]
             i == Identity(d)
  <2>2. d \in SkillDocuments
    BY <1>2, <2>1 DEF Distribute, SkillsTypeOK
  <2>3. reviewed' = reviewed
        /\ grants'.once \cup grants'.always \subseteq grants.once \cup grants.always
    BY <1>2, <2>1 DEF Distribute, SkillsTypeOK
  <2>4. GrantsReviewed'
    BY <2>3 DEF GrantsReviewed
  <2>5. \/ handed' = handed
        \/ handed' = handed \cup {d} /\ i \in grants.once \cup grants.always
    BY <2>1 DEF Distribute
  <2>6. ASSUME i \in grants.once \cup grants.always
        PROVE  \E r \in reviewed : Words(r) = Words(d)
    <3>1. PICK r \in reviewed : Identity(r) = i
      BY <2>6 DEF GrantsReviewed
    <3>2. r \in SkillDocuments
      BY <1>2 DEF SkillsTypeOK
    <3> QED BY <2>2, <3>1, <3>2, IdentityWords
  <2>7. HandedOutReviewed'
    BY <2>3, <2>5, <2>6 DEF HandedOutReviewed
  <2> QED BY <1>1, <2>4, <2>7
<1>5. CASE \E d \in rejected, action \in {"allow_once", "allow_always", "keep_rejected"} : Review(d, action)
  <2>1. PICK d \in rejected, action \in {"allow_once", "allow_always", "keep_rejected"} : Review(d, action)
    BY <1>5
  <2>2. HandedOutReviewed'
    BY <2>1 DEF Review, HandedOutReviewed
  <2>3. /\ reviewed \subseteq reviewed'
        /\ \A i \in grants'.once \cup grants'.always :
              i \in grants.once \cup grants.always \/ (i = Identity(d) /\ d \in reviewed')
    BY <1>2, <2>1 DEF Review, SkillsTypeOK
  <2>4. GrantsReviewed'
    BY <2>3 DEF GrantsReviewed
  <2> QED BY <1>1, <2>2, <2>4
<1>6. CASE \E f \in Fetches, s \in Slugs, form \in Forms : Fetch(f, s, form)
  BY <1>3, <1>6 DEF Fetch
<1>7. CASE \E e \in Editors : Edit(e)
  BY <1>3, <1>7, EditIsMove DEF EditMove
<1>8. CASE UNCHANGED skillVars
  BY <1>3, <1>8 DEF skillVars
<1> QED BY <1>4, <1>5, <1>6, <1>7, <1>8 DEF SkillsNext, Read

(* "Stored drafts never become agent context without a current scan         *)
(* decision": an approval is of the words and the form a review has         *)
(* allowed, whatever becomes of the row between fetching and handing out.   *)
THEOREM HandedOutWasReviewed == SkillsSpec => []HandedOutReviewed
<1>1. SkillsInit => Approvals
  BY InitShape DEF SkillsInit, Approvals, GrantsReviewed, HandedOutReviewed
<1>2. Approvals => HandedOutReviewed
  BY DEF Approvals
<1> QED BY <1>1, <1>2, NextApprovals, PTL DEF SkillsSpec

-------------------------------------------------------------------------------
(* Private storage is clean. *)

Clean == Shape /\ DraftsSafe /\ PrivateStoreClean

Safe(text) == <<text.heading, text.content>> \notin Flagged

(* In private mode an editor's step writes a safe text or none, and one he  *)
(* does not own the lock of he leaves alone.                                *)
LEMMA EditKeepsClean ==
    ASSUME Clean, private, NEW e \in Editors, Edit(e)
    PROVE  DraftsSafe' /\ PrivateStoreClean'
<1> USE DEF Clean
<1>1. EditMove(e) /\ Shape'
  BY EditIsMove, NextShape DEF SkillsNext
<1>2. private' = private /\ \A d \in Editors \ {e} : editor'[d] = editor[d]
  BY <1>1 DEF EditMove
<1>3. editor \in [Editors -> EditorStates] /\ skill \in [Slugs -> Rows \cup {NoRow}]
  BY DEF Shape, SkillsTypeOK, EditorStates
<1> DEFINE SafeEditor(d) ==
              LET s == editor[d].slug
                  text == Merge(editor[d].draft, skill[s]) IN
              /\ editor[d].phase # "checked"
              /\ editor[d].phase = "locked" =>
                    /\ s \in Slugs /\ skill[s] # NoRow
                    /\ Safe(text)
              /\ editor[d].phase \in {"drafted", "counted"} => Safe(editor[d].draft)
           s == editor[e].slug
<1>4. \A d \in Editors : SafeEditor(d)
  BY DEF DraftsSafe, Safe
<1>5. ASSUME \A d \in Editors : SafeEditor(d)', \A t \in Slugs : skill'[t] # NoRow => Safe(skill'[t])
      PROVE  DraftsSafe' /\ PrivateStoreClean'
  BY <1>5 DEF DraftsSafe, PrivateStoreClean, Stored, Safe
<1>6. \A t \in Slugs : skill[t] # NoRow => Safe(skill[t])
  BY DEF PrivateStoreClean, Stored, Safe
<1>7. ASSUME skill' = skill, SafeEditor(e)' PROVE DraftsSafe' /\ PrivateStoreClean'
  <2>1. \A d \in Editors : SafeEditor(d)'
    BY <1>2, <1>4, <1>7
  <2> QED BY <1>5, <1>6, <1>7, <2>1
<1>8. ASSUME editor'[e].phase \in {"idle", "open", "deleting"} PROVE SafeEditor(e)'
  BY <1>8
<1> HIDE DEF SafeEditor
<1>9. CASE EditorStops(e)
  <2>1. editor'[e].phase = "idle" /\ skill' = skill
    BY <1>3, <1>9 DEF EditorStops, CloseEditor, NoEditor
  <2> QED BY <1>7, <1>8, <2>1
<1>9a. CASE \E t \in Slugs : OpenSkill(e, t) \/ Find(e, t)
  <2>1. PICK t \in Slugs : OpenSkill(e, t) \/ Find(e, t)
    BY <1>9a
  <2>2. editor'[e].phase \in {"open", "deleting"} /\ skill' = skill
    BY <2>1, Beginnings DEF OpenSkill, Find
  <2> QED BY <1>7, <1>8, <2>2
<1>10. CASE \E t \in Slugs, draft \in Drafts : Draft(e, t, draft)
  <2>1. PICK t \in Slugs, draft \in Drafts : Draft(e, t, draft)
    BY <1>10
  <2>2. editor'[e].phase = "drafted" /\ editor'[e].draft = draft /\ Safe(draft)
    BY <2>1, Beginnings DEF Draft, Storable, Safe
  <2>3. SafeEditor(e)'
    BY <2>2 DEF SafeEditor
  <2> QED BY <1>7, <2>1, <2>3 DEF Draft
<1>11. CASE \E draft \in Drafts, strict \in BOOLEAN : Submit(e, draft, strict)
  <2>1. PICK draft \in Drafts, strict \in BOOLEAN : Submit(e, draft, strict)
    BY <1>11
  <2>2. s \in Slugs
    BY <2>1 DEF Submit, Shape, EditorsFit
  <2>3. CASE editor'[e] = NoEditor
    BY <1>7, <1>8, <2>1, <2>3 DEF Submit, NoEditor
  <2>4. CASE editor'[e] # NoEditor
    <3> DEFINE new == [editor[e] EXCEPT !.draft = draft, !.strict = strict, !.phase = "locked"]
    <3>1. editor' = [editor EXCEPT ![e] = new] /\ skill[s] # NoRow /\ Safe(Merge(draft, skill[s]))
      BY <1>3, <2>1, <2>4 DEF Submit, CloseEditor, Storable, Safe
    <3>2. new.phase = "locked" /\ new.slug = s /\ new.draft = draft
      BY <1>3 DEF EditorStates
    <3> HIDE DEF new
    <3>3. editor'[e].phase = "locked" /\ editor'[e].slug = s /\ editor'[e].draft = draft
      BY <1>3, <3>1, <3>2
    <3>4. skill' = skill
      BY <2>1 DEF Submit
    <3>5. SafeEditor(e)'
      BY <2>2, <3>1, <3>3, <3>4 DEF SafeEditor
    <3> QED BY <1>7, <3>4, <3>5
  <2> QED BY <2>3, <2>4
<1>12. CASE Count(e)
  <2>1. /\ skill' = skill
        /\ \/ editor'[e].phase = "idle"
           \/ editor'[e].phase = "counted" /\ editor'[e].draft = editor[e].draft
    BY <1>3, <1>12 DEF Count, CloseEditor, NoEditor, EditorStates
  <2>2. Safe(editor[e].draft)
    BY <1>4, <1>12 DEF Count, SafeEditor
  <2>3. SafeEditor(e)'
    BY <2>1, <2>2 DEF SafeEditor
  <2> QED BY <1>7, <2>1, <2>3
<1>13. ASSUME editor'[e] = NoEditor, s \in Slugs, NEW row \in Rows \cup {NoRow},
              skill' = [skill EXCEPT ![s] = row], row # NoRow => Safe(row),
              \A d \in Editors \ {e} : editor[d].phase = "locked" => editor[d].slug # s
       PROVE  DraftsSafe' /\ PrivateStoreClean'
  <2>1. \A t \in Slugs : skill'[t] # NoRow => Safe(skill'[t])
    BY <1>3, <1>6, <1>13
  <2>2. ASSUME NEW d \in Editors PROVE SafeEditor(d)'
    <3>1. CASE d = e
      BY <1>8, <1>13, <3>1 DEF NoEditor
    <3>2. CASE d # e
      <4>1. editor'[d] = editor[d] /\ SafeEditor(d)
        BY <1>2, <1>4, <3>2
      <4>2. editor[d].phase = "locked" => skill'[editor[d].slug] = skill[editor[d].slug]
        BY <1>3, <1>13, <3>2, <4>1 DEF SafeEditor
      <4> QED BY <4>1, <4>2 DEF SafeEditor
    <3> QED BY <3>1, <3>2
  <2> QED BY <1>5, <2>1, <2>2
<1>14. CASE Save(e)
  <2>1. s \in Slugs /\ editor[e].draft \in Drafts
    BY <1>3, <1>14 DEF Save, Shape, EditorsFit, EditorStates
  <2>2. editor'[e] = NoEditor /\ \A d \in Editors \ {e} : editor[d].phase = "locked" => editor[d].slug # s
    BY <1>3, <1>14 DEF Save, CloseEditor, RowFree
  <2>3. CASE skill' = skill
    BY <1>7, <1>8, <2>2, <2>3 DEF NoEditor
  <2>4. CASE skill' # skill
    <3> DEFINE row == Edited(skill[s], editor[e].draft)
    <3>1. /\ skill[s] \in Rows /\ row.version <= MaxVersion
          /\ skill' = [skill EXCEPT ![s] = row]
      BY <1>3, <1>14, <2>1, <2>4 DEF Save
    <3>2. editor[e].phase = "locked"
      BY <1>4, <1>14 DEF Save, SafeEditor
    <3>3. Safe(Merge(editor[e].draft, skill[s]))
      BY <1>4, <3>2 DEF SafeEditor
    <3>4. row \in Rows /\ Safe(row)
      BY <2>1, <3>1, <3>3, EditedRow DEF Safe
    <3> HIDE DEF row
    <3> QED BY <1>13, <2>1, <2>2, <3>1, <3>4
  <2> QED BY <2>3, <2>4
<1>15. CASE Create(e)
  <2>1. s \in Slugs /\ editor'[e] = NoEditor /\ Safe(editor[e].draft)
    BY <1>3, <1>4, <1>15 DEF Create, CloseEditor, Shape, EditorsFit, SafeEditor
  <2>2. CASE skill' = skill
    BY <1>7, <1>8, <2>1, <2>2 DEF NoEditor
  <2>3. CASE skill' # skill
    <3> DEFINE row == [id |-> made + 1, heading |-> editor[e].draft.heading,
                       content |-> editor[e].draft.content, version |-> 1]
    <3>1. skill[s] = NoRow /\ skill' = [skill EXCEPT ![s] = row]
      BY <1>15, <2>3 DEF Create
    <3>2. row \in Rows /\ Safe(row)
      <4>1. row = skill'[s] /\ skill'[s] \in Rows \cup {NoRow}
        BY <1>1, <1>3, <2>1, <3>1 DEF EditMove
      <4>2. row.version # NoRow.version
        BY DEF NoRow
      <4> QED BY <2>1, <4>1, <4>2 DEF Safe
    <3>3. \A d \in Editors \ {e} : editor[d].phase = "locked" => editor[d].slug # s
      BY <1>4, <3>1 DEF SafeEditor
    <3> HIDE DEF row
    <3> QED BY <1>13, <2>1, <3>1, <3>2, <3>3
  <2> QED BY <2>2, <2>3
<1>16. CASE Delete(e)
  <2> DEFINE row == IF skill[s].id = editor[e].seen.id THEN NoRow ELSE skill[s]
  <2>1. s \in Slugs /\ editor'[e] = NoEditor
        /\ \A d \in Editors \ {e} : editor[d].phase = "locked" => editor[d].slug # s
    BY <1>3, <1>16 DEF Delete, CloseEditor, RowFree, Shape, EditorsFit
  <2>2. skill' = [skill EXCEPT ![s] = row]
    BY <1>16 DEF Delete
  <2>3. row \in Rows \cup {NoRow} /\ (row # NoRow => Safe(row))
    BY <1>3, <1>6, <2>1
  <2> HIDE DEF row
  <2> QED BY <1>13, <2>1, <2>2, <2>3
<1> QED BY <1>9, <1>10, <1>11, <1>12, <1>14, <1>15, <1>16, <1>9a DEF Edit

LEMMA NextClean == Clean /\ [SkillsNext]_skillVars => Clean'
<1> SUFFICES ASSUME Clean, [SkillsNext]_skillVars PROVE Clean'
  OBVIOUS
<1>1. Shape'
  BY NextShape DEF Clean
<1>2. CASE UNCHANGED <<private, skill, editor>>
  BY <1>1, <1>2 DEF Clean, DraftsSafe, PrivateStoreClean, Stored
<1>3. CASE Read
  BY <1>2, <1>3, ReadIsMove DEF Clean, ReadMove
<1>4. CASE \E e \in Editors : Edit(e)
  <2>1. PICK e \in Editors : Edit(e)
    BY <1>4
  <2>2. private' = private
    BY <2>1, EditIsMove DEF Clean, EditMove
  <2>3. CASE private
    BY <1>1, <2>1, <2>3, EditKeepsClean DEF Clean
  <2>4. CASE ~private
    BY <1>1, <2>2, <2>4 DEF Clean, DraftsSafe, PrivateStoreClean
  <2> QED BY <2>3, <2>4
<1> QED BY <1>2, <1>3, <1>4 DEF SkillsNext, skillVars

(* "Private storage accepts no flagged source": two edits that are safe     *)
(* each by itself do not make a flagged row together, however they overlap. *)
THEOREM PrivateStorageClean == SkillsSpec => []PrivateStoreClean
<1>1. SkillsInit => Clean
  BY InitShape DEF SkillsInit, Clean, DraftsSafe, PrivateStoreClean, Stored, NoEditor
<1>2. Clean => PrivateStoreClean
  BY DEF Clean
<1> QED BY <1>1, <1>2, NextClean, PTL DEF SkillsSpec

-------------------------------------------------------------------------------
(* The cap. *)

Capped == Shape /\ CountedFits /\ CapHolds

LEMMA StoredFinite == IsFiniteSet(Stored) /\ Cardinality(Stored) \in Nat
<1>1. IsFiniteSet(Stored)
  BY SlugsAssumption, FS_Subset DEF Stored
<1> QED BY <1>1, FS_CardinalityType

(* No row is added: what has been counted still holds.                      *)
LEMMA NoRowAdded ==
    ASSUME Capped, skill' \in [Slugs -> Rows \cup {NoRow}], Stored' \subseteq Stored,
           NEW e \in Editors, \A d \in Editors \ {e} : editor'[d] = editor[d],
           editor'[e].phase # "counted" \/ editor'[e].phase = editor[e].phase
    PROVE  CountedFits' /\ CapHolds'
<1>1. /\ Cardinality(Stored') <= Cardinality(Stored)
      /\ Cardinality(Stored') \in Nat /\ Cardinality(Stored) \in Nat
  BY StoredFinite, FS_Subset, FS_CardinalityType
<1>2. CapHolds'
  BY <1>1, SkillBounds DEF Capped, CapHolds
<1>3. ASSUME NEW d \in Editors, editor'[d].phase = "counted"
      PROVE  WorkspaceFree(d)' /\ Cardinality(Stored') < MaxSkills
  <2>1. editor[d].phase = "counted"
    BY <1>3
  <2>2. WorkspaceFree(d) /\ Cardinality(Stored) < MaxSkills
    BY <2>1 DEF Capped, CountedFits
  <2>3. WorkspaceFree(d)'
    BY <2>2 DEF WorkspaceFree
  <2> QED BY <1>1, <2>2, <2>3, SkillBounds
<1>4. CountedFits'
  BY <1>3 DEF CountedFits
<1> QED BY <1>2, <1>4

LEMMA EditKeepsCapped ==
    ASSUME Capped, NEW e \in Editors, Edit(e) PROVE CountedFits' /\ CapHolds'
<1> USE DEF Capped
<1>1. EditMove(e)
  BY EditIsMove
<1>2. /\ editor \in [Editors -> EditorStates] /\ skill \in [Slugs -> Rows \cup {NoRow}]
      /\ skill' \in [Slugs -> Rows \cup {NoRow}]
      /\ \A d \in Editors \ {e} : editor'[d] = editor[d]
  BY <1>1 DEF Shape, SkillsTypeOK, EditorStates, EditMove
<1> DEFINE s == editor[e].slug
<1>3. CASE Stored' \subseteq Stored /\ (editor'[e].phase # "counted" \/ editor'[e].phase = editor[e].phase)
  BY <1>2, <1>3, NoRowAdded
<1>4. CASE EditorStops(e)
  <2>1. editor'[e].phase = "idle" /\ Stored' = Stored
    BY <1>2, <1>4 DEF EditorStops, CloseEditor, NoEditor, Stored
  <2> QED BY <1>3, <2>1
<1>4a. CASE \E t \in Slugs : OpenSkill(e, t) \/ Find(e, t) \/ \E draft \in Drafts : Draft(e, t, draft)
  <2>1. PICK t \in Slugs : OpenSkill(e, t) \/ Find(e, t) \/ \E draft \in Drafts : Draft(e, t, draft)
    BY <1>4a
  <2>2. editor'[e].phase \in {"open", "deleting", "drafted"} /\ Stored' = Stored
    BY <2>1, Beginnings DEF OpenSkill, Find, Draft, Stored
  <2> QED BY <1>3, <2>2
<1>5. CASE \E draft \in Drafts, strict \in BOOLEAN : Submit(e, draft, strict)
  <2>1. PICK draft \in Drafts, strict \in BOOLEAN : Submit(e, draft, strict)
    BY <1>5
  <2> DEFINE asked(phase) == [editor[e] EXCEPT !.draft = draft, !.strict = strict, !.phase = phase]
  <2>2. \A phase \in {"checked", "locked"} : asked(phase).phase = phase
    BY <1>2 DEF EditorStates
  <2>3. \/ editor' = [editor EXCEPT ![e] = asked("checked")]
        \/ editor' = [editor EXCEPT ![e] = asked("locked")]
        \/ editor' = [editor EXCEPT ![e] = NoEditor]
    BY <2>1 DEF Submit, CloseEditor
  <2> HIDE DEF asked
  <2>4. editor'[e].phase \in {"checked", "locked", "idle"}
    BY <1>2, <2>2, <2>3 DEF NoEditor
  <2> QED BY <1>3, <2>1, <2>4 DEF Submit, Stored
<1>6. CASE Save(e)
  <2>1. editor'[e].phase = "idle"
    BY <1>2, <1>6 DEF Save, CloseEditor, NoEditor
  <2>2. Stored' \subseteq Stored
    BY <1>2, <1>6 DEF Save, Stored
  <2> QED BY <1>3, <2>1, <2>2
<1>7. CASE Count(e)
  <2>1. CASE editor'[e].phase # "counted"
    BY <1>3, <1>7, <2>1 DEF Count, Stored
  <2>2. CASE editor'[e].phase = "counted"
    <3>1. WorkspaceFree(e) /\ Cardinality(Stored) < MaxSkills /\ Stored' = Stored
      BY <1>2, <1>7, <2>2 DEF Count, CloseEditor, NoEditor, Stored
    <3>2. \A d \in Editors : editor'[d].phase = "counted" => d = e
      BY <1>2, <3>1 DEF WorkspaceFree
    <3>3. CountedFits' /\ CapHolds'
      BY <3>1, <3>2 DEF CountedFits, CapHolds, WorkspaceFree
    <3> QED BY <3>3
  <2> QED BY <2>1, <2>2
<1>8. CASE Create(e)
  <2>1. s \in Slugs /\ editor'[e].phase = "idle" /\ editor[e].phase = "counted"
    BY <1>2, <1>8 DEF Create, CloseEditor, NoEditor, Shape, EditorsFit
  <2>2. Stored' \subseteq Stored \cup {s}
    BY <1>2, <1>8 DEF Create, Stored
  <2>3. Cardinality(Stored) < MaxSkills /\ WorkspaceFree(e)
    BY <2>1 DEF CountedFits
  <2>4. Cardinality(Stored \cup {s}) <= Cardinality(Stored) + 1 /\ IsFiniteSet(Stored \cup {s})
    BY StoredFinite, FS_AddElement
  <2>5. Cardinality(Stored') <= Cardinality(Stored \cup {s}) /\ IsFiniteSet(Stored')
    BY <2>2, <2>4, FS_Subset
  <2>6. Cardinality(Stored') \in Nat /\ Cardinality(Stored) \in Nat /\ Cardinality(Stored \cup {s}) \in Nat
    BY <2>4, <2>5, StoredFinite, FS_CardinalityType
  <2>7. CapHolds'
    BY <2>3, <2>4, <2>5, <2>6, SkillBounds DEF CapHolds
  <2>8. \A d \in Editors : editor'[d].phase # "counted"
    BY <1>2, <2>1, <2>3 DEF WorkspaceFree
  <2> QED BY <2>7, <2>8 DEF CountedFits
<1>9. CASE Delete(e)
  <2>1. editor'[e].phase = "idle" /\ Stored' \subseteq Stored
    BY <1>2, <1>9 DEF Delete, CloseEditor, NoEditor, Stored
  <2> QED BY <1>3, <2>1
<1> QED BY <1>4, <1>4a, <1>5, <1>6, <1>7, <1>8, <1>9 DEF Edit

LEMMA NextCapped == Capped /\ [SkillsNext]_skillVars => Capped'
<1> SUFFICES ASSUME Capped, [SkillsNext]_skillVars PROVE Capped'
  OBVIOUS
<1>1. Shape'
  BY NextShape DEF Capped
<1>2. CASE UNCHANGED <<skill, editor>>
  BY <1>1, <1>2 DEF Capped, CountedFits, CapHolds, Stored, WorkspaceFree
<1>3. CASE Read
  BY <1>2, <1>3, ReadIsMove DEF Capped, ReadMove
<1>4. CASE \E e \in Editors : Edit(e)
  BY <1>1, <1>4, EditKeepsCapped DEF Capped
<1> QED BY <1>2, <1>3, <1>4 DEF SkillsNext, skillVars

(* "Serialize creation per org so the cap cannot be exceeded by concurrent  *)
(* creates": whatever the cap and however many create at the same time.     *)
THEOREM CapNeverExceeded == SkillsSpec => []CapHolds
<1>1. ASSUME SkillsInit PROVE Capped
  <2>1. Stored = {}
    BY <1>1 DEF SkillsInit, Stored
  <2>2. CapHolds
    BY <2>1, FS_EmptySet, SkillBounds DEF CapHolds
  <2> QED BY <1>1, <2>2, InitShape DEF SkillsInit, Capped, CountedFits, NoEditor
<1>2. Capped => CapHolds
  BY DEF Capped
<1> QED BY <1>1, <1>2, NextCapped, PTL DEF SkillsSpec

(* What the store promises of its rows, together.                           *)
THEOREM StoreKeepsItsPromises == SkillsSpec => []StoreKept
BY CapNeverExceeded, PrivateStorageClean, HandedOutWasReviewed, PTL DEF StoreKept

-------------------------------------------------------------------------------
(* The guard on a developer's machine.                                      *)

(* Nothing is saved but what the user has allowed; nothing is on the lists  *)
(* of a run for good, nor at all on those of a push, that asks nobody, but  *)
(* that.                                                                    *)
Covered(overrides) == \A i \in Issues : LetThrough(overrides, i) => Granted(i)
Lasting(overrides) == [overrides EXCEPT !.session = {}]
RunCovered(run) == Covered(Lasting(run.lists)) /\ (run.gate = "push" => Covered(run.lists))
ListsCovered == Covered(lists) /\ RunCovered(tool)

(* What a push has looked at and not blocked has been allowed.              *)
Passable(text) == \A i \in IssuesOf[text] : i \in Severe => Granted(i)
PushFits ==
    tool.gate = "push" =>
        /\ tool.open = {}
        /\ \A n \in (remote + 1)..Len(commits) : \A f \in Files :
              commits[n][f] \in tool.left \/ tool.blocked \/ Passable(commits[n][f])

LocalInv == LocalTypeOK /\ ListsCovered /\ PushFits /\ PublishedWasAllowed

ToolStates == [gate : {"none", "ask", "push", "go"}, left : SUBSET FileContents,
               text : SUBSET Issues, open : SUBSET Issues, lists : Overrides,
               blocked : BOOLEAN]

LEMMA IssuesTyped == \A c \in FileContents : IssuesOf[c] \subseteq Issues
BY DEF Issues

LEMMA IdleTyped == Idle \in ToolStates /\ NoOverrides \in Overrides
BY DEF Idle, NoOverrides, Overrides, ToolStates

LEMMA NothingLetThrough == \A i \in Issues : ~LetThrough(NoOverrides, i)
BY DEF LetThrough, NoOverrides

LEMMA LastingLess ==
    ASSUME NEW overrides \in Overrides
    PROVE  \A i : LetThrough(Lasting(overrides), i) <=> i \in overrides.keys \/ i[1] \in overrides.codes
BY DEF LetThrough, Lasting, Overrides

LEMMA IdleCovered ==
    Idle.gate # "push" /\ \A i \in Issues : ~LetThrough(Lasting(Idle.lists), i)
<1>1. Lasting(Idle.lists) = NoOverrides /\ Idle.gate = "none"
  BY DEF Idle, Lasting, NoOverrides
<1> QED BY <1>1, NothingLetThrough

LEMMA InitLocal == LocalInit => LocalInv
<1> SUFFICES ASSUME LocalInit PROVE LocalInv
  OBVIOUS
<1>1. tree \in Trees /\ commits \in Seq(Trees) /\ Len(commits) = 1
  BY DEF LocalInit
<1>2. remote \in 0..Len(commits) /\ Len(commits) <= MaxCommits
  BY <1>1, CommitsAssumption DEF LocalInit
<1>3. LocalTypeOK
  BY <1>1, <1>2, IdleTyped DEF LocalInit, LocalTypeOK, ToolStates
<1>4. ListsCovered
  BY NothingLetThrough DEF LocalInit, ListsCovered, RunCovered, Covered, Lasting, Idle, NoOverrides
<1>5. PushFits /\ PublishedWasAllowed
  BY DEF LocalInit, PushFits, PublishedWasAllowed, Idle
<1> QED BY <1>3, <1>4, <1>5 DEF LocalInv

-------------------------------------------------------------------------------
(* Answers.                                                                 *)

(* What has been granted stays granted. *)
LEMMA GrantedStays ==
    ASSUME answered \subseteq answered'
    PROVE  /\ \A i : Granted(i) => Granted(i)'
           /\ \A text : Passable(text) => Passable(text)'
           /\ \A overrides : Covered(overrides) => Covered(overrides)'
<1>1. \A i : Granted(i) => Granted(i)'
  BY DEF Granted
<1> QED BY <1>1 DEF Passable, Covered

LEMMA ListsStay ==
    ASSUME answered \subseteq answered', UNCHANGED <<lists, tool>>, ListsCovered
    PROVE  ListsCovered'
<1>1. \A i : Granted(i) => Granted(i)'
  BY GrantedStays
<1> QED BY <1>1 DEF ListsCovered, RunCovered, Covered

LEMMA PushStays ==
    ASSUME answered \subseteq answered', UNCHANGED <<commits, remote, tool>>, PushFits
    PROVE  PushFits'
<1>1. \A text : Passable(text) => Passable(text)'
  BY GrantedStays
<1> QED BY <1>1 DEF PushFits

LEMMA PublishedStays ==
    ASSUME answered \subseteq answered', UNCHANGED <<commits, remote>>, PublishedWasAllowed
    PROVE  PublishedWasAllowed'
<1>1. \A i : Granted(i) => Granted(i)'
  BY GrantedStays
<1> QED BY <1>1 DEF PublishedWasAllowed

LEMMA OnceCovers ==
    ASSUME NEW overrides \in Overrides, NEW issues \in SUBSET Issues, Covered(Lasting(overrides)),
           UNCHANGED answered
    PROVE  AllowOnce(overrides, issues) \in Overrides /\ Covered(Lasting(AllowOnce(overrides, issues)))'
<1> DEFINE new == AllowOnce(overrides, issues)
<1>1. /\ new \in Overrides /\ new.keys = overrides.keys /\ new.codes = overrides.codes
  BY DEF AllowOnce, Overrides
<1> HIDE DEF new
<1>2. \A i \in Issues : LetThrough(Lasting(new), i) => LetThrough(Lasting(overrides), i)
  BY <1>1, LastingLess
<1>3. \A i : Granted(i) => Granted(i)'
  BY GrantedStays
<1>4. Covered(Lasting(new))'
  BY <1>2, <1>3 DEF Covered
<1> QED BY <1>1, <1>4 DEF new

LEMMA AlwaysCovers ==
    ASSUME NEW overrides \in Overrides, NEW issues \in SUBSET Issues, Covered(Lasting(overrides)),
           answered \subseteq answered', issues \X {"always"} \subseteq answered',
           \A i \in overrides.session : Granted(i)'
    PROVE  AllowAlways(overrides, issues) \in Overrides /\ Covered(AllowAlways(overrides, issues))'
<1> DEFINE codes == {i[1] : i \in issues}
           new == AllowAlways(overrides, issues)
<1>1. codes \subseteq Codes
  BY DEF Codes
<1>2. /\ new \in Overrides /\ new.session = overrides.session
      /\ new.keys = overrides.keys \cup issues /\ new.codes = overrides.codes \cup codes
  BY <1>1 DEF AllowAlways, Overrides
<1>3. \A i \in Issues : LetThrough(new, i) =>
         \/ LetThrough(Lasting(overrides), i) \/ i \in overrides.session
         \/ i \in issues \/ i[1] \in codes
  BY <1>2, LastingLess DEF LetThrough
<1>4. \A i \in issues : <<i, "always">> \in answered'
  OBVIOUS
<1>5. \A i \in Issues : i \in issues \/ i[1] \in codes => Granted(i)'
  BY <1>4 DEF Granted
<1>6. \A i : Granted(i) => Granted(i)'
  BY GrantedStays
<1> QED BY <1>2, <1>3, <1>5, <1>6 DEF Covered

(* What is covered altogether is covered for good. *)
LEMMA CoveredLasts ==
    ASSUME NEW overrides \in Overrides
    PROVE  /\ Covered(overrides) => Covered(Lasting(overrides))
           /\ Covered(overrides)' => Covered(Lasting(overrides))'
<1>1. \A i : LetThrough(Lasting(overrides), i) => LetThrough(overrides, i)
  BY LastingLess DEF LetThrough
<1> QED BY <1>1 DEF Covered

LEMMA ReasonCovers ==
    ASSUME NEW overrides \in Overrides, NEW code \in Codes, Covered(overrides),
           answered' = answered \cup {<<<<code, 0>>, "always">>}
    PROVE  /\ [overrides EXCEPT !.codes = @ \cup {code}] \in Overrides
           /\ Covered([overrides EXCEPT !.codes = @ \cup {code}])'
<1> DEFINE new == [overrides EXCEPT !.codes = @ \cup {code}]
<1>1. /\ new \in Overrides /\ new.session = overrides.session
      /\ new.keys = overrides.keys /\ new.codes = overrides.codes \cup {code}
  BY DEF Overrides
<1>2. \A i \in Issues : LetThrough(new, i) => LetThrough(overrides, i) \/ i[1] = code
  BY <1>1 DEF LetThrough
<1>3. <<<<code, 0>>, "always">> \in answered' /\ <<code, 0>> \in Rules /\ <<code, 0>>[1] = code
  BY DEF Rules
<1>4. \A i \in Issues : i[1] = code => Granted(i)'
  BY <1>3 DEF Granted
<1>5. \A i : Granted(i) => Granted(i)'
  BY GrantedStays
<1> QED BY <1>1, <1>2, <1>4, <1>5 DEF Covered

-------------------------------------------------------------------------------
(* The developer and the scanners.                                          *)

LEMMA NextLocal == LocalInv /\ [LocalNext]_localVars => LocalInv'
<1> SUFFICES ASSUME LocalInv, [LocalNext]_localVars PROVE LocalInv'
  OBVIOUS
<1>1. /\ tree \in Trees /\ commits \in Seq(Trees) /\ Len(commits) <= MaxCommits
      /\ remote \in 0..Len(commits) /\ lists \in Overrides /\ tool \in ToolStates
      /\ paused \in BOOLEAN /\ answered \subseteq (Issues \cup Rules) \X {"always", "saved"}
  BY DEF LocalInv, LocalTypeOK, ToolStates
<1>2. \A n \in 1..Len(commits) : commits[n] \in Trees
  BY <1>1
<1>3. /\ tool.lists \in Overrides /\ tool.left \subseteq FileContents /\ tool.text \subseteq Issues
      /\ tool.open \subseteq Issues /\ tool.blocked \in BOOLEAN
  BY <1>1 DEF ToolStates
<1>4. Covered(lists) /\ RunCovered(tool) /\ PushFits /\ PublishedWasAllowed
  BY DEF LocalInv, ListsCovered
<1>5. ASSUME NEW f \in Files, NEW c \in FileContents, EditFile(f, c) PROVE LocalInv'
  <2>1. tree' \in Trees
    BY <1>1, <1>5 DEF EditFile, Trees
  <2>2. UNCHANGED <<commits, remote, lists, tool, paused, answered>>
    BY <1>5 DEF EditFile
  <2>3. LocalTypeOK'
    BY <1>1, <2>1, <2>2 DEF LocalTypeOK, ToolStates
  <2> QED BY <2>2, <2>3, ListsStay, PushStays, PublishedStays DEF LocalInv
<1>6. CASE CommitFile
  <2>1. commits' \in Seq(Trees) /\ Len(commits') = Len(commits) + 1
        /\ \A n \in 1..Len(commits) : commits'[n] = commits[n]
    BY <1>1, <1>6 DEF CommitFile
  <2>2. LocalTypeOK'
    BY <1>1, <1>6, <2>1, CommitsAssumption DEF CommitFile, LocalInv, LocalTypeOK
  <2>3. PublishedWasAllowed'
    <3>1. UNCHANGED <<remote, answered>>
      BY <1>6 DEF CommitFile
    <3>2. \A i : Granted(i) => Granted(i)'
      BY <3>1, GrantedStays
    <3>3. \A n \in 2..remote : commits'[n] = commits[n]
      BY <1>1, <2>1
    <3> QED BY <1>4, <3>1, <3>2, <3>3 DEF PublishedWasAllowed
  <2>4. ListsCovered' /\ PushFits'
    <3>1. UNCHANGED <<lists, tool, answered>> /\ tool.gate = "none"
      BY <1>6 DEF CommitFile, Working
    <3> QED BY <3>1, <1>4, ListsStay DEF ListsCovered, PushFits
  <2> QED BY <2>2, <2>3, <2>4 DEF LocalInv
<1>7. ASSUME answered \subseteq answered', UNCHANGED <<commits, remote>>
      PROVE  PublishedWasAllowed'
  BY <1>4, <1>7, GrantedStays DEF PublishedWasAllowed
<1>8. ASSUME NEW f \in Files, AllowScript(f) PROVE LocalInv'
  <2>0. {i \in IssuesOf[tree[f]] : ~LetThrough(lists, i)} \in SUBSET Issues
    BY <1>1, IssuesTyped DEF Trees
  <2>1. PICK blocking \in SUBSET Issues : blocking = {i \in IssuesOf[tree[f]] : ~LetThrough(lists, i)}
    BY <2>0
  <2>a. PICK saved \in Overrides : saved = lists
    BY <1>1
  <2>2. lists' = AllowAlways(lists, blocking) /\ answered' = answered \cup (blocking \X {"always"})
        /\ UNCHANGED <<tree, commits, remote, tool, paused>> /\ Working
    BY <1>8, <2>1 DEF AllowScript, Saved
  <2>b. Covered(saved)
    BY <1>4, <2>a DEF Covered
  <2>d. \A i \in saved.session : Granted(i)'
    BY <2>2, <2>b, GrantedStays DEF Covered, LetThrough, Overrides
  <2>c. AllowAlways(saved, blocking) \in Overrides /\ Covered(AllowAlways(saved, blocking))'
    BY <2>2, <2>b, <2>d, CoveredLasts, AlwaysCovers
  <2>3. lists' \in Overrides /\ Covered(lists)'
    BY <2>2, <2>a, <2>c DEF Covered
  <2>4. RunCovered(tool)'
    BY <1>4, <2>2, GrantedStays DEF RunCovered, Covered
  <2>5. answered' \subseteq (Issues \cup Rules) \X {"always", "saved"}
    BY <1>1, <2>1, <2>2
  <2> QED BY <1>1, <1>7, <2>2, <2>3, <2>4, <2>5 DEF LocalInv, LocalTypeOK, ListsCovered, PushFits, Working
<1>9. ASSUME NEW code \in Codes, AllowReason(code) PROVE LocalInv'
  <2>1. lists' = [lists EXCEPT !.codes = @ \cup {code}] /\ answered' = answered \cup {<<<<code, 0>>, "always">>}
        /\ UNCHANGED <<tree, commits, remote, tool, paused>> /\ Working
    BY <1>9 DEF AllowReason, Saved
  <2>a. PICK saved \in Overrides : saved = lists
    BY <1>1
  <2>b. Covered(saved)
    BY <1>4, <2>a DEF Covered
  <2>c. /\ [saved EXCEPT !.codes = @ \cup {code}] \in Overrides
        /\ Covered([saved EXCEPT !.codes = @ \cup {code}])'
    BY <2>1, <2>b, ReasonCovers
  <2>2. lists' \in Overrides /\ Covered(lists)'
    BY <2>1, <2>a, <2>c DEF Covered
  <2>3. RunCovered(tool)'
    BY <1>4, <2>1, GrantedStays DEF RunCovered, Covered
  <2>4. answered' \subseteq (Issues \cup Rules) \X {"always", "saved"}
    BY <1>1, <2>1 DEF Rules
  <2> QED BY <1>1, <1>7, <2>1, <2>2, <2>3, <2>4 DEF LocalInv, LocalTypeOK, ListsCovered, PushFits, Working
<1>10. CASE Decide
  <2>1. paused' = FALSE /\ UNCHANGED <<tree, commits, remote, lists, tool, answered>>
    BY <1>10 DEF Decide
  <2>2. LocalTypeOK'
    BY <1>1, <2>1 DEF LocalTypeOK, ToolStates
  <2> QED BY <2>1, <2>2, ListsStay, PushStays, PublishedStays DEF LocalInv
<1>11. ASSUME NEW gate \in {"ask", "go", "push"}, NEW texts \in SUBSET FileContents, Start(gate, texts),
              gate = "push" => texts = Outgoing
       PROVE  LocalInv'
  <2>1. tool' \in ToolStates /\ tool'.gate = gate /\ tool'.left = texts /\ tool'.lists = lists
        /\ tool'.open = {}
    BY <1>1, <1>11 DEF Start, Idle, ToolStates
  <2>4. Covered(lists)' /\ Covered(Lasting(lists))'
    BY <1>1, <1>4, <1>11, CoveredLasts DEF Start, Covered, Granted
  <2>2. LocalTypeOK' /\ ListsCovered' /\ PublishedWasAllowed'
    <3>1. RunCovered(tool)'
      BY <1>11, <2>1, <2>4 DEF Start, RunCovered, Covered, Lasting, Granted
    <3> QED BY <1>1, <1>7, <1>11, <2>1, <2>4, <3>1 DEF Start, LocalTypeOK, ToolStates, ListsCovered
  <2>3. PushFits'
    BY <1>11, <2>1 DEF Start, PushFits, Outgoing
  <2> QED BY <2>2, <2>3 DEF LocalInv
<1>12. StartScan \/ StartGoScan => LocalInv'
  <2>1. {tree[f] : f \in Files} \in SUBSET FileContents
    BY <1>1 DEF Trees
  <2> QED BY <1>11, <2>1 DEF StartScan, StartGoScan
<1>13. StartPush => LocalInv'
  <2>1. Outgoing \in SUBSET FileContents
    BY <1>1, <1>2 DEF Outgoing, Trees
  <2> QED BY <1>11, <2>1 DEF StartPush
<1>14. ASSUME NEW c \in FileContents, ScanDocument(c) PROVE LocalInv'
  <2> DEFINE blocking == Blocking(tool.lists, IssuesOf[c])
             asked == IF tool.gate = "push" THEN {} ELSE blocking
             new == [tool EXCEPT !.left = @ \ {c}, !.text = IssuesOf[c], !.open = asked,
                                 !.blocked = @ \/ blocking # asked]
  <2>1. blocking \in SUBSET Issues /\ IssuesOf[c] \in SUBSET Issues
    BY IssuesTyped DEF Blocking
  <2>2. asked \in SUBSET Issues /\ (blocking # asked) \in BOOLEAN
    BY <2>1
  <2>3. tool' = new /\ UNCHANGED <<tree, commits, remote, lists, paused, answered>>
    BY <1>14 DEF ScanDocument
  <2>4. /\ new \in ToolStates /\ new.gate = tool.gate /\ new.lists = tool.lists
        /\ new.left = tool.left \ {c} /\ new.open = asked
        /\ new.blocked = (tool.blocked \/ blocking # asked)
    BY <1>1, <2>1, <2>2 DEF ToolStates
  <2>5. LocalTypeOK' /\ ListsCovered' /\ PublishedWasAllowed'
    BY <1>1, <1>4, <1>7, <2>3, <2>4
       DEF LocalTypeOK, ToolStates, ListsCovered, RunCovered, Covered, Lasting, Granted
  <2>7. tool.gate = "push" => new.blocked \/ Passable(c)
    <3> SUFFICES ASSUME blocking = {}, tool.gate = "push" PROVE Passable(c)
      BY <2>4
    <3> QED BY <1>4, IssuesTyped DEF Passable, RunCovered, Covered, Blocking
  <2>8. PushFits'
    <3> HIDE DEF new, asked
    <3> SUFFICES ASSUME tool.gate = "push"
                 PROVE  /\ new.open = {}
                        /\ \A n \in (remote + 1)..Len(commits) : \A f \in Files :
                              (commits[n][f] \in new.left \/ new.blocked) \/ Passable(commits[n][f])'
      BY <2>3, <2>4 DEF PushFits
    <3>1. \A text : Passable(text) => Passable(text)'
      BY <2>3, GrantedStays
    <3>2. new.open = {}
      BY <2>4 DEF asked
    <3> QED BY <1>4, <2>3, <2>4, <2>7, <3>1, <3>2 DEF PushFits
  <2> QED BY <2>5, <2>8 DEF LocalInv
<1>15. ASSUME NEW issues \in SUBSET Issues, NEW overrides \in Overrides, Answer(issues, overrides),
              Covered(Lasting(overrides))', answered \subseteq answered',
              answered' \subseteq (Issues \cup Rules) \X {"always", "saved"},
              lists' \in Overrides, Covered(lists)'
       PROVE  LocalInv'
  <2> DEFINE judged == issues = tool.open /\ Blocking(overrides, tool.text) # {}
             new == [tool EXCEPT !.open = @ \ issues, !.lists = overrides, !.blocked = @ \/ judged]
  <2>1. tool' = new /\ UNCHANGED <<tree, commits, remote, paused>> /\ issues # {} /\ issues \subseteq tool.open
    BY <1>15 DEF Answer
  <2>2. judged \in BOOLEAN
    OBVIOUS
  <2> HIDE DEF judged
  <2>3. new \in ToolStates /\ new.gate = tool.gate /\ new.lists = overrides
    BY <1>1, <1>15, <2>2 DEF ToolStates
  <2>4. tool.gate # "push"
    BY <1>4, <2>1 DEF PushFits
  <2>5. RunCovered(tool)'
    BY <1>15, <2>1, <2>3, <2>4 DEF RunCovered, Covered, Lasting
  <2> HIDE DEF new
  <2>6. LocalTypeOK' /\ ListsCovered' /\ PublishedWasAllowed' /\ PushFits'
    BY <1>1, <1>7, <1>15, <2>1, <2>3, <2>4, <2>5 DEF LocalTypeOK, ToolStates, ListsCovered, PushFits
  <2> QED BY <2>6 DEF LocalInv
<1>16. ASSUME NEW issues \in SUBSET Issues, RunOnce(issues) PROVE LocalInv'
  <2>a. PICK held \in Overrides : held = tool.lists
    BY <1>3
  <2>b. Covered(Lasting(held))
    BY <1>4, <2>a DEF RunCovered, Covered
  <2>1. AllowOnce(held, issues) \in Overrides /\ Covered(Lasting(AllowOnce(held, issues)))'
    BY <1>16, <2>b, OnceCovers DEF RunOnce
  <2>2. answered' \subseteq (Issues \cup Rules) \X {"always", "saved"} /\ answered \subseteq answered'
    BY <1>1, <1>16 DEF RunOnce
  <2>3. lists' \in Overrides /\ Covered(lists)'
    BY <1>1, <1>4, <1>16, <2>2, GrantedStays DEF RunOnce, Covered
  <2>4. Answer(issues, AllowOnce(held, issues))
    BY <1>16, <2>a DEF RunOnce
  <2> QED BY <1>15, <2>1, <2>2, <2>3, <2>4
<1>17. ASSUME NEW issues \in SUBSET Issues, AlwaysAllow(issues) PROVE LocalInv'
  <2>a. PICK held \in Overrides : held = tool.lists
    BY <1>3
  <2>b. Covered(Lasting(held)) /\ held.session \subseteq Issues
    BY <1>4, <2>a DEF RunCovered, Covered, Overrides
  <2>c. answered' = answered \cup (issues \X {"always"}) \cup (held.session \X {"saved"})
    BY <1>17, <2>a DEF AlwaysAllow
  <2>d. \A i \in held.session : Granted(i)'
    BY <2>c DEF Granted
  <2>1. AllowAlways(held, issues) \in Overrides /\ Covered(AllowAlways(held, issues))'
    BY <2>b, <2>c, <2>d, AlwaysCovers
  <2>2. answered' \subseteq (Issues \cup Rules) \X {"always", "saved"} /\ answered \subseteq answered'
    BY <1>1, <2>b, <2>c
  <2>3. lists' = AllowAlways(held, issues) /\ Answer(issues, AllowAlways(held, issues))
    BY <1>17, <2>a DEF AlwaysAllow, Saved
  <2>4. lists' \in Overrides /\ Covered(lists)'
    BY <2>1, <2>3 DEF Covered
  <2>5. Covered(Lasting(AllowAlways(held, issues)))'
    BY <2>1, CoveredLasts
  <2> QED BY <1>15, <2>1, <2>2, <2>3, <2>4, <2>5
<1>18. ASSUME NEW issue \in Issues, RejectIssue(issue) PROVE LocalInv'
  <2>1. UNCHANGED <<lists, answered>> /\ Answer({issue}, tool.lists)
    BY <1>18 DEF RejectIssue
  <2>2. PICK held \in Overrides : held = tool.lists
    BY <1>3
  <2>3. Covered(Lasting(held))' /\ Covered(lists)' /\ Answer({issue}, held)
    BY <1>4, <2>1, <2>2 DEF RunCovered, Covered, Granted
  <2> QED BY <1>1, <1>15, <2>1, <2>3
<1>19. CASE FinishRun
  <2>1. tool' = Idle /\ UNCHANGED <<tree, commits, lists, answered>>
        /\ tool.left = {} /\ paused' \in BOOLEAN
    BY <1>1, <1>19 DEF FinishRun
  <2>2. remote' = remote \/ (remote' = Len(commits) /\ tool.gate = "push" /\ ~tool.blocked)
    BY <1>19 DEF FinishRun
  <2>3. remote' \in 0..Len(commits)
    BY <1>1, <2>2
  <2>4. Covered(lists)' /\ RunCovered(tool)'
    BY <1>4, <2>1, IdleCovered DEF RunCovered, Covered, Granted
  <2>5. ASSUME NEW n \in 2..remote', NEW f \in Files PROVE Passable(commits[n][f])
    <3>1. CASE n <= remote
      BY <1>1, <1>4, <3>1 DEF PublishedWasAllowed, Passable
    <3>2. CASE n > remote
      BY <1>1, <1>4, <2>1, <2>2, <3>2 DEF PushFits
    <3> QED BY <1>1, <3>1, <3>2
  <2>6. PublishedWasAllowed'
    BY <2>1, <2>5 DEF PublishedWasAllowed, Passable, Granted
  <2>7. LocalTypeOK' /\ PushFits'
    BY <1>1, <2>1, <2>3, IdleTyped DEF LocalTypeOK, ToolStates, PushFits, Idle
  <2> QED BY <2>4, <2>6, <2>7 DEF LocalInv, ListsCovered
<1>20. CASE Abort
  <2>1. tool' = Idle /\ UNCHANGED <<tree, commits, remote, lists, paused, answered>>
    BY <1>20 DEF Abort
  <2>2. Covered(lists)' /\ RunCovered(tool)'
    BY <1>4, <2>1, IdleCovered DEF RunCovered, Covered, Granted
  <2>3. LocalTypeOK' /\ PushFits'
    BY <1>1, <2>1, IdleTyped DEF LocalTypeOK, ToolStates, PushFits, Idle
  <2> QED BY <1>7, <2>1, <2>2, <2>3 DEF LocalInv, ListsCovered
<1>21. CASE UNCHANGED localVars
  <2>1. UNCHANGED <<tree, commits, remote, lists, tool, paused, answered>>
    BY <1>21 DEF localVars
  <2>2. LocalTypeOK'
    BY <1>1, <2>1 DEF LocalTypeOK, ToolStates
  <2> QED BY <2>1, <2>2, ListsStay, PushStays, PublishedStays DEF LocalInv
<1> QED BY <1>5, <1>6, <1>8, <1>9, <1>10, <1>12, <1>13, <1>14, <1>16, <1>17, <1>18, <1>19, <1>20, <1>21
    DEF LocalNext

(* The saved lists hold nothing but what the user has allowed for longer   *)
(* than one run, and what a push passes over without blocking is on them.  *)
THEOREM LocalInvHolds == LocalSpec => []LocalInv
<1> QED BY InitLocal, NextLocal, PTL DEF LocalSpec

(* "block the push" (.githooks/pre-push): whatever the remote has of the   *)
(* branch, in any commit, has been allowed by the user, issue by issue and *)
(* for longer than one run, or saved along by a run that asked about it.   *)
THEOREM PushesWereAllowed == LocalSpec => []PublishedWasAllowed
<1>1. LocalInv => PublishedWasAllowed
  BY DEF LocalInv
<1> QED BY <1>1, LocalInvHolds, PTL

-------------------------------------------------------------------------------
(* All of MCSkills: whatever a behaviour follows, it is one of every part,  *)
(* which either takes a step of its own or is left as it is.                *)
LEMMA CraftImplements == CraftSpec => ReviewSpec /\ SkillsSpec /\ LocalSpec
<1>1. CraftInit => ReviewInit /\ SkillsInit /\ LocalInit
  BY DEF CraftInit
<1>2. [CraftNext]_craftVars => [ReviewNext]_reviewVars /\ [SkillsNext]_skillVars /\ [LocalNext]_localVars
  <2>1. CraftNext => \/ ReviewNext /\ UNCHANGED <<skillVars, localVars>>
                     \/ SkillsNext /\ UNCHANGED <<reviewVars, localVars>>
                     \/ LocalNext /\ UNCHANGED <<reviewVars, skillVars>>
    BY DEF CraftNext, OneWriter, SkillsNext
  <2>2. UNCHANGED craftVars => UNCHANGED <<reviewVars, skillVars, localVars>>
    BY DEF craftVars
  <2> QED BY <2>1, <2>2
<1> QED BY <1>1, <1>2, PTL DEF CraftSpec, ReviewSpec, SkillsSpec, LocalSpec

(* Every variable of the reviews, of the store and of the guard on a        *)
(* developer's machine has its type.                                        *)
THEOREM CraftTypesCorrect == CraftSpec => []CraftTypeOK
<1>1. LocalInv => LocalTypeOK
  BY DEF LocalInv
<1>2. ReviewSpec /\ SkillsSpec /\ LocalSpec => []ReviewTypeOK /\ []SkillsTypeOK /\ []LocalTypeOK
  BY <1>1, ReviewTypeCorrect, SkillsTypesCorrect, LocalInvHolds, PTL
<1> QED BY <1>2, CraftImplements, PTL DEF CraftTypeOK

===============================================================================
