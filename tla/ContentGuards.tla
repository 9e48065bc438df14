------------------------------ MODULE ContentGuards -----------------------------
(***************************************************************************)
(* The rules of a workspace and what they do to a prompt and to an answer: *)
(* app/routers/policy.py (the policy row and its versions), guardrails/    *)
(* input.py and output.py (the checks), guardrails/opa.py (the custom rule *)
(* in the OPA sidecar), and the two routes that use them, chat             *)
(* (app/routers/chat.py) and its OpenAI shape                              *)
(* (app/routers/openai_compat.py).                                         *)
(*                                                                         *)
(* A text is the set of checks it really matches; what a check reports of  *)
(* it depends on the rules and on the engines that fail it.  An            *)
(* administrator's request is one step (its row is locked by nothing, see  *)
(* the README); a caller's is read, standard checks, custom rule, answer.  *)
(***************************************************************************)
EXTENDS Integers, Sequences, FiniteSets

CONSTANTS Calls,         \* request slots
          Texts,         \* texts, each the set of checks it matches ("name": a
                         \* person's name and none of the PII patterns)
          Replies,       \* answers, likewise
          RuleSets,      \* what input_rules and output_rules may hold
          DefaultRules,  \* app/defaults.py
          Regos,         \* Rego sources: [name, compiles, decides, blocks, warns]
          NoRego,        \* no custom rule
          MaxVersions    \* bound of the model: changes of the policy

(* The checks in the order of InputGuardrail.check and of                  *)
(* OutputGuardrail.check.                                                  *)
InputOrder == <<"secrets", "env", "pii", "injection", "jailbreak", "ml", "semantic">>
OutputOrder == <<"secrets", "schema", "toxic", "contains", "topic", "grounding", "validators">>
InputChecks == {InputOrder[i] : i \in DOMAIN InputOrder}
OutputChecks == {OutputOrder[i] : i \in DOMAIN OutputOrder}

(* What a call may find out of order: the compiled checks, the classifier   *)
(* and the embeddings; and a draw beyond sample_rate.                       *)
Faults == {"rust", "models", "sampled"}

(* on, outOn: the checks switched on; soft, outSoft: those whose mode only *)
(* warns; redact: pii_redaction_mode "redact"; open: what fail_mode and    *)
(* tier make of an OPA failure; sampling: sample_rate is set;              *)
(* unknownValidator: external_validators names one there is not.           *)
Rules == [on : SUBSET InputChecks, soft : SUBSET InputChecks,
          outOn : SUBSET OutputChecks, outSoft : SUBSET OutputChecks,
          redact : BOOLEAN, open : BOOLEAN, sampling : BOOLEAN, unknownValidator : BOOLEAN]

ASSUME RulesAssumption == DefaultRules \in RuleSets /\ RuleSets \subseteq Rules
ASSUME TextsAssumption == Texts \subseteq SUBSET (InputChecks \cup {"name"})
ASSUME RepliesAssumption == Replies \subseteq SUBSET OutputChecks
ASSUME RegosAssumption ==
    /\ \A g \in Regos : /\ DOMAIN g = {"name", "compiles", "decides", "blocks", "warns"}
                        /\ g.compiles \in BOOLEAN /\ g.decides \in BOOLEAN
                        /\ g.blocks \subseteq InputChecks /\ g.warns \subseteq InputChecks
    /\ NoRego \notin Regos
ASSUME VersionsAssumption == MaxVersions \in Nat

Routes == {"chat", "openai", "openai_stream"}

VARIABLES policy,    \* the row of org_policies: [rules, rego, version]
          versions,  \* the rows of org_policy_versions: [version, rules]
          opa,       \* the sidecar: [up, loaded]
          call,      \* slot -> the request it serves
          \* history, read by properties only
          held       \* the rules the policy has ever held

guardVars == <<policy, versions, opa, call, held>>

Phases == {"idle", "query", "upload", "requery", "provider", "refused", "delivered", "withheld"}

(* rules, rego: as read; ruledBy: the source that decided; verdict: what   *)
(* the input gate said; checked, logged: what was done with the answer.    *)
CallRecords ==
    [phase : Phases, route : Routes, text : SUBSET (InputChecks \cup {"name"}), rules : RuleSets,
     rego : Regos \cup {NoRego}, findings : SUBSET InputChecks,
     ruledBy : Regos \cup {NoRego}, verdict : {"none", "allowed", "warned", "blocked"},
     reply : SUBSET OutputChecks, checked : {"none", "sampled", "allowed", "warned", "blocked"},
     logged : BOOLEAN]

GuardsTypeOK ==
    /\ policy \in [rules : RuleSets, rego : Regos \cup {NoRego}, version : 1..(MaxVersions + 1)]
    /\ versions \subseteq [version : 2..(MaxVersions + 1), rules : RuleSets]
    /\ opa \in [up : BOOLEAN, loaded : Regos \cup {NoRego}]
    /\ call \in [Calls -> CallRecords]
    /\ held \subseteq RuleSets

IdleCall ==
    [phase |-> "idle", route |-> "chat", text |-> {}, rules |-> DefaultRules,
     rego |-> NoRego, findings |-> {}, ruledBy |-> NoRego, verdict |-> "none",
     reply |-> {}, checked |-> "none", logged |-> FALSE]

GuardsInit ==
    /\ policy = [rules |-> DefaultRules, rego |-> NoRego, version |-> 1]
    /\ versions = {}
    /\ opa = [up |-> TRUE, loaded |-> NoRego]
    /\ call = [c \in Calls |-> IdleCall]
    /\ held = {DefaultRules}

-------------------------------------------------------------------------------
(* The input gate.                                                         *)

(* block_secrets switches the credential patterns and the probes for them. *)
Enabled(rules, check) == (IF check = "env" THEN "secrets" ELSE check) \in rules.on

(* _engine: the compiled checks are loaded and do not raise on this text.   *)
Compiled(faults) == "rust" \notin faults

(* The two implementations of the credential patterns agree, and a compiled *)
(* one that is missing or raises falls through to its twin; likewise below. *)
SecretFound(text, faults) == "secrets" \in text

EnvProbeFound(text) == "env" \in text

(* The compiled check knows the patterns of the policy only; its twin also  *)
(* asks the redactor, which looks for names when no pattern matches.        *)
PiiFound(text, faults) ==
    \/ "pii" \in text
    \/ "name" \in text /\ ~Compiled(faults)

(* The built-in phrases and the workspace's own keywords.                   *)
InjectionFound(text, faults) == "injection" \in text

(* Mutant of JailbreakFound: a compiled check that raises counts as clean.  *)
JailbreakFoundCompiled(text, faults) == "jailbreak" \in text /\ Compiled(faults)

JailbreakFound(text, faults) == "jailbreak" \in text

(* The classifier fails open, and so does the heuristic that takes its      *)
(* place.                                                                   *)
ClassifierFound(text, faults) == "ml" \in text /\ "models" \notin faults

(* Sampled away, without texts to compare with, or failing: clean.          *)
SimilarFound(rules, text, faults) ==
    /\ ~(rules.sampling /\ "sampled" \in faults)
    /\ "semantic" \in text /\ "models" \notin faults

Found(rules, check, text, faults) ==
    CASE check = "secrets"   -> SecretFound(text, faults)
      [] check = "env"       -> EnvProbeFound(text)
      [] check = "pii"       -> PiiFound(text, faults)
      [] check = "injection" -> InjectionFound(text, faults)
      [] check = "jailbreak" -> JailbreakFound(text, faults)
      [] check = "ml"        -> ClassifierFound(text, faults)
      [] check = "semantic"  -> SimilarFound(rules, text, faults)

(* These three answer "allowed, warned" themselves when their mode is      *)
(* soft; the others answer "not allowed" and check() softens it.           *)
SelfSoftened == {"pii", "ml", "semantic"}

Hit(rules, check, text, faults) ==
    /\ Enabled(rules, check)
    /\ Found(rules, check, text, faults)
    /\ ~(check \in SelfSoftened /\ check \in rules.soft)

(* Of the softened answers check() forwards the classifier's; a softened   *)
(* pii or semantic match goes on as if nothing had matched.                *)
Forwarded(rules, check, text, faults) ==
    /\ check = "ml" /\ check \in rules.soft
    /\ Enabled(rules, check) /\ Found(rules, check, text, faults)

(* InputGuardrail.check without a custom rule: the first check that stops  *)
(* it decides.                                                             *)
Standard(rules, text, faults) ==
    LET stops == {i \in DOMAIN InputOrder :
                    \/ Hit(rules, InputOrder[i], text, faults)
                    \/ Forwarded(rules, InputOrder[i], text, faults)}
        first == InputOrder[CHOOSE i \in stops : \A j \in stops : i <= j]
    IN CASE stops = {} -> "allowed"
         [] stops # {} /\ (\/ Forwarded(rules, first, text, faults)
                           \/ first \in {"injection", "jailbreak"} \cap rules.soft) -> "warned"
         [] OTHER -> "blocked"

(* With a custom rule they only report: a finding is what was not allowed. *)
Findings(rules, text, faults) == {check \in InputChecks : Hit(rules, check, text, faults)}

(* What the rule makes of the findings (the sidecar's answer).             *)
Decision(rego, findings) ==
    IF rego.blocks \cap findings # {} THEN "blocked"
    ELSE IF rego.warns \cap findings # {} THEN "warned" ELSE "allowed"

(* Any failure of the sidecar blocks, unless the rules say "open".         *)
OnFailure(rules) == IF rules.open THEN "warned" ELSE "blocked"

(* The draw of OutputGuardrail.check comes before every check.              *)
Sampled(rules, faults) == rules.sampling /\ "sampled" \in faults

(* contains_secret and the broad patterns of old; no policy switches them.  *)
SecretLeaked(reply) == "secrets" \in reply

(* run_validators stops at the first that fails; one of an unknown name     *)
(* fails whatever it is shown.                                              *)
ValidatorFails(rules, reply) == "validators" \in reply \/ rules.unknownValidator

(* An answer is outside its grounding only when the policy gives one.       *)
OutputHit(rules, check, reply) ==
    CASE check = "secrets"    -> SecretLeaked(reply)
      [] check = "validators" -> check \in rules.outOn /\ ValidatorFails(rules, reply)
      [] OTHER                -> check \in rules.outOn /\ check \in reply

(* OutputGuardrail.check: the first check that is hit decides.  "review"    *)
(* and, for toxicity, "redact" deliver like "warn".                         *)
Inspect(rules, reply, faults) ==
    LET hits == {i \in DOMAIN OutputOrder : OutputHit(rules, OutputOrder[i], reply)}
        first == OutputOrder[CHOOSE i \in hits : \A j \in hits : i <= j]
    IN CASE Sampled(rules, faults) -> "sampled"
         [] ~Sampled(rules, faults) /\ hits = {} -> "allowed"
         [] OTHER -> IF first \in rules.outSoft \ {"secrets"} THEN "warned" ELSE "blocked"

-------------------------------------------------------------------------------
(* The policy's administrators.                                            *)

(* Mutant of Snapshot: the version is written after the row is changed. *)
SnapshotAfter(rules) == versions' = versions \cup {[version |-> policy.version + 1, rules |-> rules]}

(* update_policy, reset_policy and rollback_policy count the version up    *)
(* and keep what the row held before under the new number; custom_rule_rego *)
(* is not among the columns kept.                                          *)
Snapshot(rules) ==
    versions' = versions \cup {[version |-> policy.version + 1, rules |-> policy.rules]}

Become(rules, rego) ==
    /\ policy.version <= MaxVersions
    /\ Snapshot(rules)
    /\ policy' = [rules |-> rules, rego |-> rego, version |-> policy.version + 1]
    /\ held' = held \cup {rules}
    /\ UNCHANGED <<opa, call>>

(* PATCH /policy: a new custom rule must compile in the sidecar, and none  *)
(* is saved while it cannot be asked.  The sidecar keeps what it has.      *)
UpdatePolicy(rules, rego) ==
    /\ rego \notin {policy.rego, NoRego} => opa.up /\ rego.compiles
    /\ Become(rules, rego)

ResetPolicy == Become(DefaultRules, NoRego)

RollbackPolicy(v) == v \in versions /\ Become(v.rules, policy.rego)

(* The sidecar keeps its policies in memory only.                          *)
OpaStops == opa.up /\ opa' = [up |-> FALSE, loaded |-> NoRego]
            /\ UNCHANGED <<policy, versions, call, held>>

OpaStarts == ~opa.up /\ opa' = [opa EXCEPT !.up = TRUE]
             /\ UNCHANGED <<policy, versions, call, held>>

-------------------------------------------------------------------------------
(* A caller's request.                                                     *)

Settled(verdict) == IF verdict = "blocked" THEN "refused" ELSE "provider"

(* PIIRedactor.redact: the patterns, and names if the compiled redactor is  *)
(* not there and no pattern matches.                                        *)
Redacted(text, faults) ==
    IF "pii" \in text \/ Compiled(faults) THEN text \ {"pii"} ELSE text \ {"name"}

(* chat redacts the prompt itself in redact mode and switches the check     *)
(* off; the other routes do neither.                                        *)
Submitted(route, text, faults) ==
    IF route = "chat" /\ policy.rules.redact THEN Redacted(text, faults) ELSE text

Applied(route, rules) ==
    IF route = "chat" /\ rules.redact THEN [rules EXCEPT !.on = @ \ {"pii"}] ELSE rules

(* The policy is read, and the standard checks run, in one go.             *)
Receive(c, route, text, faults) ==
    LET seen == Submitted(route, text, faults)
        rules == Applied(route, policy.rules)
        verdict == Standard(rules, seen, faults)
        ruled == policy.rego # NoRego
    IN /\ call[c].phase \notin {"query", "upload", "requery", "provider"}
       /\ call' = [call EXCEPT ![c] =
            [IdleCall EXCEPT !.phase = IF ruled THEN "query" ELSE Settled(verdict),
                             !.route = route, !.text = seen, !.rules = policy.rules,
                             !.rego = policy.rego,
                             !.findings = Findings(rules, seen, faults),
                             !.verdict = IF ruled THEN "none" ELSE verdict,
                             !.logged = ~ruled /\ verdict = "blocked"]]
       /\ UNCHANGED <<policy, versions, opa, held>>

Conclude(c, verdict, source) ==
    call' = [call EXCEPT ![c].phase = Settled(verdict), ![c].verdict = verdict,
                         ![c].ruledBy = source, ![c].logged = verdict = "blocked"]

Fails(c) == Conclude(c, OnFailure(call[c].rules), NoRego)

(* A loaded rule answers, whoever saved it and when; one that sets no      *)
(* decision is a failure.                                                  *)
Consult(c) ==
    IF opa.loaded.decides
    THEN Conclude(c, Decision(opa.loaded, call[c].findings), opa.loaded)
    ELSE Fails(c)

(* evaluate: the first data query; 404 makes the caller upload the source  *)
(* it has read.                                                            *)
Query(c) ==
    /\ call[c].phase = "query"
    /\ \/ ~opa.up /\ Fails(c)
       \/ opa.up /\ opa.loaded = NoRego /\ call' = [call EXCEPT ![c].phase = "upload"]
       \/ opa.loaded # NoRego /\ Consult(c)
    /\ UNCHANGED <<policy, versions, opa, held>>

(* _put_policy *)
Upload(c) ==
    /\ call[c].phase = "upload"
    /\ IF opa.up /\ call[c].rego.compiles
       THEN /\ opa' = [opa EXCEPT !.loaded = call[c].rego]
            /\ call' = [call EXCEPT ![c].phase = "requery"]
       ELSE Fails(c) /\ UNCHANGED opa
    /\ UNCHANGED <<policy, versions, held>>

(* Mutant of Requery: a second 404 is taken for a rule that is satisfied. *)
RequeryOnce(c) ==
    /\ call[c].phase = "requery"
    /\ \/ ~opa.up /\ Fails(c)
       \/ opa.up /\ opa.loaded = NoRego /\ Conclude(c, "allowed", NoRego)
       \/ opa.loaded # NoRego /\ Consult(c)
    /\ UNCHANGED <<policy, versions, opa, held>>

(* The second query; another 404 is a failure.                             *)
Requery(c) ==
    /\ call[c].phase = "requery"
    /\ IF opa.loaded = NoRego THEN Fails(c) ELSE Consult(c)
    /\ UNCHANGED <<policy, versions, opa, held>>

(* chat and the plain OpenAI route inspect and log the answer before it is *)
(* handed over.                                                            *)
AnswerCall(c, reply, faults) ==
    /\ call[c].phase = "provider" /\ call[c].route # "openai_stream"
    /\ LET checked == Inspect(call[c].rules, reply, faults)
       IN call' = [call EXCEPT ![c].phase = IF checked = "blocked" THEN "withheld" ELSE "delivered",
                               ![c].reply = reply, ![c].checked = checked, ![c].logged = TRUE]
    /\ UNCHANGED <<policy, versions, opa, held>>

(* generate() in openai_compat.py passes the provider's tokens on, as many *)
(* as came before an exception it drops.                                   *)
StreamAnswer(c, reply) ==
    /\ call[c].phase = "provider" /\ call[c].route = "openai_stream"
    /\ call' = [call EXCEPT ![c].phase = "delivered", ![c].reply = reply]
    /\ UNCHANGED <<policy, versions, opa, held>>

(* The provider fails: 502; the row chat writes goes with its transaction, *)
(* the OpenAI route commits its own.                                       *)
ProviderFails(c) ==
    /\ call[c].phase = "provider" /\ call[c].route # "openai_stream"
    /\ call' = [call EXCEPT ![c].phase = "refused", ![c].logged = call[c].route = "openai"]
    /\ UNCHANGED <<policy, versions, opa, held>>

Serve(c) ==
    \/ \E route \in Routes, text \in Texts, faults \in SUBSET Faults : Receive(c, route, text, faults)
    \/ Query(c) \/ Upload(c) \/ Requery(c)
    \/ \E reply \in Replies, faults \in SUBSET {"sampled"} : AnswerCall(c, reply, faults)
    \/ \E reply \in Replies : StreamAnswer(c, reply)
    \/ ProviderFails(c)

Administer ==
    \/ \E rules \in RuleSets, rego \in Regos \cup {NoRego} : UpdatePolicy(rules, rego)
    \/ ResetPolicy
    \/ \E v \in versions : RollbackPolicy(v)

GuardsNext ==
    \/ Administer
    \/ OpaStops \/ OpaStarts
    \/ \E c \in Calls : Serve(c)

GuardsSpec == GuardsInit /\ [][GuardsNext]_guardVars

-------------------------------------------------------------------------------
(* "A broken rule must never silently skip" (input.py:202): a request of a *)
(* workspace with a custom rule reaches the provider only when a rule has  *)
(* decided it, whatever the sidecar did between the queries, or when the   *)
(* rules it read say that failures are open.                               *)
BrokenRuleNeverSkips ==
    \A c \in Calls :
        call[c].phase \in {"provider", "delivered", "withheld"} /\ call[c].rego # NoRego =>
            \/ call[c].ruledBy # NoRego
            \/ call[c].ruledBy = NoRego /\ call[c].rules.open /\ call[c].verdict = "warned"

(* A prompt that goes to the provider unmarked matches no check that is    *)
(* switched on to block, whichever engine was out of order: only the       *)
(* classifier, the vector search and the modes that only warn let          *)
(* something pass.                                                         *)
UnmarkedIsClean ==
    \A c \in Calls :
        call[c].phase = "provider" /\ call[c].rego = NoRego /\ call[c].verdict = "allowed" =>
            \A check \in call[c].text \ {"ml", "semantic"} :
                Enabled(call[c].rules, check) => check = "pii" /\ check \in call[c].rules.soft

(* What a route that inspects hands over unmarked leaks no credential and  *)
(* breaks no output rule of the policy the request has read, unless the    *)
(* answer was sampled away.                                                *)
DeliveredIsClean ==
    \A c \in Calls :
        call[c].phase = "delivered" /\ call[c].checked \in {"allowed", "warned"} =>
            /\ "secrets" \notin call[c].reply
            /\ call[c].checked = "allowed" =>
                  /\ call[c].reply \cap call[c].rules.outOn = {}
                  /\ ~("validators" \in call[c].rules.outOn /\ call[c].rules.unknownValidator)
            /\ call[c].logged

(* Both ways through the guards: what goes to the provider unmarked and     *)
(* what comes back from it.                                                 *)
BothWaysClean == UnmarkedIsClean /\ DeliveredIsClean

(* "Versioned store: snapshot before mutating" (policy.py:90): of every    *)
(* set of rules the workspace ever had, apart from the one it has, a       *)
(* version can be rolled back to.                                          *)
EveryPolicyKept == held \subseteq {v.rules : v \in versions} \cup {policy.rules}
===============================================================================
