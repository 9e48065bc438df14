------------------------------- MODULE LocalGuard -------------------------------
(***************************************************************************)
(* Skill Guard on a developer's machine: the scanner that asks and the     *)
(* scanner that lets a push pass (scripts/scan_agent_skills.py), its Go    *)
(* twin (cli/guardrail-scan), the allow lists they share                   *)
(* (guardrails/skill_overrides.py, .cursor/skill-guard-overrides.json) and *)
(* the two scripts that write beside them (skill_guard_allow.py,           *)
(* skill_guard_decision.py).                                               *)
(*                                                                         *)
(* A skill file's text is what it contains: issues, each a code and a line *)
(* (finding_key).  Only one tool runs at a time.                           *)
(***************************************************************************)
EXTENDS Integers, Sequences, FiniteSets

CONSTANTS Files,       \* names of skill files
          FileContents,    \* texts of a skill file
          IssuesOf,    \* text -> the issues in it, each <<code, line>>
          Severe,      \* the issues of at least --min-severity
          MaxCommits   \* bound of the model: commits of the repository

Issues == UNION {IssuesOf[c] : c \in FileContents}
Codes == {issue[1] : issue \in Issues}
Rules == Codes \X {0}   \* a code on whatever line

ASSUME IssuesAssumption ==
    /\ DOMAIN IssuesOf = FileContents
    /\ \A c \in FileContents : \A i \in IssuesOf[c] : DOMAIN i = 1..2 /\ i[2] \in Nat
ASSUME SevereAssumption == Severe \subseteq Issues
ASSUME CommitsAssumption == MaxCommits \in Nat \ {0}

Trees == [Files -> FileContents]

VARIABLES tree,      \* the working tree
          commits,   \* the branch, oldest commit first
          remote,    \* how many of them the remote has
          lists,     \* the file of allow lists
          tool,      \* the scanner that is running
          paused,    \* whether the pause file is there
          \* history, read by properties only
          answered   \* what the user has allowed for good ("always"), and what he
                     \* had allowed for one run when that run saved its lists ("saved")

localVars == <<tree, commits, remote, lists, tool, paused, answered>>

(* SkillOverrides: keys for this session, keys for ever, codes for ever.   *)
Overrides == [session : SUBSET Issues, keys : SUBSET Issues, codes : SUBSET Codes]
NoOverrides == [session |-> {}, keys |-> {}, codes |-> {}]

(* gate: a terminal is there to ask ("ask"), or git waits for the verdict  *)
(* ("push"), or the Go binary asks ("go").  left: texts still to be        *)
(* scanned; open: issues of the last one still to be asked about.          *)
Idle == [gate |-> "none", left |-> {}, text |-> {}, open |-> {}, lists |-> NoOverrides,
         blocked |-> FALSE]

LocalTypeOK ==
    /\ tree \in Trees
    /\ commits \in Seq(Trees) /\ Len(commits) <= MaxCommits
    /\ remote \in 0..Len(commits)
    /\ lists \in Overrides
    /\ tool \in [gate : {"none", "ask", "push", "go"}, left : SUBSET FileContents,
                 text : SUBSET Issues, open : SUBSET Issues, lists : Overrides,
                 blocked : BOOLEAN]
    /\ paused \in BOOLEAN
    /\ answered \subseteq (Issues \cup Rules) \X {"always", "saved"}

LocalInit ==
    /\ tree \in {t \in Trees : \A f \in Files : IssuesOf[t[f]] = {}}
    /\ commits = <<tree>> /\ remote = 1
    /\ lists = NoOverrides
    /\ tool = Idle
    /\ paused = FALSE
    /\ answered = {}

-------------------------------------------------------------------------------
(* is_allowed: a code allowed for ever covers it on every line of every    *)
(* file; a key names no file.                                              *)
LetThrough(overrides, issue) ==
    issue \in overrides.session \cup overrides.keys \/ issue[1] \in overrides.codes

AllowOnce(overrides, issues) == [overrides EXCEPT !.session = @ \cup issues]

AllowAlways(overrides, issues) ==
    [overrides EXCEPT !.keys = @ \cup issues, !.codes = @ \cup {i[1] : i \in issues}]

(* apply_overrides and the filter by severity.                             *)
Blocking(overrides, issues) == {i \in issues : ~LetThrough(overrides, i) /\ i \in Severe}

(* _save_overrides, saveOverrides: to_dict writes the session's keys too.  *)
Saved(overrides) == overrides

-------------------------------------------------------------------------------
(* The developer.                                                          *)

Working == tool.gate = "none"

EditFile(f, c) ==
    /\ Working /\ tree[f] # c
    /\ tree' = [tree EXCEPT ![f] = c]
    /\ UNCHANGED <<commits, remote, lists, tool, paused, answered>>

CommitFile ==
    /\ Working /\ Len(commits) < MaxCommits
    /\ tree # commits[Len(commits)]
    /\ commits' = Append(commits, tree)
    /\ UNCHANGED <<tree, remote, lists, tool, paused, answered>>

(* skill_guard_allow.py always --scan f: everything that blocks the file.  *)
(* "run-once" changes nothing that outlives the script.                    *)
AllowScript(f) ==
    LET blocking == {i \in IssuesOf[tree[f]] : ~LetThrough(lists, i)}
    IN /\ Working /\ blocking # {}
       /\ lists' = Saved(AllowAlways(lists, blocking))
       /\ answered' = answered \cup (blocking \X {"always"})
       /\ UNCHANGED <<tree, commits, remote, tool, paused>>

(* skill_guard_allow.py always --reason code *)
AllowReason(code) ==
    /\ Working /\ code \notin lists.codes
    /\ lists' = Saved([lists EXCEPT !.codes = @ \cup {code}])
    /\ answered' = answered \cup {<<<<code, 0>>, "always">>}
    /\ UNCHANGED <<tree, commits, remote, tool, paused>>

(* skill_guard_decision.py writes the decision down for the agent and      *)
(* takes the pause file away; it changes no list.                          *)
Decide ==
    /\ Working /\ paused
    /\ paused' = FALSE
    /\ UNCHANGED <<tree, commits, remote, lists, tool, answered>>

-------------------------------------------------------------------------------
(* The scanners.                                                           *)

Start(gate, texts) ==
    /\ Working
    /\ tool' = [Idle EXCEPT !.gate = gate, !.left = texts, !.lists = lists]
    /\ UNCHANGED <<tree, commits, remote, lists, paused, answered>>

(* Without revisions: the files of the working tree, with a terminal.      *)
StartScan == Start("ask", {tree[f] : f \in Files})

(* The Go binary without revisions does the same.                          *)
StartGoScan == Start("go", {tree[f] : f \in Files})

(* Mutant of Outgoing: what the last commit holds, as a diff would tell. *)
OutgoingTip == LET tip == commits[Len(commits)] IN {tip[f] : f \in Files}

(* _git_committed_skill_documents: every skill blob of every commit the    *)
(* remote does not have, each blob once.                                   *)
Outgoing == UNION {{commits[n][f] : f \in Files} : n \in (remote + 1)..Len(commits)}

(* git push runs .githooks/pre-push; its standard input is git's.          *)
StartPush == remote < Len(commits) /\ Start("push", Outgoing)

(* The next document: what blocks it is asked about when a terminal is     *)
(* there, and blocks the run otherwise.                                    *)
ScanDocument(c) ==
    LET blocking == Blocking(tool.lists, IssuesOf[c])
        asked == IF tool.gate = "push" THEN {} ELSE blocking
    IN /\ c \in tool.left /\ tool.open = {}
       /\ tool' = [tool EXCEPT !.left = @ \ {c}, !.text = IssuesOf[c], !.open = asked,
                               !.blocked = @ \/ blocking # asked]
       /\ UNCHANGED <<tree, commits, remote, lists, paused, answered>>

(* One question, or the batch command, is answered; after the last one the *)
(* document is judged again.                                               *)
Answer(issues, overrides) ==
    /\ issues # {} /\ issues \subseteq tool.open
    /\ Cardinality(issues) = 1 \/ issues = tool.open
    /\ tool' = [tool EXCEPT !.open = @ \ issues, !.lists = overrides,
                            !.blocked = @ \/ (issues = tool.open
                                              /\ Blocking(overrides, tool.text) # {})]
    /\ UNCHANGED <<tree, commits, remote, paused>>

(* Mutant of RunOnce: it saves the lists as "Always allow" does. *)
RunOnceSaved(issues) ==
    /\ Answer(issues, AllowOnce(tool.lists, issues))
    /\ lists' = Saved(AllowOnce(tool.lists, issues))
    /\ UNCHANGED answered

(* "Run once" is an answer for this run only. *)
RunOnce(issues) ==
    /\ Answer(issues, AllowOnce(tool.lists, issues))
    /\ UNCHANGED <<lists, answered>>

(* "Always allow" saves the lists as the run has them, with the answers     *)
(* that were for this run only.                                             *)
AlwaysAllow(issues) ==
    /\ Answer(issues, AllowAlways(tool.lists, issues))
    /\ lists' = Saved(AllowAlways(tool.lists, issues))
    /\ answered' = answered \cup (issues \X {"always"}) \cup (tool.lists.session \X {"saved"})

RejectIssue(issue) == Answer({issue}, tool.lists) /\ UNCHANGED <<lists, answered>>

(* The end: a pause file and exit code 1, or the texts pass; a push that   *)
(* passes is carried out.                                                  *)
FinishRun ==
    /\ ~Working /\ tool.left = {} /\ tool.open = {}
    /\ tool' = Idle
    /\ IF tool.blocked
       THEN paused' = TRUE /\ UNCHANGED remote
       ELSE /\ remote' = IF tool.gate = "push" THEN Len(commits) ELSE remote
            /\ UNCHANGED paused
    /\ UNCHANGED <<tree, commits, lists, answered>>

(* The tool is killed, or its input ends: no verdict, what was saved stays *)
(* saved, and git does not push.                                           *)
Abort ==
    /\ ~Working
    /\ tool' = Idle
    /\ UNCHANGED <<tree, commits, remote, lists, paused, answered>>

LocalNext ==
    \/ \E f \in Files, c \in FileContents : EditFile(f, c)
    \/ CommitFile
    \/ \E f \in Files : AllowScript(f)
    \/ \E code \in Codes : AllowReason(code)
    \/ Decide
    \/ StartScan \/ StartGoScan \/ StartPush
    \/ \E c \in FileContents : ScanDocument(c)
    \/ \E issues \in SUBSET Issues : RunOnce(issues) \/ AlwaysAllow(issues)
    \/ \E issue \in Issues : RejectIssue(issue)
    \/ FinishRun \/ Abort

LocalSpec == LocalInit /\ [][LocalNext]_localVars

-------------------------------------------------------------------------------
(* The user has allowed the issue's code for good, somewhere; or he had     *)
(* allowed just this issue for one run, and that run saved it along with a  *)
(* later "Always allow".  An answer for one run alone allows no push.       *)
Granted(issue) ==
    \/ \E other \in Issues \cup Rules : other[1] = issue[1] /\ <<other, "always">> \in answered
    \/ <<issue, "saved">> \in answered

(* "block the push": whatever the remote has of the branch, in any commit   *)
(* and not only in the last, has been allowed by the user, issue by issue   *)
(* and for longer than one run.  (What he allowed "for this run only" gets  *)
(* through once a later answer of that run was saved: skill_overrides.py.)  *)
PublishedWasAllowed ==
    \A n \in 2..remote : \A f \in Files : \A i \in IssuesOf[commits[n][f]] :
        i \in Severe => Granted(i)
===============================================================================
