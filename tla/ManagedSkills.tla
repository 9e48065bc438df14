------------------------------ MODULE ManagedSkills -----------------------------
(***************************************************************************)
(* The managed skills of one workspace: leaders write them, agents fetch   *)
(* them.  app/routers/managed_skills.py over app/services/skill_store.py.  *)
(*                                                                         *)
(* A handler reads, scans and compares a draft before it writes, and the   *)
(* rows may change in between: an update locks its row for the write, in   *)
(* private mode for the scan as well; creating locks the workspace.  A     *)
(* document that is fetched is scanned as it was read, and a flagged one   *)
(* is handed out on an approval of exactly that document.                  *)
(***************************************************************************)
EXTENDS Integers, FiniteSets, Sequences

CONSTANTS Editors,      \* requests of leaders served at the same time
          Fetches,      \* requests of agents of one user
          Slugs,
          Headings,     \* name, description and update_mode
          Contents,
          Forms,        \* raw, or wrapped in one of the modes
          Flagged,      \* <<heading, content>>: what the scanner flags together,
          FlaggedRaw,   \* and the content it flags without a heading
          MaxSkills,    \* 500
          MaxVersion,   \* bound of the model: versions of a skill
          MaxRows,      \* bound of the model: skills ever created
          MaxCases,     \* bound of the model: documents under review, or allowed
          Keep, NoSlug, \* what a draft leaves as it is; no skill
          NoHeading, NoContent

ASSUME FlaggedAssumption == /\ Flagged \subseteq Headings \X Contents
                            /\ FlaggedRaw \subseteq Contents
ASSUME FormsAssumption == "raw" \in Forms
ASSUME SkillBounds == /\ {MaxSkills, MaxRows, MaxCases} \subseteq Nat
                      /\ MaxVersion \in Nat \ {0}
ASSUME SlugsAssumption == IsFiniteSet(Slugs)
ASSUME SkillNulls == /\ Keep \notin Headings \cup Contents /\ NoSlug \notin Slugs
                     /\ NoHeading \notin Headings /\ NoContent \notin Contents

VARIABLES private,   \* settings.PRIVATE_MODE
          skill,     \* slug -> ManagedSkill with its versions
          made,      \* rows created so far; the i-th has id i
          editor,    \* the request a leader's handler serves
          fetch,     \* the document an agent's handler has read
          rejected,  \* documents with a pending review case
          grants,    \* documents approved once, and always
          \* history, read by properties only
          handed,    \* flagged words handed out
          reviewed   \* flagged words a review has allowed, in their form

skillVars == <<private, skill, made, editor, fetch, rejected, grants, handed, reviewed>>

Rows == [id : 1..MaxRows, heading : Headings, content : Contents, version : 1..MaxVersion]
NoRow == [id |-> 0, heading |-> NoHeading, content |-> NoContent, version |-> 0]

Phases == {"idle", "open", "checked", "locked", "drafted", "counted", "deleting"}
Drafts == [heading : Headings \cup {Keep}, content : Contents \cup {Keep}]
NoDraft == [heading |-> Keep, content |-> Keep]
NoEditor == [phase |-> "idle", slug |-> NoSlug, draft |-> NoDraft, seen |-> NoRow, strict |-> FALSE]

SkillDocuments == [slug : Slugs, row : Rows, form : Forms]
NoFetch == [slug |-> NoSlug, row |-> NoRow, form |-> "raw"]

SkillsTypeOK ==
    /\ private \in BOOLEAN
    /\ skill \in [Slugs -> Rows \cup {NoRow}]
    /\ made \in 0..MaxRows
    /\ editor \in [Editors -> [phase : Phases, slug : Slugs \cup {NoSlug}, draft : Drafts,
                               seen : Rows \cup {NoRow}, strict : BOOLEAN]]
    /\ fetch \in [Fetches -> SkillDocuments \cup {NoFetch}]
    /\ rejected \subseteq SkillDocuments
    /\ grants \in [once : SUBSET SkillDocuments, always : SUBSET SkillDocuments]
    /\ handed \subseteq SkillDocuments /\ reviewed \subseteq SkillDocuments

SkillsInit ==
    /\ private \in BOOLEAN
    /\ skill = [s \in Slugs |-> NoRow]
    /\ made = 0
    /\ editor = [e \in Editors |-> NoEditor]
    /\ fetch = [f \in Fetches |-> NoFetch]
    /\ rejected = {}
    /\ grants = [once |-> {}, always |-> {}]
    /\ handed = {} /\ reviewed = {}

-------------------------------------------------------------------------------
(* skill_revision: everything of a row but its id. *)
Revision(row) == [row EXCEPT !.id = 0]

(* Mutant of Expected: what the session read first is compared again. *)
ExpectedOfRead(e, row) == editor[e].strict => Revision(editor[e].seen) = Revision(editor[e].seen)

(* expected_version and expected_revision against the row as it is now. *)
Expected(e, row) == editor[e].strict => Revision(row) = Revision(editor[e].seen)

Merge(draft, row) ==
    [heading |-> IF draft.heading = Keep THEN row.heading ELSE draft.heading,
     content |-> IF draft.content = Keep THEN row.content ELSE draft.content]

(* _require_private_safe_draft. *)
Storable(text) == private => <<text.heading, text.content>> \notin Flagged

(* Other content is a new version, and a row of the history. *)
Edited(row, draft) ==
    LET text == Merge(draft, row)
    IN  [row EXCEPT !.heading = text.heading, !.content = text.content,
                    !.version = IF text.content = row.content THEN @ ELSE @ + 1]

(* A row another update has locked has to be waited for, and so has the     *)
(* workspace while another skill is created.                                *)
RowFree(e, s) == \A d \in Editors \ {e} : editor[d].phase = "locked" => editor[d].slug # s

WorkspaceFree(e) == \A d \in Editors \ {e} : editor[d].phase # "counted"

Stored == {s \in Slugs : skill[s] # NoRow}

CloseEditor(e) == editor' = [editor EXCEPT ![e] = NoEditor]

-------------------------------------------------------------------------------
(* get_skill: a leader opens a skill to edit it. *)
OpenSkill(e, s) ==
    /\ editor[e].phase = "idle" /\ skill[s] # NoRow
    /\ editor' = [editor EXCEPT ![e] = [@ EXCEPT !.phase = "open", !.slug = s, !.seen = skill[s]]]
    /\ UNCHANGED <<private, skill, made, fetch, rejected, grants, handed, reviewed>>

(* update_skill up to the conflict check: in private mode the row is        *)
(* locked, compared with what the editor expects, and scanned as it will be.*)
Submit(e, draft, strict) ==
    LET s == editor[e].slug
        asked == [editor[e] EXCEPT !.draft = draft, !.strict = strict]
        row == skill[s]
    IN  /\ editor[e].phase = "open" /\ draft # NoDraft
        /\ IF ~private THEN editor' = [editor EXCEPT ![e] = [asked EXCEPT !.phase = "checked"]]
           ELSE /\ RowFree(e, s)
                /\ IF /\ row # NoRow /\ (strict => Revision(row) = Revision(editor[e].seen))
                      /\ Storable(Merge(draft, row))
                   THEN editor' = [editor EXCEPT ![e] = [asked EXCEPT !.phase = "locked"]]
                   ELSE CloseEditor(e)
        /\ UNCHANGED <<private, skill, made, fetch, rejected, grants, handed, reviewed>>

(* update_managed_skill: the row is locked and read again, whatever the     *)
(* session has of it (populate_existing).                                   *)
Save(e) ==
    LET s == editor[e].slug
        row == skill[s]
    IN  /\ editor[e].phase \in {"checked", "locked"}
        /\ RowFree(e, s)
        /\ row # NoRow /\ Expected(e, row) => Edited(row, editor[e].draft).version <= MaxVersion
        /\ CloseEditor(e)
        /\ IF row # NoRow /\ Expected(e, row)
           THEN skill' = [skill EXCEPT ![s] = Edited(row, editor[e].draft)]
           ELSE UNCHANGED skill
        /\ UNCHANGED <<private, made, fetch, rejected, grants, handed, reviewed>>

(* create_skill: the draft is scanned in private mode; then the workspace   *)
(* is locked and counted; then the row is added.                            *)
Draft(e, s, draft) ==
    /\ editor[e].phase = "idle"
    /\ draft.heading # Keep /\ draft.content # Keep
    /\ Storable(draft)
    /\ editor' = [editor EXCEPT ![e] = [@ EXCEPT !.phase = "drafted", !.slug = s, !.draft = draft]]
    /\ UNCHANGED <<private, skill, made, fetch, rejected, grants, handed, reviewed>>

Count(e) ==
    /\ editor[e].phase = "drafted"
    /\ WorkspaceFree(e)
    /\ IF skill[editor[e].slug] = NoRow /\ Cardinality(Stored) < MaxSkills
       THEN editor' = [editor EXCEPT ![e].phase = "counted"]
       ELSE CloseEditor(e)
    /\ UNCHANGED <<private, skill, made, fetch, rejected, grants, handed, reviewed>>

Create(e) ==
    LET s == editor[e].slug IN
    /\ editor[e].phase = "counted" /\ made < MaxRows
    /\ CloseEditor(e)
    /\ IF skill[s] = NoRow
       THEN /\ skill' = [skill EXCEPT ![s] = [id |-> made + 1, heading |-> editor[e].draft.heading,
                                              content |-> editor[e].draft.content, version |-> 1]]
            /\ made' = made + 1
       ELSE UNCHANGED <<skill, made>>
    /\ UNCHANGED <<private, fetch, rejected, grants, handed, reviewed>>

(* delete_skill: the row found is deleted by its id, whatever has become of *)
(* it since.                                                                *)
Find(e, s) ==
    /\ editor[e].phase = "idle" /\ skill[s] # NoRow
    /\ editor' = [editor EXCEPT ![e] = [@ EXCEPT !.phase = "deleting", !.slug = s, !.seen = skill[s]]]
    /\ UNCHANGED <<private, skill, made, fetch, rejected, grants, handed, reviewed>>

Delete(e) ==
    LET s == editor[e].slug IN
    /\ editor[e].phase = "deleting"
    /\ RowFree(e, s)
    /\ skill' = [skill EXCEPT ![s] = IF @.id = editor[e].seen.id THEN NoRow ELSE @]
    /\ CloseEditor(e)
    /\ UNCHANGED <<private, made, fetch, rejected, grants, handed, reviewed>>

(* A request is refused, because of a conflict it asked to be blocked for,  *)
(* or fails: the session is rolled back and its locks are free.             *)
EditorStops(e) ==
    /\ editor[e].phase # "idle"
    /\ CloseEditor(e)
    /\ UNCHANGED <<private, skill, made, fetch, rejected, grants, handed, reviewed>>

-------------------------------------------------------------------------------
FlaggedDocument(d) ==
    IF d.form = "raw" THEN d.row.content \in FlaggedRaw
    ELSE <<d.row.heading, d.row.content>> \in Flagged

(* Mutant of Identity: an approval is good for every form. *)
IdentityOfWords(d) == [d EXCEPT !.row.id = 1, !.form = "raw"]

(* What an approval is of: the revision with the form and the words.        *)
Identity(d) == [d EXCEPT !.row.id = 1]

(* download_skill and live_skill: the row is read and its document built.   *)
Fetch(f, s, form) ==
    /\ fetch[f] = NoFetch /\ skill[s] # NoRow
    /\ fetch' = [fetch EXCEPT ![f] = [slug |-> s, row |-> skill[s], form |-> form]]
    /\ UNCHANGED <<private, skill, made, editor, rejected, grants, handed, reviewed>>

(* _authorize_distribution, under the lock of the approvals' owner. *)
Distribute(f) ==
    LET d == fetch[f]
        i == Identity(d)
        flagged == FlaggedDocument(d)
        approved == i \in grants.once \cup grants.always
        pending == \E c \in rejected : Identity(c) = i   \* such a case is reused
    IN  /\ d # NoFetch
        /\ flagged /\ ~approved => Cardinality(rejected \cup reviewed \cup {d}) <= MaxCases
        /\ fetch' = [fetch EXCEPT ![f] = NoFetch]
        /\ rejected' = IF flagged /\ ~approved /\ ~pending THEN rejected \cup {d} ELSE rejected
        /\ grants' = IF flagged /\ i \notin grants.always THEN [grants EXCEPT !.once = @ \ {i}] ELSE grants
        /\ handed' = IF flagged /\ approved THEN handed \cup {d} ELSE handed
        /\ UNCHANGED <<private, skill, made, editor, reviewed>>

(* The reader reviews what was rejected. *)
Review(d, action) ==
    /\ d \in rejected
    /\ rejected' = rejected \ {d}
    /\ grants' = CASE action = "allow_once"   -> [grants EXCEPT !.once = @ \cup {Identity(d)}]
                   [] action = "allow_always" -> [grants EXCEPT !.always = @ \cup {Identity(d)}]
                   [] OTHER -> [once |-> grants.once \ {Identity(d)},
                                always |-> grants.always \ {Identity(d)}]
    /\ reviewed' = IF action = "keep_rejected" THEN reviewed ELSE reviewed \cup {d}
    /\ UNCHANGED <<private, skill, made, editor, fetch, handed>>

Edit(e) ==
    \/ \E s \in Slugs : OpenSkill(e, s) \/ Find(e, s) \/ \E draft \in Drafts : Draft(e, s, draft)
    \/ \E draft \in Drafts, strict \in BOOLEAN : Submit(e, draft, strict)
    \/ Save(e) \/ Count(e) \/ Create(e) \/ Delete(e) \/ EditorStops(e)

Read ==
    \/ \E f \in Fetches : Distribute(f) \/ \E s \in Slugs, form \in Forms : Fetch(f, s, form)
    \/ \E d \in rejected, action \in {"allow_once", "allow_always", "keep_rejected"} : Review(d, action)

SkillsNext == (\E e \in Editors : Edit(e)) \/ Read

SkillsSpec == SkillsInit /\ [][SkillsNext]_skillVars

-------------------------------------------------------------------------------
(* "This skill changed since you opened it": an editor who names the        *)
(* revision he has open overwrites nothing he has not seen, though his      *)
(* session read the row before the lock.  A row deleted and created again   *)
(* with the same words counts as seen.                                      *)
NoUnseenOverwrite ==
    [][\A e \in Editors :
          LET s == editor[e].slug
          IN  /\ editor[e].phase \in {"checked", "locked"} /\ editor[e].strict
              /\ editor'[e] = NoEditor /\ skill'[s] # skill[s]
              => Revision(skill[s]) = Revision(editor[e].seen)]_skillVars

(* "Serialize creation per org so the cap cannot be exceeded by concurrent  *)
(* creates."                                                                *)
CapHolds == Cardinality(Stored) <= MaxSkills

(* "Private storage accepts no flagged source, even after an approval":     *)
(* no row is flagged, though two updates that are safe by themselves may    *)
(* change heading and content of one row at the same time.                  *)
PrivateStoreClean ==
    private => \A s \in Stored : <<skill[s].heading, skill[s].content>> \notin Flagged

(* "Stored drafts never become agent context without a current scan         *)
(* decision": flagged words handed out in a form are words the reader has   *)
(* allowed in that form, whatever became of the skill while it was          *)
(* fetched, rejected and reviewed.                                          *)
Words(d) == <<d.slug, d.row.heading, d.row.content, d.form>>
HandedOutReviewed == \A d \in handed : \E r \in reviewed : Words(r) = Words(d)

(* What the store promises of its rows: no more than the cap, none flagged  *)
(* in private storage, none handed out without its review.                  *)
StoreKept == CapHolds /\ PrivateStoreClean /\ HandedOutReviewed

===============================================================================
