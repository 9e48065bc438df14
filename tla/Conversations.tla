------------------------------ MODULE Conversations -----------------------------
(***************************************************************************)
(* What becomes of the words of a prompt: personal data is replaced by     *)
(* placeholders, memories of the user are put in front, a provider or the  *)
(* cache answers, the placeholders are filled in again, and what was said  *)
(* is remembered.  app/routers/chat.py with guardrails/pii_redactor.py,    *)
(* app/services/response_cache.py, memory.py and vectorstore.py, and the   *)
(* members' own changes in app/routers/memories.py.                        *)
(*                                                                         *)
(* A text is a sequence of tokens.  How relevant a memory is, what a       *)
(* provider picks from what it was sent, how old a memory is and when the  *)
(* cache forgets are choices.  The verdicts on prompt and answer are those *)
(* of ContentGuards; here a prompt has passed, and an answer passes or not.*)
(***************************************************************************)
EXTENDS Integers, FiniteSets, Sequences

CONSTANTS Talks,        \* requests served at the same time
          People,
          Team,         \* user -> workspace, or NoTeam
          NoTeam, Nobody,
          Patterns,     \* the kinds of personal data, in the redactor's order
          Told,         \* texts users write, as prompts and as memories
          MemoryIds,    \* bound of the model: rows ever created
          Modes,        \* the settings and rules an instance starts with
          TopK,         \* 3
          ContextSize,  \* 5
          MemoryCap,    \* 500
          Spare,        \* 10: rows archived beyond the cap
          MaxEntries    \* 10000

Kinds == {Patterns[i] : i \in DOMAIN Patterns}
Pieces == [kind : Kinds \cup {"word"}, n : Nat, held : BOOLEAN]

ASSUME ToldAssumption == Told \subseteq Seq(Pieces)
ASSUME TeamAssumption == DOMAIN Team = People /\ Nobody \notin People
ASSUME ModesAssumption ==
    /\ Modes \subseteq [redact : BOOLEAN, cache : BOOLEAN, index : BOOLEAN, private : BOOLEAN]
    /\ \A m \in Modes : m.private => ~m.cache /\ ~m.index
ASSUME ConversationBounds == {TopK, ContextSize, MemoryCap, Spare, MaxEntries} \subseteq Nat

VARIABLES mode,     \* pii_redaction_mode = "redact", response_cache, Pinecone, PRIVATE_MODE
          memory,   \* id -> row of memories
          vector,   \* id -> the user in the vector's metadata
          cache,    \* delivered answers, the one to be evicted first in front
          talk      \* what a request's handler is doing

talkVars == <<mode, memory, vector, cache, talk>>

-------------------------------------------------------------------------------
(* pii_redactor.py: one counter runs over all patterns, first by pattern,   *)
(* then by place.                                                           *)
Personal(token) == token.kind \in Kinds /\ ~token.held
Values(text) == {text[i] : i \in {j \in DOMAIN text : Personal(text[j])}}

Earlier(a, b) == \E i, j \in DOMAIN Patterns : i < j /\ Patterns[i] = a /\ Patterns[j] = b

Number(text, i) ==
    Cardinality({j \in DOMAIN text : /\ Personal(text[j])
                                     /\ \/ Earlier(text[j].kind, text[i].kind)
                                        \/ text[j].kind = text[i].kind /\ j <= i})

Placeholder(text, i) == [kind |-> text[i].kind, n |-> Number(text, i), held |-> TRUE]

Redacted(text) == [i \in DOMAIN text |-> IF Personal(text[i]) THEN Placeholder(text, i) ELSE text[i]]

(* The mapping from placeholders to values, and its use on an answer.       *)
Slots(text) == {Placeholder(text, i) : i \in {j \in DOMAIN text : Personal(text[j])}}
Filled(text, p) == text[CHOOSE i \in DOMAIN text : Personal(text[i]) /\ Placeholder(text, i) = p]

Restored(answer, text) ==
    [i \in DOMAIN answer |-> IF answer[i] \in Slots(text) THEN Filled(text, answer[i]) ELSE answer[i]]

ForProvider(prompt) == IF mode.redact THEN Redacted(prompt) ELSE prompt
ForClient(answer, prompt) == IF mode.redact THEN Restored(answer, prompt) ELSE answer

-------------------------------------------------------------------------------
Texts == Seq(Pieces)
MemoryRows == [user : People, text : Texts, pinned : BOOLEAN, low : BOOLEAN, archived : BOOLEAN]
NoMemory == [user |-> Nobody, text |-> <<>>, pinned |-> FALSE, low |-> FALSE, archived |-> TRUE]

Wishes == [text : Texts, pinned : BOOLEAN, low : BOOLEAN]
TalkPhases == {"idle", "recall", "read", "send", "call", "extract", "picking", "store"}
NoTalk == [phase |-> "idle", user |-> Nobody, kind |-> "store", prompt |-> <<>>, hits |-> {},
           context |-> {}, answer |-> <<>>, wanted |-> {}, staged |-> [i \in MemoryIds |-> NoMemory],
           archived |-> {},
           own |-> {}]  \* history: what the user's own memories said when they were read

Sent == [context : SUBSET Texts, prompt : Texts]
Entries == [key : Sent, text : Texts]

TalkStates == [phase : TalkPhases, user : People \cup {Nobody}, kind : {"chat", "stream", "store"},
               prompt : Texts, hits : SUBSET MemoryIds, context : SUBSET Texts, answer : Texts,
               wanted : SUBSET Wishes, staged : [MemoryIds -> MemoryRows \cup {NoMemory}],
               archived : SUBSET MemoryIds, own : SUBSET Pieces]

TalksTypeOK ==
    /\ mode \in Modes
    /\ memory \in [MemoryIds -> MemoryRows \cup {NoMemory}]
    /\ vector \in [MemoryIds -> People \cup {Nobody}]
    /\ cache \in Seq(Entries) /\ Len(cache) <= MaxEntries
    /\ talk \in [Talks -> TalkStates]

ConversationsInit ==
    /\ mode \in Modes
    /\ memory = [i \in MemoryIds |-> NoMemory]
    /\ vector = [i \in MemoryIds |-> Nobody]
    /\ cache = <<>>
    /\ talk = [t \in Talks |-> NoTalk]

Now(t, changes) == talk' = [talk EXCEPT ![t] = changes]
Rest(t) == Now(t, NoTalk)

-------------------------------------------------------------------------------
(* A prompt arrives and has passed the guard.                               *)
Begin(t, u, kind, prompt) ==
    /\ talk[t].phase = "idle"
    /\ Now(t, [NoTalk EXCEPT !.phase = "recall", !.user = u, !.kind = kind, !.prompt = prompt])
    /\ UNCHANGED <<mode, memory, vector, cache>>

Few(S, k) == {T \in SUBSET S : Cardinality(T) <= k}

(* query_memories: the filter is the user in the metadata; a failing or     *)
(* missing index finds nothing.                                             *)
Known(u) == {i \in MemoryIds : vector[i] = u}

QueryIndex(t) ==
    /\ talk[t].phase = "recall"
    /\ \E hits \in IF mode.index THEN Few(Known(talk[t].user), TopK) ELSE {{}} :
         Now(t, [talk[t] EXCEPT !.phase = "read", !.hits = hits])
    /\ UNCHANGED <<mode, memory, vector, cache>>

Active(rows) == {i \in MemoryIds : ~rows[i].archived}
OwnActive(rows, u) == {i \in Active(rows) : rows[i].user = u}

(* Mutant of Found: what the index returns is taken as it is.               *)
FoundAsIs(t) == {i \in talk[t].hits : memory[i] # NoMemory}

(* recall_memories looks the hits up by id: a vector may have outlived its  *)
(* row, and its row may be archived.                                        *)
Found(t) == {i \in talk[t].hits : ~memory[i].archived}

(* Without a hit that counts it searches by keyword.  Pinned memories are   *)
(* added in any case, and come first.                                       *)
ReadMemories(t) ==
    /\ talk[t].phase = "read"
    /\ LET own == OwnActive(memory, talk[t].user)
           pinned == {i \in own : memory[i].pinned}
           said(S) == {memory[i].text : i \in S}
       IN  \E recalled \in IF Found(t) # {} THEN {Found(t)} ELSE Few(own, TopK) :
           \E used \in SUBSET (pinned \cup recalled) :
             /\ Cardinality(used) <= ContextSize
             /\ used # pinned \cup recalled =>
                  Cardinality(used) = ContextSize /\ (used \subseteq pinned \/ pinned \subseteq used)
             /\ Now(t, [talk[t] EXCEPT !.phase = "send", !.hits = {}, !.context = said(used),
                                       !.own = UNION {Values(s) : s \in said(own)}])
    /\ UNCHANGED <<mode, memory, vector, cache>>

-------------------------------------------------------------------------------
(* Mutant of KeyOf: the key is made from the prompt before the memories.    *)
KeyOfPrompt(context, prompt) == [context |-> {}, prompt |-> prompt]

(* cache_key: of the prompt as it is sent.                                  *)
KeyOf(context, prompt) == [context |-> context, prompt |-> prompt]

Key(t) == KeyOf(talk[t].context, ForProvider(talk[t].prompt))
Cached(key) == {e \in {cache[i] : i \in DOMAIN cache} : e.key = key}

Without(i) == SubSeq(cache, 1, i - 1) \o SubSeq(cache, i + 1, Len(cache))

(* set_cached: the entry becomes the newest, the oldest goes.               *)
Store(entry) ==
    LET older == {i \in DOMAIN cache : cache[i].key = entry.key}
        others == IF older = {} THEN cache ELSE Without(CHOOSE i \in older : TRUE)
        all == Append(others, entry)
    IN  IF Len(all) > MaxEntries THEN Tail(all) ELSE all

UsesCache(t) == mode.cache /\ talk[t].kind = "chat"

(* An answer is filled in and judged.  A public stream has been forwarded   *)
(* as it came; any other answer that is refused is not delivered.           *)
Conclude(t, raw) ==
    LET filled == ForClient(raw, talk[t].prompt)
        public == talk[t].kind = "stream" /\ ~mode.private
    IN  \E allowed \in BOOLEAN :
          /\ Now(t, [talk[t] EXCEPT !.phase = "extract", !.context = {},
                                    !.answer = IF public THEN raw ELSE IF allowed THEN filled ELSE <<>>])
          /\ cache' = IF UsesCache(t) /\ allowed THEN Store([key |-> Key(t), text |-> filled]) ELSE cache

TakeCached(t) ==
    /\ talk[t].phase = "send" /\ UsesCache(t)
    /\ \E e \in Cached(Key(t)) : Conclude(t, e.text)
    /\ UNCHANGED <<mode, memory, vector>>

CallProvider(t) ==
    /\ talk[t].phase = "send"
    /\ UsesCache(t) => Cached(Key(t)) = {}
    /\ Now(t, [talk[t] EXCEPT !.phase = "call"])
    /\ UNCHANGED <<mode, memory, vector, cache>>

(* What a provider is sent: the prompt with its context, or an exchange to  *)
(* pick memories from, the prompt as it was written.  It answers with       *)
(* something it was sent.                                                   *)
InFlight(t) ==
    CASE talk[t].phase = "call" -> talk[t].context \cup {ForProvider(talk[t].prompt)}
      [] talk[t].phase = "picking" -> {talk[t].prompt, talk[t].answer}
      [] OTHER -> {}

ProviderAnswers(t) ==
    /\ talk[t].phase = "call"
    /\ \E raw \in InFlight(t) : Conclude(t, raw)
    /\ UNCHANGED <<mode, memory, vector>>

ProviderFails(t) ==
    /\ talk[t].phase = "call"
    /\ Rest(t)
    /\ UNCHANGED <<mode, memory, vector, cache>>

(* The cache forgets after six hours, and when its store does.              *)
ForgetAnswer ==
    /\ \E i \in DOMAIN cache : cache' = Without(i)
    /\ UNCHANGED <<mode, memory, vector, talk>>

(* llm_extract_memories: a provider, or a heuristic where it fails or is    *)
(* not asked, picks what to remember from the prompt and the answer.        *)
Remembers(t) == talk[t].kind = "chat" /\ ~mode.private /\ talk[t].answer # <<>>

AskForMemories(t) ==
    /\ talk[t].phase = "extract" /\ Remembers(t)
    /\ Now(t, [talk[t] EXCEPT !.phase = "picking"])
    /\ UNCHANGED <<mode, memory, vector, cache>>

PickMemories(t) ==
    /\ \/ talk[t].phase = "extract" /\ Remembers(t)
       \/ talk[t].phase = "picking"
    /\ \E picked \in SUBSET {talk[t].prompt, talk[t].answer} :
         Now(t, [NoTalk EXCEPT !.phase = "store", !.user = talk[t].user,
                               !.wanted = [text : picked, pinned : {FALSE}, low : {FALSE}]])
    /\ UNCHANGED <<mode, memory, vector, cache>>

EndTalk(t) ==
    /\ talk[t].phase = "extract" /\ ~Remembers(t)
    /\ Rest(t)
    /\ UNCHANGED <<mode, memory, vector, cache>>

-------------------------------------------------------------------------------
(* POST /memories, and /memories/extract/confirm with several texts.        *)
CreateMemories(t, u, texts, pinned, low) ==
    /\ talk[t].phase = "idle" /\ (pinned => Cardinality(texts) = 1)
    /\ Now(t, [NoTalk EXCEPT !.phase = "store", !.user = u,
                             !.wanted = [text : texts, pinned : {pinned}, low : {low}]])
    /\ UNCHANGED <<mode, memory, vector, cache>>

(* The rows as the session sees them, its own changes included.             *)
Seen(t) ==
    [i \in MemoryIds |->
        LET row == IF talk[t].staged[i] # NoMemory THEN talk[t].staged[i] ELSE memory[i]
        IN  IF i \in talk[t].archived THEN [row EXCEPT !.archived = TRUE] ELSE row]

FreshIds == {i \in MemoryIds : /\ memory[i] = NoMemory /\ vector[i] = Nobody
                             /\ \A t \in Talks : talk[t].staged[i] = NoMemory}

OfTeam(rows, team) == {i \in Active(rows) : Team[rows[i].user] = team}

(* Low and untouched for 90 days, in the whole workspace; with no workspace *)
(* that is IS NULL: of everybody who has none.                              *)
Expirable(rows, team) == {i \in OfTeam(rows, team) : ~rows[i].pinned /\ rows[i].low}

(* _prune_if_needed: the rows it archives, low ones first.                  *)
Pruned(rows, team) ==
    LET all == OfTeam(rows, team)
        loose == {i \in all : ~rows[i].pinned}
        many == Cardinality(all) - MemoryCap + Spare
        low(S) == {i \in S : rows[i].low}
    IN  IF team = NoTeam \/ Cardinality(all) <= MemoryCap THEN {{}}
        ELSE {S \in SUBSET loose :
                /\ Cardinality(S) <= many /\ (S # loose => Cardinality(S) = many)
                /\ low(S) = low(loose) \/ S \subseteq low(loose)}

(* create_memory up to its flush: a text that is there already is left      *)
(* alone; the vector is written at once, unless that fails.  The vectors of *)
(* archived rows stay: the function that would delete them is imported from *)
(* a module that has none, and the error is dropped.                        *)
StoreOne(t) ==
    /\ talk[t].phase = "store"
    /\ \E w \in talk[t].wanted :
       LET rows == Seen(t)
           team == Team[talk[t].user]
           rest == talk[t].wanted \ {w}
       IN  IF \E i \in OwnActive(rows, talk[t].user) : rows[i].text = w.text
           THEN Now(t, [talk[t] EXCEPT !.wanted = rest]) /\ UNCHANGED vector
           ELSE \E aged \in SUBSET Expirable(rows, team), id \in FreshIds, written \in BOOLEAN :
                \E pruned \in Pruned([i \in MemoryIds |-> [rows[i] EXCEPT !.archived = @ \/ i \in aged]], team) :
                  /\ Now(t, [talk[t] EXCEPT !.wanted = rest, !.archived = @ \cup aged \cup pruned,
                               !.staged[id] = [user |-> talk[t].user, text |-> w.text,
                                               pinned |-> w.pinned, low |-> w.low, archived |-> FALSE]])
                  /\ written => mode.index
                  /\ vector' = [vector EXCEPT ![id] = IF written THEN talk[t].user ELSE @]
    /\ UNCHANGED <<mode, memory, cache>>

CommitMemories(t) ==
    /\ talk[t].phase = "store" /\ talk[t].wanted = {}
    /\ memory' = [i \in MemoryIds |->
                     IF talk[t].staged[i] # NoMemory THEN Seen(t)[i]
                     ELSE [memory[i] EXCEPT !.archived = @ \/ i \in talk[t].archived]]
    /\ Rest(t)
    /\ UNCHANGED <<mode, vector, cache>>

(* A worker stops, or the client goes: the transaction is rolled back.      *)
Drop(t) ==
    /\ talk[t].phase # "idle"
    /\ Rest(t)
    /\ UNCHANGED <<mode, memory, vector, cache>>

(* PATCH and DELETE /memories/{id}: of one's own rows, and of the columns   *)
(* that are named.  The vector stays as it is.                              *)
PatchMemory(u, i) ==
    /\ memory[i].user = u
    /\ \E row \in {[memory[i] EXCEPT !.pinned = b] : b \in BOOLEAN}
                  \cup {[memory[i] EXCEPT !.low = b] : b \in BOOLEAN}
                  \cup {[memory[i] EXCEPT !.archived = b] : b \in BOOLEAN}
                  \cup {[memory[i] EXCEPT !.text = s] : s \in Told} :
         memory' = [memory EXCEPT ![i] = row]
    /\ UNCHANGED <<mode, vector, cache, talk>>

DeleteMemory(u, i) ==
    /\ memory[i].user = u
    /\ memory' = [memory EXCEPT ![i].archived = TRUE]
    /\ UNCHANGED <<mode, vector, cache, talk>>

-------------------------------------------------------------------------------
Converse(t) ==
    \/ \E u \in People, kind \in {"chat", "stream"}, p \in Told : Begin(t, u, kind, p)
    \/ QueryIndex(t) \/ ReadMemories(t) \/ TakeCached(t) \/ CallProvider(t)
    \/ ProviderAnswers(t) \/ ProviderFails(t) \/ AskForMemories(t) \/ PickMemories(t) \/ EndTalk(t)
    \/ StoreOne(t) \/ CommitMemories(t) \/ Drop(t)

Manage ==
    \/ \E t \in Talks, u \in People, texts \in SUBSET Told \ {{}}, pinned, low \in BOOLEAN :
         CreateMemories(t, u, texts, pinned, low)
    \/ \E u \in People, i \in MemoryIds : PatchMemory(u, i) \/ DeleteMemory(u, i)

ConversationsNext == (\E t \in Talks : Converse(t)) \/ Manage \/ ForgetAnswer

ConversationsSpec == ConversationsInit /\ [][ConversationsNext]_talkVars

-------------------------------------------------------------------------------
(* The personal data in an answer is the asker's: it stands in the prompt   *)
(* or in memories that were the asker's and not archived when they were     *)
(* read, although vectors outlive their rows, answers are reused between    *)
(* users, and what is remembered is asked about again.  No placeholder of   *)
(* the prompt is left in it, unless it was streamed as it came.  Where a    *)
(* policy both redacts and caches the first part does not hold: the cache   *)
(* keeps an answer with its values filled in under a prompt without them    *)
(* (chat.py:414, 423).                                                      *)
ValuesComeHome ==
    \A t \in Talks : talk[t].phase \in {"extract", "picking"} =>
        /\ ~(mode.redact /\ mode.cache) =>
              Values(talk[t].answer) \subseteq Values(talk[t].prompt) \cup talk[t].own
        /\ mode.redact /\ (talk[t].kind = "chat" \/ mode.private) =>
              {talk[t].answer[i] : i \in DOMAIN talk[t].answer} \cap Slots(talk[t].prompt) = {}

(* In redact mode no provider is shown the personal data of a prompt:       *)
(* "replace PII with placeholders, forward to LLM, restore in response"     *)
(* (pii_redactor.py:10).                                                    *)
ProviderSeesNoValue ==
    mode.redact =>
        \A t \in Talks : \A s \in InFlight(t) : Values(s) \cap Values(talk[t].prompt) = {}
===============================================================================
