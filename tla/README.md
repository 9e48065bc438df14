# A formal model of LLM-Guardrail

TLA+ specifications of the stateful parts of the LLM-Guardrail gateway, the TLC
configurations that check them on small instances, and TLAPS proofs for instances of any
size. Paths are those of the repository; `PROJECT.json` gives the lines of code each
definition stands for.

- [The system](#the-system)
- [Modules](#modules)
- [What the runs check](#what-the-runs-check)
- [Fairness](#fairness)
- [What is proved](#what-is-proved)
- [Where code and words differ](#where-code-and-words-differ)
- [Not modelled](#not-modelled)
- [Plan](#plan)

Running it, in this directory:

    tlc -workers 2 -config MCTenancy.cfg MCTenancy.tla      # likewise for every MC*.cfg
    tlapm Tenancy_proofs.tla                                # likewise for every *_proofs.tla

## The system

The gateway is a FastAPI application (`app/`) in front of language-model providers. Each
request is a coroutine of a single-threaded event loop with its own SQLAlchemy session;
several worker processes may share one PostgreSQL database and one Redis. State lives in
three places: database rows (shared, transactional), Redis keys (shared, atomic call by
call) and module-level variables (one copy per process, changed between two awaits).

| Component | State | Operations | Hard behaviour |
|---|---|---|---|
| LLM failover (`app/services/llm/`) | per backend: breaker state, failure times, probe flag; per request: place in the chain | `call_llm`, `stream_llm`, `before_call`, `on_success`, `on_failure`, health read, reset | late answers of old calls, cancelled calls, time |
| Chat pipeline (`app/routers/chat.py`) | remembered prompts, daily spend, audit log, the request itself | `/chat`, `/chat/stream`: gates, provider, keepalive, verdict, audit and debit, commit | cancellation, generators, partial failure, overlapping requests |
| Conversations (`memory.py`, `memories.py`, `vectorstore.py`, `response_cache.py`, `pii_redactor.py`) | memories, vectors, cached answers, the mapping of a redaction | recall, redact, restore, cache, extract, create, prune, patch, delete | vectors outlive rows, answers are shared, overlapping transactions |
| Token wallet (`token_wallet.py`, `billing.py`) | wallet row, purchase rows, stale copies in sessions | require/deduct/credit, checkout, Stripe notification, simulation | lost updates, repeated notifications, crashes |
| Abuse protection (`abuse_protection.py`) | per address: last request, in-flight counter, strikes | gap, begin, end, tarpit | separate Redis commands, crashes between them |
| Rate limiter (`app/middleware/`, `demo_limits.py`) | sliding windows per key, user, address | one check after the other | two stores that count differently |
| API keys (`api_key_protection.py`, `deps.py`, `api_keys.py`) | key rows, windows, strikes, bans, budget | create, revoke, resolve, record, ban, unban | a row read before and written after the call, Redis failing |
| Guardrail library and policy (`guardrails/`, `policy.py`, `openai_compat.py`) | policy row and versions, the OPA sidecar's rules | input and output checks, custom rule, update, reset, rollback | order of checks, engines that fail, a sidecar that restarts |
| MCP server (`mcp_server.py`) | streams with queues, rate windows, quarantined tools | open, post, call tool, deliver, purge | answers computed while a key or stream goes |
| Skill review (`skill_user_overrides.py`, `skill_rejections.py`, `skills.py`) | grants and pending allowances, review cases, user's workspace | scan, deliver, report, resolve | the owner-row lock, membership changes before it is taken |
| Managed skills (`skill_store.py`, `managed_skills.py`) | skills, versions, revisions, approvals | create, update, delete, fetch, live delivery | concurrent edits, content that changes while it is reviewed |
| Local guard (`scripts/`, `cli/guardrail-scan/`, `skill_overrides.py`) | override file, pause file, outgoing commits | scan, answer, allow, push | several tools over one file |
| Workspaces (`org.py`, `admin.py`) | memberships, leaders, active workspace | create, join, switch, leave, delete, invite, remove, demote, bulk | leadership in two columns, last-leader checks without locks |
| Accounts and tokens (`auth.py`, `auth_tokens.py`, `deps.py`) | users, mailed links, seen notifications, cached signing keys | signup, verify, reset, login, refresh, Clerk's notifications | reordering and redelivery, stale keys |
| Mandate gateway (`mandate_service.py`, `mandate.py`, `mandate_fixtures.py`) | mandates, runs and capabilities, references, receipts, counters | create, revoke, mint, run, retry, derive, call | revocation against running calls, two transactions per call |
| Go sidecar, Elixir feed, gRPC, GraphQL, webhooks, tool approvals, SDKs, analytics, frontend, deployment | little or none | translation, display, scripts | retries of the SDKs |

How they interact. A chat request passes the address gate and the rate middleware,
resolves its API key (bans, budget, workspace), asks the wallet for its balance, the
limiter for its rate and the guardrails for a verdict, redacts, recalls memories, asks the
cache or the failover loop, restores, asks the guardrails again, stores audit row and debit
in one transaction, records the key's use and remembers what was said. The MCP server and
the OpenAI route enter the same pipeline at different points. Stripe and Clerk call back by
notifications that may repeat and, for Clerk, overtake each other. A skill delivery
authenticates its actor and then runs the same review as a scan. The mandate gateway is
separate from the chat pipeline; it first asks an optional Go sidecar.

What makes each modelled component correct:

- Failover: a backend that fails is left alone, gets a single probe after its cooldown,
  and comes back; a request fails only if all of its candidates failed; no answer is
  stitched together from two providers.
- Chat pipeline: the audit log says what clients were told; a debit and its audit row are
  stored together; private output stays inside until it is judged; nothing keeps running
  after a stream; every request ends.
- Conversations: personal data in an answer is the asker's own, and no placeholder is left
  for him to read.
- Wallet: tokens are never created by a race; what is paid for is credited, once; no
  deduction takes the balance down to the warning threshold without a mail.
- Address gate, windows, keys: nobody is locked out for good or let in twice; no bucket lets
  requests pass at more instants than its limit, and nobody who waits as told is refused
  for ever; a ban is served where it was earned and earned where it is served.
- Guardrails: what passes unmarked is clean, a broken custom rule never lets pass, no
  policy is lost.
- MCP: answers go to the identity they were computed for, every call leaves its trace, no
  chat for a key that was lost before the chat's lookup of it began.
- Review and store: an "allow once" lets its finding through once, even if scans race;
  approvals come from reviews and bind the words reviewed; no edit is overwritten unseen.
- Local guard: nothing is published that its user has not allowed, issue by issue, for good
  or in answers that were saved.
- Workspaces: a workspace that has a leader keeps one; rights belong to the workspace they were given
  in; who was removed stays out.
- Accounts: a verified address was proved, a dead link stays dead, a withdrawn signing key
  lives for an hour at most.
- Mandates: labels survive every derivation; capabilities only narrow; revocation stops
  later calls; counters are backed by receipts.

## Modules

| Module | Stands for | Uses |
|---|---|---|
| `CircuitBreaker` | `circuit_breaker.py` as operators on one breaker's record | |
| `LlmFailover` | the candidate loops with concurrent requests, time, health reads and resets | `CircuitBreaker` |
| `ChatGateway` | `/chat` and `/chat/stream` of one user | |
| `Conversations` | a prompt's words: redaction, memories and vectors, cached answers, extraction | |
| `Ledger` | abstract: an account that warns, debits and credits one step after another | |
| `Billing` | the wallet of one user with every session's own copy of the row | implements `Ledger` (one session) |
| `AddressGate` | gap, in-flight counter, strikes and tarpit, in memory and with Redis | |
| `RateLimits` | the sliding windows, in memory and in Redis, as chains of checks | |
| `KeyAccess` | API keys: rows, windows, bans, budget, workers and Redis | |
| `ContentGuards` | input and output checks, the custom rule and its sidecar, the policy and its versions | |
| `McpServer` | the hosted MCP transport and its tools | |
| `SkillGrants` | abstract: scan, report and resolve as atomic steps | |
| `SkillReview` | the same as sessions with a lock, racing with workspace changes | implements `SkillGrants` |
| `ManagedSkills` | the skill store of one workspace with its writers and readers | |
| `LocalGuard` | the scanners on a developer's machine and the push they let through | |
| `Workspaces` | workspaces, memberships and leadership | |
| `Accounts` | signup, mailed links, Clerk's notifications | |
| `Sessions` | tokens of both issuers and the cached signing keys | |
| `MandateGateway` | mandates, runs, references, and overlapping gateway calls | |
| `MC...` | instances of the above for TLC | |
| `Lists_proofs` | lemmas: what is left of a list when its front is dropped, and what its ages say | |
| `Windows_proofs` | theorems about `RateLimits` and `KeyAccess` | `Lists_proofs` |
| `Admission_proofs` | theorems about `AddressGate`, `ContentGuards`, `McpServer`, and the whole of `MCAdmission` | `Windows_proofs` |
| `Failover_proofs` | theorems about `LlmFailover` | |
| `Chat_proofs` | theorems about `ChatGateway` | |
| `Tenancy_proofs` | theorems about `Workspaces`, `Accounts`, `Sessions`, `Billing`, `Conversations`, and the whole of `MCTenancy` | `Lists_proofs` |
| `Skills_proofs` | theorems about `SkillGrants`, `SkillReview`, `ManagedSkills`, `LocalGuard`, and the whole of `MCSkills` | |
| `MandateGateway_proofs` | theorems about `MandateGateway` | |

`MCAdmission`, `MCSkills` and `MCTenancy` put several modules beside one another. Their
variable `focus` says which part a behaviour follows; the others stay as they began.
The parts share no variable, so that the union of the behaviours is what separate runs
would explore, and every part keeps an instance of its own size.

How state and steps correspond to the code:

- **`LlmFailover`.** `breaker[b]` is the `CircuitBreaker` object of backend `b`. Times are
  ages, capped where the code no longer tells them apart, so that the state space is
  finite without bounding the run. `call[r]` is the loop variable of one request.
  `StartCall` is everything up to the first await of the provider (an open breaker ends
  the request there), `CallSucceeds`/`CallFails`/`CallUpset` everything from its answer to
  the next await. `CallUpset` is an exception `is_failure` rejects, or a cancelled request.
- **`ChatGateway`.** `request[r]` holds the local variables of a handler: the phase says
  where it stands, `iterator`, `pending` and `finish` the provider's generator, the shielded
  `anext` task and how the answer ended, `staged`/`metered` what is flushed but not
  committed. `log` and `charged` are committed rows; `recent` and `recorded` the
  module-level variables of `token_wallet.py`, which no rollback undoes. The order of
  gates differs between the endpoints (balance first in `/chat`, limits first in
  `/chat/stream`) and so it does here. Every wait can be cut short by `Leave`. What the
  limiter, the wallet, the guardrails and the providers decide is a choice.
- **`Conversations`.** A text is a sequence of tokens, each a word, a value of some kind of
  personal data, or a placeholder. `Redacted` numbers placeholders as the redactor does:
  one counter, pattern by pattern, place by place. A handler queries the index, reads the
  rows (two awaits, with other users' changes between them), looks the prompt up in the
  cache or calls a provider, which answers with something it was sent, fills in, judges,
  stores, and may have memories picked. A transaction that creates memories sees its own
  changes (`Seen`), writes vectors at once, commits rows at the end, or is rolled back
  with its vectors left behind. Rankings are choices; limits (`TopK`, `ContextSize`,
  `MemoryCap`, `MaxEntries`) are the code's.
- **`Billing`.** `session[s].seen` is the row as the session read it: with
  `expire_on_commit=False` and no refresh it is what the final UPDATE is computed from, and
  SQLAlchemy writes only the columns that differ, as absolute values (`Written`,
  `Updated`). `/chat` reads before the call, a stream re-reads in a second session. A
  deduction is two steps: `Deduct` flushes it, which takes the row's lock (`RowFree`) and
  starts the low-balance mail; `CommitChat` makes it last, or `Abandon` rolls it back,
  and the mail has gone out all the same.
- **`AddressGate`.** Without Redis nothing awaits between the gap and the counter, so a
  visit enters in one step; with Redis `GET`, `SET`, `INCR`, `DECR`, `EXPIRE` and `DEL` are
  steps of their own, and a worker may die before any of them. A counter is a number and
  the ticks it has to live.
- **`RateLimits`.** Prune, count and record of one bucket are one step in either store. A
  request passes a chain of buckets; what the first have counted stays counted when a later
  one refuses. The stores differ as the code does: Redis counts refusals of the
  key's and the user's buckets, memory does not; one drops what is as old as the window,
  the other keeps it; and in the key's and the user's buckets in Redis a request is named
  after its time, so that of several with one timestamp one is counted (`Simultaneous`; two
  requests of one tick may have one timestamp or two). A full bucket announces the
  minute's wait if the minute is used up, whether or not the day is (`RetryAfter`).
- **`KeyAccess`.** A request carries the row it was let in with (`used`) to its end, where
  the budget is written as an absolute value. Windows, strikes and bans are per worker, and
  bans go to Redis too, unless it is down. The five signals are computed on the windows as
  they were pruned; a history of all events (`seen`) says what they should have been.
- **`ContentGuards`.** A text is the set of checks it really matches; what a check reports
  depends on the rules and on what fails it (`Faults`: the compiled engine, the classifiers, a
  draw beyond the sampling rate). A call reads the policy, runs the checks in the
  code's order, asks the sidecar in up to three steps (query, upload, query again) and
  judges the answer by the rules it began with. An administrator's request is one step: the
  policy row is not locked, and two updates that overlap are left to the database.
- **`McpServer`.** A stream is its queue, its reader and whether the server still lists it;
  a message is its identity as authenticated, its tool, and where its handler waits. The
  purge runs in every request, as in the code. A chat looks its key up again in up to five
  awaited reads (`FindKey`, `FindOwner`, `FindMembership`, `CheckBans`,
  `FindMembershipAgain`), between which the key may be revoked, its owner disabled or
  removed, and each of these undone; `missing` says what the key has lacked ever since the
  call was let in. The gateway may raise after it has committed a row of its own, whichever
  (`EndChat`). The reads that authenticate a request at its beginning are one step.
- **`SkillGrants` / `SkillReview`.** A finding is its approval identity. A session
  authenticates (and copies the user's workspace), waits for the owner-row lock, refreshes
  the user, decides on the rows it then reads, and commits everything at once.
- **`ManagedSkills`.** An update reads and scans, then locks the row, compares version and
  revision, and writes; in private mode the scan is under the lock. Creating locks the
  workspace and counts. A fetch reads the row in one step and distributes in another, by
  the approval of exactly the words and the form it read.
- **`LocalGuard`.** A run loads the override file, walks its documents, asks where it may,
  and saves the lists it holds, the answers for one run included; the Go binary does the
  same. `answered` tells an answer for good from one for a run that saved it. A push scans
  every commit the remote lacks.
- **`Workspaces`.** One operator per endpoint, executed without overlap. `rows` are the
  tables, `removed` the pairs of user and workspace put asunder and not joined since.
  Users of Clerk begin without a workspace (`Founders`); a signup opens one in which its
  user works without leading it or being a member (`RegisterAlone`).
- **`Accounts`.** Signup creates the user, the organization with its policy and the wallet
  together, and fails as a whole when the organization's name, which is unique, is taken
  (`Accepted`). A handler's first step reads, its second commits; Clerk's messages are
  delivered in any order, again until answered, and noted before they are processed.
- **`Sessions`.** Tokens expire by ticks; the cached key set has an age.
- **`MandateGateway`.** A call is several steps because the code has several
  transactions: it verifies the capability, writes the decision, runs the fixture in the same
  transaction, and may die or lose the first insert of a counter row at each of them. A
  scope list that is empty means "everything", as in the code.

History variables and fields are marked in their declarations; only properties read them.

## What the runs check

| Run | Instance | Shows |
|---|---|---|
| `failover` | 2 requests, 2 backends, threshold 2, a chain with a repeated and an unknown name | one probe per half-open period, complete failover, unmixed streams, trips only on a burst |
| `failover_recovery` | 2 requests, 1 backend, calls that succeed or fail in a counted way | a probe always resolves the half-open state |
| `chat` | 2 requests of either kind, 2 prompts, 2 chunks, private or not, with fairness | audit, debit and privacy; nothing left running; every request ends |
| `chat_keepalive` | 1 request | violated: a keepalive ends a public stream |
| `billing_serial` | 1 session, 2 purchases, up to 12 tokens | implements `Ledger`, the mails included that are started before a commit or a rollback; paid is credited in the end |
| `skills` | four parts: 2 review sessions and 2 cases; 2 leaders writing; 1 agent reading while a leader writes; 1 skill file with 3 texts and 3 commits | implements `SkillGrants`; once means once; the store keeps its promises; nothing is published that was not allowed for good or in answers that were saved |
| `skill_review_keep` | 2 sessions, 2 cases, 3 workspaces, 2 membership changes | violated: a kept case that revokes nothing |
| `mandate` | 2 runs, 2 references, 2 calls, 1 mandate | taint, revocation, narrowing, receipts |
| `mandate_scopes` | 2 runs, 1 reference, 1 call | violated: nothing in common means everything |
| `admission` | nine parts: the gate (2 visits), the windows (2 requests, 3 buckets), the keys (1 key, 2 requests, 1 worker and Redis), the rules (call, sidecar, policy), the MCP server (streams, owners, tools) | no lockout and no double entry; windows that keep their limits and let in who waits, twice if need be; fair bans; clean texts; answers at home and on record; no chat for a key lost before its lookup |
| `tenancy` | five parts: 3 users and 2 workspaces; 2 clients, 2 accounts, 2 links, 2 notifications; 2 signing keys; 2 wallet sessions; 2 people, 2 memories, 3 settings | leaders stay and memberships agree; links and addresses; withdrawn keys; nothing invented; values come home |
| `redacted_prompts` | 2 people, 1 memory | violated: a redacted prompt is shown to a provider after the answer |

Why the bounds are enough. Two of everything that races: all these races are between two
actors (two requests and one row, a request and a revocation), and the proofs cover more
where there are any. Two backends and a four-name chain reach every branch of the loop:
success, failover, a skipped repetition, an unknown name, exhaustion. A threshold of 2 and
a window of 2 ticks let failures expire between trips. Two chunks are the fewest that
distinguish some of an answer from all of it. `Uses = {0, 2}` against a budget of 3 lets the
daily budget refuse the second request or not. Balances in the wallet cross the alert's
threshold from above, hit zero, and are refilled. Two references form a chain, so that a
label has to pass through a derivation and a retry. `Changes = 2` lets a workspace be left
and returned to while a session waits. Three users and two workspaces are the fewest in
which the last leader can be removed by another, and somebody be at home elsewhere. Two
links let an old one meet its successor. A minute of one tick and a day of two tell all
edges of the windows apart. Two prompts that differ in one value are the fewest with which
a placeholder, a cached answer or a memory can be taken for another's; `TopK`,
`ContextSize` and `MemoryCap` of one make every limit bite with two memories.

Bounds are constants named in the modules (`MaxMetered`, `MaxChunks`, `Changes`, `MaxCount`,
`MaxHits`, `MaxRecorded`, `MaxVersions`, `MaxMessages`, `MaxTokens`, `MaxRows`, `MaxCommits`;
each call, reference, run, purchase, link and memory is an identity used once), or named
constraints of an instance in its MC module: `FewOverlap` (requests of a key overlap only
without Redis), `Transported` (which streams and keys the MCP part uses), `FewDisabled` (one
user disabled at a time), `MessagesOrLinks` (a second notification or a second link),
`FewMemories` (one memory pinned or of low value at a time), `OneWriter` (a single leader
writes while an agent reads). Each cuts a product of two races that no property relates.

Symmetry is used for identities the modules compare only for equality, and never in a run
with a liveness property.

`CHECK_DEADLOCK FALSE` stands where the system really stops: when every identity has been
used or every request is over. `failover` and `admission` never stop and check for deadlock.

Every property of a passing run has a mutant, the definition it names changed the way a
plausible mistake would change the code, under which TLC finds the property violated. The
mutants stand next to the definition they replace. Properties that join two promises of a
component (`GateSound`, `WindowsExact`, `BansFair`, `MembershipSound`, `ValuesComeHome`)
have a mutant for each.

## Fairness

- `failover_recovery`: weak fairness of the clock, of the end of a call (the HTTP client's
  120-second timeout) and of new requests arriving. How a call ends is never assumed.
- `billing_serial`: Stripe repeats a notification until it is answered (strong fairness of
  a delivery that finds a free handler), a handler whose database answers goes on (strong,
  since a crash may come first), a model call ends. Crashes (`Abandon`) are not
  fair: they may happen for ever, but not at each delivery.
- `chat`: weak fairness of each request's next step: the event loop runs what can run and
  the provider's client times out. Keepalives (`Ping`) and clients that leave (`Leave`) are
  outside it, so a request must end although pings never stop and nobody leaves.
- `admission`, `tenancy`, `skills` check safety and action properties and assume none.

## What is proved

Every invariant and every action property the passing runs check is a theorem; what is
left to TLC is liveness. All theorems hold for every number of sessions, requests,
backends, keys, purchases, cases, references and calls, under the assumptions named in
the modules (amounts are natural numbers, thresholds, limits and lifetimes at least one,
a minute shorter than a day, chains of checks not empty, finitely many calls, cases,
skills, streams and messages, at least one address and one MCP key, identities apart
from the markers for nothing, and the like); `tlapm` checks every leaf. TLC evaluates
the assumptions on every instance.

- **`Windows_proofs`** (with the lemmas of `Lists_proofs`)
  - `RateLimits`: types; windows keep their limits, and a caller who waits as told gets in, at the
    latest after he has been told a day (`WindowsExact`).
    A window drops what has left its span, so the invariant (`WindowFits`) says that what is
    left suffices: whatever has passed within the span is counted by an entry at least as
    young, counted from the end, and the last `PerMinute` (`PerDay`) that passed already
    reach back a minute (a day). What passed is counted by instants, as the key's sorted
    sets do; that refusals are counted too, with Redis, is covered by the same inequality. A
    minute's wait suffices unless the day is used up as well; then the next answer says so.
    A pruned list is a suffix (`Outdated`, `Recent`), of
    which the lemmas `Prefix` and `EndOrdered` say how its positions and ages relate to the
    whole list's.
  - `KeyAccess`: types, and that bans are served (`BansServed`) where one worker serves.
    A sentence is covered by the ban in Redis if Redis took the key's last ban, and by the
    worker's own otherwise (`SentencesServed`). A second strike must not shorten what
    the first began, so while a request of the key is running the sentence is that of a
    strike still counted (`SentencesOfStrikes`); a restart forgets strikes, but with the
    worker's requests. Durations are powers of two, whose order the library has only as
    sizes of sets of sets (`PowersGrow`, `DurationsGrow`).
    - Bans match the signals (`BansMatch`), for any number of workers: an event
      brings its key a strike exactly if all that the worker has seen of the key calls for
      one. The code decides on windows it has pruned and the property counts over all
      that was seen, so the invariant (`WindowsFollow`) ties them: each window is an end of
      what was seen and what it lacks is too old to count (`Trails`). The token window lacks
      free requests as well, hence it is compared by weight: up to every age both sum to the
      same (`TokensFollow`, `Weighs`). The ages of a list are in order, so that pruning
      drops a prefix; the verdicts, kept by number and not by age, are those of the last
      events (`LastVerdicts`). The sum is a function defined by recursion over positions; that there
      is one at all, and that it splits where a list is cut, is shown by taking the least
      position at which it would fail (`SumsExist`, `TotalAppend`).
    - Both halves together are `BansFair`, a theorem where one worker serves
      (`BansAreFair`), as in the run.
- **`Admission_proofs`**
  - `AddressGate`: no lockout and no double entry (`GateSound`). In memory the counter is
    the number of visits inside (`MemoryCounts`); with Redis only this is left, that a
    positive counter either expires or has a visit on its way to `EXPIRE`
    (`CountersArmed`), unless a worker died there.
  - `ContentGuards`: types, the custom rule, clean in both directions, kept policies.
    Requests share only the policy, its versions and the sidecar, and a request carries the
    policy it has read, so the invariant is a predicate of a single request (`CallFits`)
    and one of the policy (`PolicyFits`: the rules in force and all versions cover what was
    ever in force).
  - `McpServer`: types, answers at home, audited calls, no chats for stale keys. `Homes`
    says that a queue holds only finished messages that were meant for its stream, and
    that a message keeps to the stream it was let in to, which keeps to who opened it;
    `PostsFit` which rows a message may have in each phase, and what a lookup has got past
    (`Seen`): what it has read was not missing, and nothing becomes missing later, since
    `missing` only shrinks; that what is missing is lacking now is `Tracked`. Steps of
    streams and of messages are proved separately (`StreamMove`, `PostMove`).
  - The instance as a whole: its types (`AdmissionTypesCorrect`). A behaviour of `MCAdmission`
    is one of every part (`AdmissionImplements`): each of its steps is a step of one part
    and a stutter of the others, so that what is proved of a part holds in the whole.
    `MCAdmission` names a text, a key, a stream and a message; the theorem asks that
    the constants have them.
- **`Failover_proofs`**
  - `LlmFailover`: types, one probe per half-open period, failures below the threshold,
    complete failover, unmixed streams. Any call's success recloses a half-open breaker, so
    what is inductive is about the slot: the number of calls a half-open period has admitted
    is at most one while the probe flag is set and zero otherwise (`ProbeSlot`), along with
    the shape of breakers and calls (`BreakersSound`, `CallsSound`: a failed list that
    contains every candidate before the current one). Trips are earned (`TripsOnBurst`): of
    the backend's last failures none is older than the entry the breaker's list has in its
    place (`BurstFits`), so that a list at the threshold is a burst.
- **`Chat_proofs`**
  - `ChatGateway`: types and the safety properties. Requests share nothing that matters to
    them, so the invariant is a predicate of a single row and its part of log, debits and
    count (`Fits`); `StepPreserves` reduces a step to that predicate. `StagedInOrder` is the
    strengthening: audit row, then debit and count, then commit.
- **`Tenancy_proofs`**
  - `Workspaces`: types, that leaders stay and that memberships are sound. A user's
    row and the memberships are two accounts of the same facts; `RowsSound` says that they
    agree and that nobody is a member of what does not exist. `Handled` says what a handler
    may do to such tables: it takes the last leader from no workspace that remains (`Led`),
    and lets in nobody but whom it names. Who leads by his row alone does not exist in sound
    tables, so that a workspace is led exactly if a membership says so. A signup is such a
    step too; its workspace is not led, and nothing is claimed of it. Joining is by name, so a pair put asunder also needs that
    the workspace has had a name (`WorkspacesInv`).
  - `Accounts`: types, and that links prove addresses. A handler commits what it computed
    from rows it read earlier, so the invariant speaks of both: the rows as read are sound
    (`Sound`) and later changes keep to what a handler may rely on (`Moved`: an address
    changes to a confirmed one only, a link that is gone stays gone), and no two handlers are
    about to add the same rows.
  - `Sessions`: a withdrawn key expires, since what has passed since the withdrawal is no
    more than what has passed since the fetch that still saw the key (`CacheFits`).
  - `Billing`: types, no token from a race, columns apart, and that one session at a time
    implements `Ledger`. The first needs that also the stale copies are covered by what was
    granted and metered (`SeenCovered`); the last that with one session the copy is the row,
    from the reading through the flush to the commit (`FreshReading`), and a notification
    being handled still is unfinished (`OpenPurchase`). A flush that crosses the threshold is
    the ledger's `Warn`, its commit `Use`, its rollback `GiveUp`.
  - `Conversations`: types, and that values come home. The words a handler holds are traced
    from where they come from: hits and uncommitted rows are its user's (`HitsFit`,
    `StagedFits`, `VectorsFit`), what it sends holds values of his (`ContextFits`), and a
    cached answer says no more than the key it is found by (`AnswersFit`), unless redaction
    has taken the values out of the key. The lemmas `RedactedType` and `RestoredType`
    say what redaction and its reversal do to any text.
  - The instance as a whole: `TenancyTypesCorrect`, by `TenancyImplements`.
- **`Skills_proofs`**
  - `SkillGrants`: types, once means once, one pending case, grants from reviews, final
    cases. `SkillReview`: the lock makes every session decide on current rows, hence it
    implements `SkillGrants`, hence once means once under any interleaving.
  - `ManagedSkills`: types, no unseen overwrite, the cap, reviewed hand-outs and clean
    private storage, hence `StoreKept`. What an editor holds must be read together with the
    locks: who has something to write has a skill and words for it (`EditorsFit`), who has
    counted holds the workspace and his count still leaves room (`CountedFits`), a draft
    that was judged harmless stays so with the row as locked (`DraftsSafe`), and every
    approval stems from a review (`GrantsReviewed`). Edits and reads are two groups of steps
    with a lemma each (`EditMove`, `ReadMove`).
  - `LocalGuard`: nothing is published that was not allowed for good or in answers that were
    saved. The file is covered by what the user has so allowed, the lists of a run that asks
    only without the answers for this run, and those of a push, which asks nobody,
    altogether (`ListsCovered`); a push in progress has passed everything it no longer has before it,
    or is blocked (`PushFits`).
  - The instance as a whole: `CraftTypesCorrect`, by `CraftImplements`.
- **`MandateGateway_proofs`**: taint by every derivation and any length of ancestry,
  no payment data to the CRM, revocation, narrowing, receipts. `IInv` adds that rows refer
  to rows that exist, that a receipt ends its call, that what runs has passed the pinned rule,
  and that a call begun after the revocation is either refused or still in front of a
  verification that will refuse it (`LateStops`). Steps are grouped by what they may
  change (`MandateMove`, `RunMove`, `CallMove`), and the invariant is proved once for each.

Only model-checked:

- Liveness (`ProbeResolves`, `PaidIsCredited`, `RequestsEnd`): fairness is beyond the prover.
- `BansServed` of several workers is not claimed: strikes are counted by each, and a worker's
  first ban replaces a longer one that another has left in Redis
  (`api_key_protection.py:111`, `125`).
- The violations, which are what TLC found on the instances.

## Where code and words differ

Each of these is a run that TLC refutes; `findings` quotes the line.

1. A keepalive cancels a public stream's generator; the part of the answer that arrived is
   delivered as the whole one, with no tokens counted (`chat_keepalive`).
2. A workspace switch between a report's authentication and its lock files a case whose
   "keep blocked" revokes nothing (`skill_review_keep`).
3. A run asked for scopes its mandate lacks may call every tool (`mandate_scopes`).
4. A prompt that was redacted for the provider is handed as it was written to another one
   that picks memories from it (`redacted_prompts`).

Others that the models have, or that a property has to exempt, but no run states:

- An uncounted ending of a probe (a 4xx, a cancelled client) leaves its breaker half-open
  for ever (`llm/__init__.py:163`; `circuit_breaker.py:8` says its failure reopens it), and
  an open breaker on the first candidate ends a request although fallbacks are healthy
  (`llm/__init__.py:151`; `docs/CONFIGURATION.md:21`).
- Overlapping requests of one user overwrite each other's deduction (`token_wallet.py:144`;
  `docs/CONFIGURATION.md:132`), of one key its budget (`chat.py:452`), and all of them pass
  the same comparison with the daily cap (`config.py:90`).
- The "error" row `/chat` writes for a failed provider call is rolled back by the exception
  that follows it (`chat.py:397`).
- The cache keeps an answer with its values filled in under the redacted prompt
  (`chat.py:414`, `423`), so that redaction and cache together let one user's values reach
  another. `ValuesComeHome` exempts that combination.
- A public stream forwards placeholders as they come; only the judged and logged text is
  restored (`chat.py:762`, `797`; `pii_redactor.py:10` says "restore in response").
- Archived memories keep their vectors: `memory.py:112` and `149` import a
  `delete_memory` that `vectorstore.py` does not have, and drop the error.
- After a policy change the OPA sidecar keeps the rule it has; only a 404 makes the gateway
  upload the new one (`opa.py:199`).
- Strikes are counted per worker, though bans are shared: the first ban another worker gives
  replaces a longer one in Redis (`api_key_protection.py:111`, `125`; line 107 says
  "exponential on repeat").
- A sampled answer is not checked for leaked secrets (`output.py:68`; line 78 says "always
  blocks regardless of policy"), and a stream of the OpenAI route is neither checked nor
  audited (`openai_compat.py:137`; its docstring says it reuses the gates).
- "Allowed for this run only" (`scan_agent_skills.py:219`, `235`) is written to the override
  file when a later "Always allow" in the same run saves the lists (`skill_overrides.py:35`),
  and a later push then publishes the issue unasked. `PublishedWasAllowed` counts such a
  saved answer as an allowance, and no other answer for one run.
- The low-balance mail is started before the request commits (`token_wallet.py:154`,
  `chat.py:455`): a rollback has mailed for a deduction that never was, and the next chat
  mails again, against "only once per crossing" (`token_wallet.py:149`). `Ledger` has the
  warning as a step of its own, which usage that is given up may have taken.
- A refusal announces a minute although the day is used up as well (`rate_limit.py:120`), so
  that a caller who waits as told is refused once more, with a day to wait. In Redis the
  requests of a key or user that have one timestamp are counted once
  (`rate_limit.py:99`, `112`). `WindowsExact` is stated accordingly.
- A chat over MCP whose gateway call raises after it has committed a row (refused for its
  rate, blocked, or answered) is audited twice (`chat.py:227`, `mcp_server.py:1127`). A
  `tools/call` whose id is neither a string nor a number is answered -32600 and audited as
  "ok" (`mcp_server.py:873`, `1013`). `CallsAudited` allows these two.
- A chat over MCP begins although its key was revoked, or its owner disabled or removed,
  during the lookup and after the read that would have seen it (`deps.py:179`,
  `mcp_server.py:807`). `NoChatForStaleKey` speaks of what was lost before.
- The workspace of a signup has no leader: its user's `is_admin` is false and he has no
  membership (`auth.py:90`), so that nobody can rename or delete it. Leaders whose accounts
  are disabled count when the last one is looked for (`org.py:293`). Two leaders who leave
  at once leave a workspace without one. `LeaderStays` speaks of workspaces that are led, and
  of one request after another.
- The bulk removal leaves the membership row and with it the way back (`admin.py:361`).

## Not modelled

- Texts: prompts, findings and answers are identities or short sequences of tokens; what
  regular expressions, classifiers and embeddings match is beyond TLC's reach.
- Cryptography: a capability, a signature or a password verifies or does not.
- The Go sidecar: its capability table is filled by nothing in the repository, so that it
  refuses in plain text, which the caller takes for no answer. Its handler would wait for the
  single connection it holds itself as soon as it found a capability
  (`middleware/mandateflow/main.go:120`, `187`, `221`).
- Tool approvals and the agent runtime: `require_approval` and the agent loop have no caller
  in the application.
- Webhooks: fire-and-forget with three attempts; the buffer of deliveries is only listed
  (it is one ring for all workspaces, although its docstring says "per org").
- Several worker processes for module-level state: breakers, remembered prompts, daily
  spend and streams are per process, and so are the models. The visits of `AddressGate` may
  be of one worker or of several where Redis joins them. `KeyAccess` has any number of
  workers: `BansMatch` is proved for all of them, while the run and `BansAreFair` have one.
  Database rows are shared in all models.
- Overlapping requests of administrators (`Workspaces`, the policy in `ContentGuards`): one
  handler at a time.
- Reading endpoints, analytics, charts, gRPC, GraphQL, the Elixir feed, SDK transport,
  frontend, deployment, migrations.

## Plan

Done, in this order: failover, wallet, review, mandates, chat pipeline; then the address
gate, windows, keys, guards and MCP server; workspaces, accounts, sessions; the skill store
and the local guard; conversations.

Next:

1. The SDKs' retries against the gateway's deduplication.
2. Overlapping administrators in `Workspaces`, with the row locks PostgreSQL would take.
