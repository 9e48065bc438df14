------------------------------- MODULE KeyAccess -------------------------------
(***************************************************************************)
(* API keys: who may use one (_validate_key_access, resolve_api_key and    *)
(* api_key_for_user of app/deps.py), what its requests leave behind        *)
(* (record_usage of app/services/api_key_protection.py and the budget in   *)
(* app/routers/chat.py), and the bans that follow from it.                 *)
(*                                                                         *)
(* Every worker has windows, strikes and bans of its own; bans also go to  *)
(* Redis, where there is one.  A request carries the row it was let in     *)
(* with until it ends.                                                     *)
(***************************************************************************)
EXTENDS Integers, Sequences, FiniteSetsExt

CONSTANTS Workers, Requests, Users,
          Keys,           \* 1..n, in the order they are created
          Owner,          \* key -> user
          Prompts, Ips,
          Uses,           \* tokens an answer may cost
          Budgeted, Budget, \* keys an operator has given budget_tokens, how many,
          BudgetPeriod,   \* and until when, in ticks
          MaxRpm,         \* EXPLOIT_RPM_THRESHOLD
          MaxBurn,        \* EXPLOIT_TOKEN_BURN_5M
          IpDiversity,    \* EXPLOIT_IP_DIVERSITY_THRESHOLD
          BlockedWindow,  \* EXPLOIT_BLOCKED_WINDOW
          BlockedShare,   \* EXPLOIT_BLOCKED_RATIO * EXPLOIT_BLOCKED_WINDOW
          Repeats,        \* EXPLOIT_DEDUP_THRESHOLD
          BaseBan, MaxBan,          \* ban durations, in ticks
          RpmWindow, FiveMinutes, IpWindow,  \* ages the windows keep, in ticks
          MaxRecorded     \* bound of the model: events recorded in a worker's life

ASSUME WorkersAssumption == {"idle", "redis"} \cap Workers = {}
ASSUME KeysAssumption == Keys = 1..Cardinality(Keys)
ASSUME OwnerAssumption == Owner \in [Keys -> Users]
ASSUME BudgetAssumption == Uses \subseteq Nat /\ {Budget, BudgetPeriod} \subseteq Nat /\ Budgeted \subseteq Keys
ASSUME ThresholdsAssumption ==
    \A limit \in {MaxRpm, MaxBurn, IpDiversity, BlockedWindow, BlockedShare, Repeats,
                  BaseBan, MaxBan, MaxRecorded} : limit \in Nat \ {0}
ASSUME WindowsAssumption == {RpmWindow, FiveMinutes, IpWindow} \subseteq Nat

VARIABLES key,        \* api_keys, with what _validate_key_access looks up
          redis,      \* "none", "up" or "down"
          windows,    \* worker -> key -> its five windows
          strikes,    \* worker -> key -> _ban_strikes
          banned,     \* worker or "redis" -> ticks each key and user is banned
          request,
          \* history, read by properties only
          sentence,   \* key -> ticks it is still to be kept out
          kept,       \* keys whose last ban Redis has taken
          seen        \* worker -> key -> everything recorded, with its age

keyVars == <<key, redis, windows, strikes, banned, request, sentence, kept, seen>>

(* "place" is how the owner stands to the key's workspace: it is his        *)
(* current one, he is a member, or neither; an inactive owner has none.  A  *)
(* key whose workspace was deleted is bound to none.                        *)
Places == {"home", "member", "none", "unbound"}
KeyRows == [state  : {"none", "active", "over"},    \* over: revoked or expired
            place  : Places,
            used   : Nat,                      \* budget_used
            reset  : -1..BudgetPeriod]      \* ticks to budget_reset_at; -1 without
NoKey == [state |-> "none", place |-> "home", used |-> 0, reset |-> -1]

Stores == Workers \cup {"redis"}
Bans == [key : [Keys -> 0..MaxBan], user : [Users -> 0..MaxBan]]
NoBans == [key |-> [k \in Keys |-> 0], user |-> [u \in Users |-> 0]]

NoRequest == [phase |-> "idle", key |-> 1, used |-> 0]
NoWindows == [requests |-> <<>>, tokens |-> <<>>, ips |-> <<>>, verdicts |-> <<>>,
              prompts |-> <<>>]

Windows == [requests : Seq([age : Nat]), tokens : Seq([age : Nat, n : Nat]),
            ips : Seq([age : Nat, ip : Ips]), verdicts : Seq(BOOLEAN),
            prompts : Seq([age : Nat, prompt : Prompts])]
Events == [age : Nat, ip : Ips, tokens : Nat, blocked : BOOLEAN, prompt : Prompts]

KeysTypeOK ==
    /\ key \in [Keys -> KeyRows]
    /\ redis \in {"none", "up", "down"}
    /\ windows \in [Workers -> [Keys -> Windows]]
    /\ strikes \in [Workers -> [Keys -> Nat]]
    /\ banned \in [Stores -> Bans]
    /\ request \in [Requests -> [phase : {"idle"} \cup Workers, key : Keys \cup {1}, used : Nat]]
    /\ sentence \in [Keys -> 0..MaxBan]
    /\ kept \subseteq Keys
    /\ seen \in [Workers -> [Keys -> Seq(Events)]]

KeysInit ==
    /\ key = [k \in Keys |-> NoKey]
    /\ redis \in {"none", "up"}
    /\ windows = [w \in Workers |-> [k \in Keys |-> NoWindows]]
    /\ strikes = [w \in Workers |-> [k \in Keys |-> 0]]
    /\ banned = [s \in Stores |-> NoBans]
    /\ request = [r \in Requests |-> NoRequest]
    /\ sentence = [k \in Keys |-> 0]
    /\ kept = {}
    /\ seen = [w \in Workers |-> [k \in Keys |-> <<>>]]

-------------------------------------------------------------------------------
(* POST and DELETE of /api-keys, the administrators' revocation, and what   *)
(* happens to an owner elsewhere.                                           *)
CreateKey(k) ==
    /\ key[k] = NoKey
    /\ \A older \in 1..(k - 1) : key[older] # NoKey
    /\ key' = [key EXCEPT ![k] = [NoKey EXCEPT !.state = "active",
                                  !.reset = IF k \in Budgeted THEN BudgetPeriod ELSE -1]]
    /\ UNCHANGED <<redis, windows, strikes, banned, request, sentence, kept, seen>>

(* Nothing about an ended key matters any more. *)
EndKey(k) ==
    /\ key[k].state = "active"
    /\ key' = [key EXCEPT ![k] = [NoKey EXCEPT !.state = "over"]]
    /\ UNCHANGED <<redis, windows, strikes, banned, request, sentence, kept, seen>>

Move(k, place) ==
    /\ key[k].state = "active" /\ key[k].place \notin {place, "unbound"}
    /\ key' = [key EXCEPT ![k].place = place]
    /\ UNCHANGED <<redis, windows, strikes, banned, request, sentence, kept, seen>>

-------------------------------------------------------------------------------
InForce(bans, k) == bans.key[k] > 0 \/ bans.user[Owner[k]] > 0

(* Mutant of IsBanned: only the worker's own dictionaries are asked. *)
IsBannedHere(w, k) == InForce(banned[w], k)

(* is_banned of the key and of its owner: Redis, if it answers, and then    *)
(* the worker's own dictionaries.                                           *)
IsBanned(w, k) == (redis = "up" /\ InForce(banned["redis"], k)) \/ InForce(banned[w], k)

(* The row after a budget's period has ended. *)
Refreshed(row) ==
    IF row.reset = 0 THEN [row EXCEPT !.used = 0, !.reset = -1] ELSE row

(* _validate_key_access, in its order: expiry, owner, workspace (if there   *)
(* is one), ban and, on the refreshed row, the budget.                      *)
Valid(w, k) ==
    /\ key[k].state = "active"
    /\ key[k].place # "none"
    /\ ~IsBanned(w, k)
    /\ k \in Budgeted => Refreshed(key[k]).used < Budget

(* api_key_for_user: a session uses the newest live key of the workspace    *)
(* its user is in or, if he is in none, of no workspace.                    *)
Usable(u) ==
    LET live(place) == {k \in Keys : Owner[k] = u /\ key[k].state = "active" /\ key[k].place = place}
        away == \A k \in Keys : Owner[k] = u => key[k].place # "home"
    IN  live("home") \cup (IF away THEN live("unbound") ELSE {})

Presented(k, how) ==
    \/ how = "key"
    \/ how = "session" /\ k \in Usable(Owner[k]) /\ k = Max(Usable(Owner[k]))

(* The row's refresh is flushed, and committed with whatever the request    *)
(* commits first; a request that is turned away rolls it back.              *)
Accept(w, r, k, how) ==
    /\ request[r].phase = "idle"
    /\ Presented(k, how)
    /\ Valid(w, k)
    /\ key' = [key EXCEPT ![k] = Refreshed(@)]
    /\ request' = [request EXCEPT ![r] = [phase |-> w, key |-> k, used |-> Refreshed(key[k]).used]]
    /\ sentence' = [sentence EXCEPT ![k] = 0]
    /\ UNCHANGED <<redis, windows, strikes, banned, kept, seen>>

-------------------------------------------------------------------------------
(* _prune_windows pops a window's first entry for as long as it is too old. *)
Outworn(entries, span) == {i \in DOMAIN entries : \A j \in 1..i : entries[j].age > span}
Fresh(entries, span) == SubSeq(entries, Cardinality(Outworn(entries, span)) + 1, Len(entries))

(* Mutant of LastOf: the window keeps its oldest entries. *)
LastOfFirst(entries, n) == SubSeq(entries, 1, IF Len(entries) < n THEN Len(entries) ELSE n)

LastOf(entries, n) == IF Len(entries) <= n THEN entries ELSE SubSeq(entries, Len(entries) - n + 1, Len(entries))

(* record_usage up to and with _prune_windows: what an event adds to the    *)
(* windows of its key, and what is too old by now.                          *)
Recorded(win, ip, tokens, blocked, prompt) ==
    [requests |-> Fresh(Append(win.requests, [age |-> 0]), RpmWindow),
     tokens   |-> Fresh(IF tokens = 0 THEN win.tokens
                        ELSE Append(win.tokens, [age |-> 0, n |-> tokens]), FiveMinutes),
     ips      |-> Fresh(Append(win.ips, [age |-> 0, ip |-> ip]), IpWindow),
     verdicts |-> LastOf(Append(win.verdicts, blocked), BlockedWindow),
     prompts  |-> Fresh(Append(win.prompts, [age |-> 0, prompt |-> prompt]), FiveMinutes)]

(* sum() *)
Total(amounts) ==
    LET sum[i \in 0..Len(amounts)] == IF i = 0 THEN 0 ELSE sum[i - 1] + amounts[i]
    IN  sum[Len(amounts)]

Burnt(entries) == Total([i \in DOMAIN entries |-> entries[i].n])

(* The five signals. *)
Signal(win, prompt) ==
    \/ Len(win.requests) > MaxRpm
    \/ Burnt(win.tokens) > MaxBurn
    \/ Cardinality({win.ips[i].ip : i \in DOMAIN win.ips}) >= IpDiversity
    \/ /\ Len(win.verdicts) >= BlockedWindow
       /\ Cardinality({i \in DOMAIN win.verdicts : win.verdicts[i]}) >= BlockedShare
    \/ Cardinality({i \in DOMAIN win.prompts : win.prompts[i].prompt = prompt}) >= Repeats

(* Mutant of Duration: without the cap. *)
DurationUncapped(n) == BaseBan * 2^(n - 1)

(* ban_api_key: doubled with every strike, up to the cap. *)
Duration(n) == IF BaseBan * 2^(n - 1) > MaxBan THEN MaxBan ELSE BaseBan * 2^(n - 1)

(* maybe_auto_ban after an event has been recorded: the key and its owner   *)
(* are banned in the worker and, one command after the other, in Redis,     *)
(* which may stop answering at any of them ("taken").                       *)
Ban(w, k, taken) ==
    LET n == strikes[w][k] + 1
        withKey(bans) == [bans EXCEPT !.key[k] = Duration(n)]
        withUser(bans) == [bans EXCEPT !.user[Owner[k]] = Duration(n)]
    IN  /\ redis # "up" => taken = "nothing"
        /\ strikes' = [strikes EXCEPT ![w][k] = n]
        /\ banned' = [banned EXCEPT ![w] = withUser(withKey(@)),
                         !["redis"] = CASE taken = "nothing" -> @
                                        [] taken = "key" -> withKey(@)
                                        [] taken = "both" -> withUser(withKey(@))]
        /\ sentence' = [sentence EXCEPT ![k] = Max({@, Duration(n)})]
        /\ kept' = IF taken = "nothing" THEN kept \ {k} ELSE kept \cup {k}

(* Where the handlers of chat.py call maybe_auto_ban, and with what: a      *)
(* refused or blocked request counts as a block that cost nothing, an       *)
(* answer with its tokens and its verdict.                                  *)
Record(w, k, ip, tokens, blocked, prompt, taken) ==
    LET win == Recorded(windows[w][k], ip, tokens, blocked, prompt)
    IN  /\ MapThenSumSet(LAMBDA j : Len(seen[w][j]), Keys) < MaxRecorded
        /\ seen' = [seen EXCEPT ![w][k] = Append(@,
               [age |-> 0, ip |-> ip, tokens |-> tokens, blocked |-> blocked, prompt |-> prompt])]
        /\ windows' = [windows EXCEPT ![w][k] = win]
        /\ IF Signal(win, prompt)
           THEN Ban(w, k, taken)
           ELSE /\ taken = "nothing"
                /\ UNCHANGED <<strikes, banned, sentence, kept>>

(* A request ends: refused by a gate or blocked by the input policy,        *)
(* answered, or with nothing recorded (an error, or a stream, of which      *)
(* neither the budget nor these windows hear).                              *)
Refuse(r, ip, prompt, taken) ==
    LET w == request[r].phase IN
    /\ w \in Workers
    /\ Record(w, request[r].key, ip, 0, TRUE, prompt, taken)
    /\ request' = [request EXCEPT ![r] = NoRequest]
    /\ UNCHANGED <<key, redis>>

(* budget_used is written as the value read with the key plus this use. *)
Answer(r, ip, tokens, delivered, prompt, taken) ==
    LET w == request[r].phase
        k == request[r].key
    IN  /\ w \in Workers
        /\ Record(w, k, ip, tokens, ~delivered, prompt, taken)
        /\ key' = IF k \in Budgeted THEN [key EXCEPT ![k].used = request[r].used + tokens] ELSE key
        /\ request' = [request EXCEPT ![r] = NoRequest]
        /\ UNCHANGED <<redis>>

EndSilently(r) ==
    /\ request[r].phase \in Workers
    /\ request' = [request EXCEPT ![r] = NoRequest]
    /\ UNCHANGED <<key, redis, windows, strikes, banned, sentence, kept, seen>>

-------------------------------------------------------------------------------
(* POST /admin/bans/unban in one worker: a key with its owner, or a user.   *)
Unban(w, keys, u) ==
    LET lifted(bans) == [key  |-> [k \in Keys |-> IF k \in keys THEN 0 ELSE bans.key[k]],
                         user |-> [bans.user EXCEPT ![u] = 0]]
    IN  /\ keys = {} \/ \E k \in Keys : keys = {k} /\ Owner[k] = u
        /\ banned' = [s \in Stores |-> IF s = w \/ (s = "redis" /\ redis = "up")
                                       THEN lifted(banned[s]) ELSE banned[s]]
        /\ strikes' = [strikes EXCEPT ![w] = [k \in Keys |-> IF k \in keys THEN 0 ELSE @[k]]]
        /\ sentence' = [k \in Keys |-> IF k \in keys THEN 0 ELSE sentence[k]]
        /\ UNCHANGED <<key, redis, windows, request, kept, seen>>

(* A worker is restarted: its dictionaries are empty and its requests gone. *)
RestartWorker(w) ==
    /\ windows' = [windows EXCEPT ![w] = [k \in Keys |-> NoWindows]]
    /\ strikes' = [strikes EXCEPT ![w] = [k \in Keys |-> 0]]
    /\ banned' = [banned EXCEPT ![w] = NoBans]
    /\ request' = [r \in Requests |-> IF request[r].phase = w THEN NoRequest ELSE request[r]]
    /\ sentence' = [k \in Keys |-> IF k \in kept THEN sentence[k] ELSE 0]
    /\ seen' = [seen EXCEPT ![w] = [k \in Keys |-> <<>>]]
    /\ UNCHANGED <<key, redis, kept>>

RedisFails ==
    /\ redis = "up" /\ redis' = "down"
    /\ UNCHANGED <<key, windows, strikes, banned, request, sentence, kept, seen>>

RedisReturns ==
    /\ redis = "down" /\ redis' = "up"
    /\ UNCHANGED <<key, windows, strikes, banned, request, sentence, kept, seen>>

Older(entries) == [i \in DOMAIN entries |->
    [entries[i] EXCEPT !.age = IF @ > Max({RpmWindow, FiveMinutes, IpWindow}) THEN @ ELSE @ + 1]]
Less(left) == IF left = 0 THEN 0 ELSE left - 1

KeysTick ==
    /\ windows' = [w \in Workers |-> [k \in Keys |->
           [windows[w][k] EXCEPT !.requests = Older(@), !.tokens = Older(@),
                                 !.ips = Older(@), !.prompts = Older(@)]]]
    /\ key' = [k \in Keys |-> IF key[k].reset <= 0 THEN key[k]
                              ELSE [key[k] EXCEPT !.reset = @ - 1]]
    /\ banned' = [s \in Stores |-> [key  |-> [k \in Keys |-> Less(banned[s].key[k])],
                                   user |-> [u \in Users |-> Less(banned[s].user[u])]]]
    /\ sentence' = [k \in Keys |-> Less(sentence[k])]
    /\ seen' = [w \in Workers |-> [k \in Keys |-> Older(seen[w][k])]]
    /\ UNCHANGED <<redis, strikes, request, kept>>

KeysNext ==
    \/ \E k \in Keys : CreateKey(k) \/ EndKey(k)
    \/ \E k \in Keys, place \in Places : Move(k, place)
    \/ \E w \in Workers, r \in Requests, k \in Keys, how \in {"key", "session"} : Accept(w, r, k, how)
    \/ \E r \in Requests, ip \in Ips, prompt \in Prompts, taken \in {"nothing", "key", "both"} :
          \/ Refuse(r, ip, prompt, taken)
          \/ \E tokens \in Uses, delivered \in BOOLEAN : Answer(r, ip, tokens, delivered, prompt, taken)
    \/ \E r \in Requests : EndSilently(r)
    \/ \E w \in Workers, keys \in SUBSET Keys, u \in Users : Unban(w, keys, u)
    \/ \E w \in Workers : RestartWorker(w)
    \/ RedisFails \/ RedisReturns
    \/ KeysTick

KeysSpec == KeysInit /\ [][KeysNext]_keyVars

-------------------------------------------------------------------------------
(* "Ban key+user for duration, exponential on repeat": while Redis can be   *)
(* asked, a banned key is not let in before its sentence is over, not after *)
(* a restart if Redis has taken the ban, and not because a request that was *)
(* still running has brought the key another ban.  Of one worker: strikes   *)
(* are counted by each, and another's first ban would replace a longer one. *)
BansServed ==
    [][\A r \in Requests :
          request[r].phase = "idle" /\ request'[r].phase # "idle" /\ redis # "down"
              => sentence[request'[r].key] = 0]_keyVars

(* The five signals of record_usage read off everything a worker has seen   *)
(* of a key, not off its pruned windows.                                    *)
Suspicious(all) ==
    LET last == all[Len(all)]
        since(span) == {i \in DOMAIN all : all[i].age <= span}
        latest == {i \in DOMAIN all : i > Len(all) - BlockedWindow}
    IN  \/ Cardinality(since(RpmWindow)) > MaxRpm
        \/ Total([i \in DOMAIN all |-> IF i \in since(FiveMinutes) THEN all[i].tokens ELSE 0]) > MaxBurn
        \/ Cardinality({all[i].ip : i \in since(IpWindow)}) >= IpDiversity
        \/ /\ Cardinality(latest) = BlockedWindow
           /\ Cardinality({i \in latest : all[i].blocked}) >= BlockedShare
        \/ Cardinality({i \in since(FiveMinutes) : all[i].prompt = last.prompt}) >= Repeats

(* "On trigger: ban the API key + owning user": an event brings its key a   *)
(* strike exactly if all the worker has all of the key calls for one,      *)
(* however the windows have been pruned, aged and shared by requests.       *)
BansMatchSignals ==
    [][\A w \in Workers, k \in Keys :
          Len(seen'[w][k]) > Len(seen[w][k]) =>
              (strikes'[w][k] > strikes[w][k] <=> Suspicious(seen'[w][k]))]_keyVars

(* The bans are served by whoever has earned one, and earned by whoever is  *)
(* given one.                                                               *)
BansFair == BansServed /\ BansMatchSignals
===============================================================================
