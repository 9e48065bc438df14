----------------------------- MODULE MCConversations -----------------------------
(* Users of one workspace, whose prompts look alike but for one value.      *)
EXTENDS Conversations, TLC

OneTeam == [u \in People |-> "team"]

EmailThenPhone == <<"email", "phone">>
Datum(kind, number) == [kind |-> kind, n |-> number, held |-> FALSE]
CallMe(number) == <<Datum("phone", 1), Datum("email", number)>>
TwoTold == {CallMe(1), CallMe(2)}

Plain == [redact |-> FALSE, cache |-> FALSE, index |-> FALSE, private |-> FALSE]
Indexed == [Plain EXCEPT !.redact = TRUE, !.index = TRUE]
Caching == [Plain EXCEPT !.cache = TRUE]
Closed == [Plain EXCEPT !.redact = TRUE, !.private = TRUE]
ThreeModes == {Indexed, Caching, Closed}

(* Bounds of this instance: one memory is marked at a time, as pinned or as *)
(* low, and one is written at all where answers are cached.                 *)
FewMemories ==
    /\ Cardinality({i \in MemoryIds : memory[i].pinned \/ memory[i].low}) <= 1
    /\ mode.cache => Cardinality({i \in MemoryIds : memory[i] # NoMemory}) <= 1
===============================================================================
