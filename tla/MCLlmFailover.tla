---------------------------- MODULE MCLlmFailover -----------------------------
(* Small instances of LlmFailover. *)
EXTENDS LlmFailover, TLC

CONSTANTS r1, r2

RequestPair == {r1, r2}

(* "gone" is a name no adapter answers to; a repeated name is skipped. *)
LongRoute == {<<"groq", "gone", "groq", "openai">>}
OneRoute == {<<"groq", "openai">>}
PrimaryOnly == {<<"groq">>}

RequestSymmetry == Permutations(RequestPair)
===============================================================================
