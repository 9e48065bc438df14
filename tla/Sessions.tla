-------------------------------- MODULE Sessions --------------------------------
(***************************************************************************)
(* Who a bearer token speaks for: get_current_user of app/deps.py, with    *)
(* the cache of Clerk's signing keys (JWKS), and the tokens login and      *)
(* refresh of app/routers/auth.py hand out.                                *)
(*                                                                         *)
(* A token of our own is trusted until it expires, one of Clerk's as long  *)
(* as its key is among the keys last fetched, which are kept for an hour.  *)
(***************************************************************************)
EXTENDS Integers, FiniteSets

CONSTANTS SigningKeys,   \* Clerk's, one after the other
          Pinned,        \* CLERK_JWT_KEY: a key taken from the settings, or none
          Subjects,      \* users
          Hour,          \* the cache's 3600 seconds, in ticks
          AccessLife, RefreshLife,  \* ACCESS_TOKEN_EXPIRE_MINUTES and _DAYS, in ticks
          MaxTokens      \* bound of the model: tokens that have not expired

ASSUME PinnedAssumption == Pinned \subseteq SigningKeys /\ Cardinality(Pinned) <= 1
ASSUME LivesAssumption == {Hour, AccessLife, RefreshLife} \subseteq Nat \ {0}
ASSUME MaxTokensAssumption == MaxTokens \in Nat

VARIABLES signing,   \* Clerk: whether a key is not yet, now, or no longer used
          since,     \* ticks since Clerk withdrew a key
          jwks,      \* _jwks_cache and its age; an age of Hour is none
          subject,   \* user -> is_active, and whether linked to a Clerk user
          tokens,    \* our tokens: type, user, ticks to live
          admitted   \* history: the key of the Clerk token accepted last

sessionVars == <<signing, since, jwks, subject, tokens, admitted>>

Tokens == [type : {"access", "refresh"}, user : Subjects, left : 1..(AccessLife + RefreshLife)]

SessionsTypeOK ==
    /\ signing \in [SigningKeys -> {"future", "live", "withdrawn"}]
    /\ since \in [SigningKeys -> 0..(Hour + 1)]
    /\ jwks \in [keys : SUBSET SigningKeys, age : 0..Hour]
    /\ subject \in [Subjects -> [active : BOOLEAN, linked : BOOLEAN]]
    /\ tokens \subseteq Tokens
    /\ admitted \subseteq SigningKeys

SessionsInit ==
    /\ signing \in [SigningKeys -> {"future", "live"}]
    /\ since = [k \in SigningKeys |-> 0]
    /\ jwks = [keys |-> {}, age |-> Hour]
    /\ subject \in [Subjects -> [active : {TRUE}, linked : BOOLEAN]]
    /\ tokens = {}
    /\ admitted = {}

-------------------------------------------------------------------------------
Live == {k \in SigningKeys : signing[k] = "live"}

(* Clerk starts to sign with a key, or stops. *)
Rotate(k) ==
    /\ signing[k] # "withdrawn"
    /\ signing' = [signing EXCEPT ![k] = IF @ = "future" THEN "live" ELSE "withdrawn"]
    /\ UNCHANGED <<since, jwks, subject, tokens, admitted>>

(* login, and refresh with a token that lives. *)
Issued(u) == {[type |-> "access", user |-> u, left |-> AccessLife],
              [type |-> "refresh", user |-> u, left |-> RefreshLife]}
Login(u) ==
    /\ subject[u].active
    /\ Cardinality(tokens \cup Issued(u)) <= MaxTokens
    /\ tokens' = tokens \cup Issued(u)
    /\ UNCHANGED <<signing, since, jwks, subject, admitted>>
Refresh(token) ==
    /\ token.type = "refresh"
    /\ Login(token.user)

(* Mutant of KeysUsed: the cache is never fetched again. *)
KeysUsedForever == IF jwks.keys # {} THEN jwks ELSE [keys |-> Live, age |-> 0]

(* The keys a Clerk token is checked with: the cache, or a new one if there *)
(* is none or it is an hour old.  A token of another key is no reason to fetch.     *)
KeysUsed == IF jwks.age < Hour THEN jwks ELSE [keys |-> Live, age |-> 0]

(* A request with a Clerk token signed with k, for the user it belongs to.  *)
(* The pinned key needs no cache.                                           *)
Present(k, u) ==
    /\ signing[k] # "future"
    /\ subject[u].linked
    /\ jwks' = IF Pinned = {} THEN KeysUsed ELSE jwks
    /\ admitted' = IF k \in (IF Pinned = {} THEN jwks'.keys ELSE Pinned) /\ subject[u].active
                   THEN {k} ELSE {}
    /\ UNCHANGED <<signing, since, subject, tokens>>

SetActiveUser(u) ==
    /\ subject' = [subject EXCEPT ![u].active = ~@]
    /\ UNCHANGED <<signing, since, jwks, tokens, admitted>>

SessionsTick ==
    /\ since' = [k \in SigningKeys |-> IF signing[k] = "withdrawn" /\ since[k] <= Hour THEN since[k] + 1 ELSE since[k]]
    /\ jwks' = [jwks EXCEPT !.age = IF @ < Hour THEN @ + 1 ELSE @]
    /\ tokens' = {[token EXCEPT !.left = @ - 1] : token \in {t \in tokens : t.left > 1}}
    /\ admitted' = {}
    /\ UNCHANGED <<signing, subject>>

SessionsNext ==
    \/ \E k \in SigningKeys : Rotate(k) \/ \E u \in Subjects : Present(k, u)
    \/ \E u \in Subjects : Login(u) \/ SetActiveUser(u)
    \/ \E token \in tokens : Refresh(token)
    \/ SessionsTick

SessionsSpec == SessionsInit /\ [][SessionsNext]_sessionVars

-------------------------------------------------------------------------------
(* The cache may keep a withdrawn key for its hour but no longer: when a    *)
(* token is accepted, its key is one Clerk uses, or has used within the     *)
(* hour ("now - _jwks_cache_ts < 3600").  A key in the settings is exempt.  *)
WithdrawnKeysExpire ==
    Pinned = {} => \A k \in admitted : signing[k] = "live" \/ since[k] < Hour

===============================================================================
