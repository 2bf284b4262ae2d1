------------------------------ MODULE RestoreTokens ------------------------------
(***************************************************************************)
(* The workbench's memory of restore tokens, services/manualPreviewApi.js: *)
(* a Map with a time to live and a limit, that evicts the token that has   *)
(* not been used for longest.                                              *)
(*                                                                         *)
(* The backend gives every preview a session of its own, so the number of  *)
(* a session, counted as the answers come in, is also its place in the     *)
(* Map's insertion order.                                                  *)
(***************************************************************************)
EXTENDS Integers, FiniteSets, Functions

CONSTANTS
    MaxEntries,  \* RESTORE_TOKEN_CACHE_MAX_ENTRIES
    TokenTtl     \* RESTORE_TOKEN_CACHE_TTL_MS, in ticks of the clock

ASSUME RestoreTokensAssumption == MaxEntries \in Nat \ {0} /\ TokenTtl \in Nat

VARIABLES
    clock,    \* Date.now()
    tokens,   \* restoreTokensBySession: session -> [storedAt, lastAccessAt]
    ledger    \* history: when the token of every session was issued and last used

tokenVars == <<tokens, ledger>>

NoTokens == [s \in {} |-> 0]

\* Map.set
Put(map, key, value) == [k \in DOMAIN map \cup {key} |-> IF k = key THEN value ELSE map[k]]

TokensInit == clock = 0 /\ tokens = NoTokens /\ ledger = NoTokens

\* Mutant: an access extends the life of a token.
PrunedByAccess(now) == Restrict(tokens, {s \in DOMAIN tokens : now - tokens[s].lastAccessAt <= TokenTtl})

\* pruneRestoreTokenCache
Pruned(now) == Restrict(tokens, {s \in DOMAIN tokens : now - tokens[s].storedAt <= TokenTtl})

\* Mutant: first in, first out.
EvictedInOrder(cached, s, t) == s < t

\* s goes before t when the limit is passed: least recently used first, then
\* in the order of the Map.
EvictedBefore(cached, s, t) ==
    \/ cached[s].lastAccessAt < cached[t].lastAccessAt
    \/ cached[s].lastAccessAt = cached[t].lastAccessAt /\ s < t

\* Mutant: the limit is off by one.
TrimmedLate(cached) ==
    LET place(s) == Cardinality({t \in DOMAIN cached : EvictedBefore(cached, t, s)})
    IN Restrict(cached, {s \in DOMAIN cached : place(s) > Cardinality(DOMAIN cached) - MaxEntries - 2})

\* trimRestoreTokenCache: as many as are too many go, one after the other.
Trimmed(cached) ==
    LET place(s) == Cardinality({t \in DOMAIN cached : EvictedBefore(cached, t, s)})
    IN Restrict(cached, {s \in DOMAIN cached : place(s) >= Cardinality(DOMAIN cached) - MaxEntries})

\* rememberRestoreToken, of a session the backend has just created
Remember(session) ==
    /\ tokens' = Trimmed(Put(Pruned(clock), session, [storedAt |-> clock, lastAccessAt |-> clock]))
    /\ ledger' = Put(ledger, session, [issued |-> clock, used |-> clock])

\* getRestoreToken: whether the session has a token ...
HasToken(session) == session \in DOMAIN Pruned(clock)

\* ... what asking for it does when it has one ...
UseToken(session) ==
    /\ tokens' = [Pruned(clock) EXCEPT ![session].lastAccessAt = clock]
    /\ ledger' = [ledger EXCEPT ![session].used = clock]

\* ... and when it has none.
MissToken == tokens' = Pruned(clock) /\ UNCHANGED ledger

-----------------------------------------------------------------------------

\* A token that is missing before its time was pushed out by MaxEntries others
\* that were used at least as recently: the eviction is by use, not by age.
TokensKept ==
    \A s \in DOMAIN ledger \ DOMAIN tokens :
        clock - ledger[s].issued <= TokenTtl =>
            Cardinality({t \in DOMAIN ledger \ {s} : ledger[t].used >= ledger[s].used}) >= MaxEntries
=============================================================================
