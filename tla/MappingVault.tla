------------------------------ MODULE MappingVault ------------------------------
(***************************************************************************)
(* What the SessionStore protocol promises about the mappings of a         *)
(* session, without saying how they are stored.  A session holds the       *)
(* mappings put into it and a deadline; every save moves the deadline TTL  *)
(* ahead; when the clock reaches the deadline the session is empty at      *)
(* once.  Lazy and periodic clean-ups are invisible at this level.         *)
(***************************************************************************)
EXTENDS Integers

CONSTANTS
    Sessions,    \* session identifiers
    MappingIds,  \* identities of mappings within a session
    TTL,         \* ttl_seconds
    MaxClock     \* bound on the clock, for model checking

VARIABLES clock, contents, deadline

vaultVars == <<clock, contents, deadline>>

NoDeadline == -1

VaultInit ==
    /\ clock = 0
    /\ contents = [s \in Sessions |-> {}]
    /\ deadline = [s \in Sessions |-> NoDeadline]

Put(s, id) ==
    /\ contents' = [contents EXCEPT ![s] = @ \cup {id}]
    /\ deadline' = [deadline EXCEPT ![s] = clock + TTL]
    /\ UNCHANGED clock

\* A credential is saved: the session is created or its life is extended.
Touch(s) ==
    /\ deadline' = [deadline EXCEPT ![s] = clock + TTL]
    /\ UNCHANGED <<clock, contents>>

Drop(s) ==
    /\ contents' = [contents EXCEPT ![s] = {}]
    /\ deadline' = [deadline EXCEPT ![s] = NoDeadline]
    /\ UNCHANGED clock

\* Time passes; whatever reaches its deadline is gone in the same step.
Lapse ==
    /\ clock < MaxClock
    /\ clock' = clock + 1
    /\ contents' = [s \in Sessions |-> IF deadline[s] <= clock' THEN {} ELSE contents[s]]
    /\ deadline' = [s \in Sessions |-> IF deadline[s] <= clock' THEN NoDeadline ELSE deadline[s]]

VaultNext ==
    \/ Lapse
    \/ \E s \in Sessions :
          \/ Touch(s)
          \/ Drop(s)
          \/ \E id \in MappingIds : Put(s, id)

VaultSpec == VaultInit /\ [][VaultNext]_vaultVars
=============================================================================
