------------------------------ MODULE FactStore ------------------------------
(***************************************************************************)
(* What a StateStore promises its callers: one map from agents and         *)
(* composite keys to facts, read and written atomically.  It is the store  *)
(* as StateContext and the state handlers use it; StateStore.tla is the    *)
(* cache, the mutex and the database that implement it.                    *)
(***************************************************************************)
CONSTANTS
    Callers,    \* coroutines that use the store
    Agents,     \* agent ids
    Keys,       \* composite keys: "state", "step", "state_planning_1:data", ...
    Values,     \* serialized facts
    NoFact      \* null: no row for the key

VARIABLES
    facts,      \* facts[a][k]: the fact agent a has under k, or NoFact
    got         \* got[c]: what caller c's last getFromMemory returned

vars == <<facts, got>>

Fact == Values \cup {NoFact}

TypeOK ==
    /\ facts \in [Agents -> [Keys -> Fact]]
    /\ got \in [Callers -> Fact]

Init ==
    /\ facts = [a \in Agents |-> [k \in Keys |-> NoFact]]
    /\ got = [c \in Callers |-> NoFact]

Save(a, k, v) ==
    /\ facts' = [facts EXCEPT ![a] = [facts[a] EXCEPT ![k] = v]]
    /\ UNCHANGED got

Get(c, a, k) ==
    /\ got' = [got EXCEPT ![c] = facts[a][k]]
    /\ UNCHANGED facts

ClearByKey(a, k) ==
    /\ facts' = [facts EXCEPT ![a] = [facts[a] EXCEPT ![k] = NoFact]]
    /\ UNCHANGED got

ClearState(a) ==
    /\ facts' = [facts EXCEPT ![a] = [k \in Keys |-> NoFact]]
    /\ UNCHANGED got

(* A process restart forgets the callers, never the facts.                 *)
Restart ==
    /\ got' = [c \in Callers |-> NoFact]
    /\ UNCHANGED facts

Next ==
    \/ \E a \in Agents, k \in Keys, v \in Values : Save(a, k, v)
    \/ \E c \in Callers, a \in Agents, k \in Keys : Get(c, a, k)
    \/ \E a \in Agents, k \in Keys : ClearByKey(a, k)
    \/ \E a \in Agents : ClearState(a)
    \/ Restart

Spec == Init /\ [][Next]_vars
=============================================================================
