---- MODULE MCAgentRegistry ----
EXTENDS AgentRegistry, TLC

CONSTANTS c1, c2, s1, k1, k2, collector, summary, assistant, w1, w2, w3

(* A review, which asks two agents one after another; a second review; two *)
(* messages to the assistant.                                              *)
SlotsOfJobs == [j \in Jobs |-> CASE j \in {c1, c2} -> collector [] j = s1 -> summary
                                 [] OTHER -> assistant]
WorkersOfJobs == [j \in Jobs |-> CASE j \in {c1, s1} -> w1 [] j = c2 -> w2
                                   [] OTHER -> w3]

(* The agent of the summary has an empty list of tools.                    *)
Configs == [s \in Slots |-> IF s = collector THEN {"prompt", "tools"} ELSE {"prompt"}]

(* Bound: jobs overlap in a slot or in a worker, not in both.              *)
InitOneOverlap == Init /\ overlap # MayOverlap

OneOverlap == InitOneOverlap /\ [][Next]_vars

(* The two messages to the assistant may change places.                    *)
Symmetry == Permutations({k1, k2})
====
