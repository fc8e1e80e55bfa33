---------------------------- MODULE MCAutoDialer ----------------------------
(* Instances of AutoDialer for TLC.                                        *)
EXTENDS AutoDialer, TLC

CONSTANTS s1, s2, w1, w2, c1, c2

OneHost  == [p \in Schedulers \cup Workers |-> 1]
TwoHosts == [p \in Schedulers \cup Workers |-> IF p \in {s1, w1} THEN 1 ELSE 2]
LeadIds1 == {1}
LeadIds2 == {1, 2}
AllToOne == [l \in Leads |-> CHOOSE c \in Campaigns : TRUE]
Running1 == [c \in Campaigns |-> [st |-> "running", limit |-> 1]]
Running2 == [c \in Campaigns |-> [st |-> "running", limit |-> 2]]
EachItsOwn == [l \in Leads |-> IF l = 1 THEN c1 ELSE c2]
FirstRuns == [c \in Campaigns |-> IF c = c1 THEN [st |-> "running", limit |-> 1]
                                           ELSE [st |-> "absent", limit |-> 0]]
Symmetry == Permutations(Workers)
=============================================================================
