--------------------------- MODULE MCSecurityAgent ---------------------------
(* The instance of SecurityAgent for TLC: the name of i1 begins that of i2,*)
(* as 10.0.0.1 does that of 10.0.0.12.  Of the rules that are there at the *)
(* start, those of administrators were added last.                         *)
EXTENDS SecurityAgent

CONSTANTS i1, i2, m1, w1, w2

OneBegins == {<<i1, i2>>}

MCInit == Init /\ \A r, s \in kernel : r.id \in Manual /\ s.id \in Ips => r.handle > s.handle

(* The two workers do not differ: when only w2 is at work, w1 takes its    *)
(* work over before anything else happens.  That halves the states without *)
(* an assumption of symmetry, which a liveness property does not allow.    *)
OnlySecond == At(w1, "idle") /\ ~At(w2, "idle")

Swap ==
  /\ OnlySecond
  /\ task' = [task EXCEPT ![w1] = task[w2], ![w2] = task[w1]]
  /\ UNCHANGED <<host, up, store, config, bounds>>

MCNext == Swap \/ (~OnlySecond /\ Next)
MCSpec == MCInit /\ [][MCNext]_vars /\ Fairness /\ WF_vars(Swap)
=============================================================================
