------------------------------ MODULE CallOnce ------------------------------
(***************************************************************************)
(* What the auto dialer promises about one job, whoever works on it: it is *)
(* rung at most once; the record of its call is accepted at most once, and *)
(* only after the call has ended; the call is charged at most once, and    *)
(* only when its record was accepted and its outcome is billable.          *)
(***************************************************************************)
EXTENDS Naturals

CONSTANTS Jobs, Billable

VARIABLES
  dials,    \* ring commands sent for a job
  call,     \* its call
  cdrs,     \* the jobs whose call record was accepted
  charged   \* charges taken for its call

vars == <<dials, call, cdrs, charged>>

Init ==
  /\ dials = [j \in Jobs |-> 0]
  /\ call = [j \in Jobs |-> "none"]
  /\ cdrs = {}
  /\ charged = [j \in Jobs |-> 0]

(* The ring command may or may not lead to a call.                         *)
Ring(j) ==
  /\ dials[j] = 0
  /\ dials' = [dials EXCEPT ![j] = 1]
  /\ call' \in {call, [call EXCEPT ![j] = "live"]}
  /\ UNCHANGED <<cdrs, charged>>

End(j) ==
  /\ call[j] = "live"
  /\ \E outcome \in {"answered", "unanswered"} : call' = [call EXCEPT ![j] = outcome]
  /\ UNCHANGED <<dials, cdrs, charged>>

Accept(j) ==
  /\ call[j] \in {"answered", "unanswered"}
  /\ j \notin cdrs
  /\ cdrs' = cdrs \cup {j}
  /\ UNCHANGED <<dials, call, charged>>

Charge(j) ==
  /\ j \in cdrs
  /\ call[j] \in Billable
  /\ charged[j] = 0
  /\ charged' = [charged EXCEPT ![j] = 1]
  /\ UNCHANGED <<dials, call, cdrs>>

Next == \E j \in Jobs : Ring(j) \/ End(j) \/ Accept(j) \/ Charge(j)

Spec == Init /\ [][Next]_vars
=============================================================================
