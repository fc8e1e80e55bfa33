----------------------------- MODULE BillingCost -----------------------------
(***************************************************************************)
(* What a call may cost and what it is charged: the allowance that the     *)
(* dialplan gives a prepaid call (fs.service.ts), the charge computed from *)
(* its record (cdr.service.ts), and the auto dialer's own computation      *)
(* (auto-dialer.service.ts).                                               *)
(*                                                                         *)
(* A rate is an amount per minute of Minute seconds, and amounts that are  *)
(* compared are multiplied by Minute, which keeps them whole.              *)
(***************************************************************************)
EXTENDS Integers

CONSTANTS
  Minute,                     \* seconds of a minute
  Rates, Increments, Fees,    \* what a tariff may say
  Balances,                   \* bound: balances of the tenant
  MaxSeconds                  \* bound: no call is longer

ASSUME TariffAssumption ==
  /\ Minute \in Nat \ {0}
  /\ Rates \subseteq Nat
  /\ Increments \subseteq Nat \ {0}
  /\ Fees \subseteq Nat
  /\ Balances \subseteq Int
  /\ MaxSeconds \in Nat

Modes   == {"full_block", "block_plus_one"}
Tariff  == [rate : Rates, increment : Increments, fee : Fees, mode : Modes]
Outcome == {"insufficient", "unlimited", "limited"}

VARIABLES
  config,      \* the default tariff in billing_configs
  route,       \* billing of the outbound rule: billingEnabled and its tariff
  balance,     \* the balance the dialplan read
  allowance,   \* what calculatePrepaidAllowance answered
  seconds,     \* how long the call has been up
  state        \* asked, up or over

vars == <<config, route, balance, allowance, seconds, state>>

CeilDiv(n, d)  == (n + d - 1) \div d
Larger(a, b)   == IF a > b THEN a ELSE b
NoAllowance(t) == [type |-> t, seconds |-> 0]

(* A rule that bills replaces the whole default tariff, at both ends.      *)
Applied == IF route.billingEnabled THEN route.tariff ELSE config

calculatePrepaidAllowance(b, t) ==
  LET perUnit   == t.rate * t.increment
      spendable == Minute * (b - t.fee)
  IN  IF b <= 0 THEN NoAllowance("insufficient")
      ELSE IF perUnit = 0
        THEN NoAllowance(IF t.fee > 0 /\ b < t.fee THEN "insufficient" ELSE "unlimited")
      ELSE IF spendable < perUnit THEN NoAllowance("insufficient")
      ELSE [type |-> "limited", seconds |-> Larger(1, spendable \div perUnit) * t.increment]

(* The charge for a record, before tax.                                    *)
Subtotal(t, billSeconds) ==
  t.fee * Minute +
    IF billSeconds = 0 \/ t.rate = 0 THEN 0
    ELSE IF t.mode = "block_plus_one" THEN Larger(t.increment, billSeconds) * t.rate
    ELSE CeilDiv(billSeconds, t.increment) * (t.rate * t.increment)

(* Variant: started units are not charged.                                 *)
DialerCostFloor(t, billSeconds) ==
  t.fee * Minute +
    IF billSeconds = 0 \/ t.rate = 0 THEN 0
    ELSE IF t.mode = "block_plus_one" THEN Larger(t.increment, billSeconds) * t.rate
    ELSE (billSeconds \div t.increment) * (t.rate * t.increment)

(* The auto dialer charges a dialled call, which has no rule, with a       *)
(* computation of its own, and no tax.                                     *)
computeBilling(t, billSeconds) ==
  t.fee * Minute +
    IF billSeconds > 0 /\ t.rate > 0
      THEN IF t.mode = "block_plus_one" THEN t.rate * Larger(t.increment, billSeconds)
           ELSE CeilDiv(billSeconds, t.increment) * (t.rate * t.increment)
      ELSE 0

-----------------------------------------------------------------------------
Init ==
  /\ config \in Tariff
  /\ \/ route = [billingEnabled |-> FALSE, tariff |-> config]
     \/ \E t \in Tariff : route = [billingEnabled |-> TRUE, tariff |-> t]
  /\ balance \in Balances
  /\ allowance = NoAllowance("insufficient")
  /\ seconds = 0
  /\ state = "asked"

dialplanXML ==
  /\ state = "asked"
  /\ allowance' = calculatePrepaidAllowance(balance, Applied)
  /\ state' = IF allowance'.type = "insufficient" THEN "over" ELSE "up"
  /\ UNCHANGED <<config, route, balance, seconds>>

(* Variant: the call may last all of its allowance.                        *)
HangupWithoutMargin(a) == a.seconds

(* sched_hangup, one second before the end of the allowance.               *)
hangupSeconds(a) == Larger(1, a.seconds - 1)

(* FreeSWITCH hangs up when the time has come, and the record may count    *)
(* the second that has begun.                                              *)
Talk ==
  /\ state = "up" /\ seconds < MaxSeconds
  /\ allowance.type = "limited" => seconds < hangupSeconds(allowance) + 1
  /\ seconds' = seconds + 1
  /\ UNCHANGED <<config, route, balance, allowance, state>>

HangUp ==
  /\ state = "up"
  /\ state' = "over"
  /\ UNCHANGED <<config, route, balance, allowance, seconds>>

Next == dialplanXML \/ Talk \/ HangUp

Spec == Init /\ [][Next]_vars

-----------------------------------------------------------------------------
TypeOK ==
  /\ config \in Tariff /\ balance \in Balances
  /\ route \in [billingEnabled : BOOLEAN, tariff : Tariff]
  /\ allowance \in [type : Outcome, seconds : Nat]
  /\ seconds \in Nat /\ state \in {"asked", "up", "over"}

(* Whatever the tariff, a call that the dialplan admits never costs more,  *)
(* before tax, than the balance it was admitted on: the hangup that is     *)
(* scheduled comes before the unit that could not be paid.  One second is  *)
(* the least that can be scheduled, so a balance that buys a single second *)
(* is excepted.                                                            *)
AllowanceCovers ==
  state = "up" /\ (allowance.type = "limited" => allowance.seconds > 1) =>
    Subtotal(Applied, seconds) <= Minute * balance

(* The two computations of a charge agree, so what the dialer shows for a  *)
(* call is what the record of that call costs before tax.                  *)
CostsAgree == computeBilling(config, seconds) = Subtotal(config, seconds)
=============================================================================
