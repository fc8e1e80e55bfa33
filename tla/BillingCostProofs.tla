-------------------------- MODULE BillingCostProofs --------------------------
(***************************************************************************)
(* Proofs about BillingCost, for every tariff, balance and length of call. *)
(***************************************************************************)
EXTENDS BillingCost, TLAPS

(* A quotient times its divisor is at most the dividend.                   *)
LEMMA QuotientFits ==
  ASSUME NEW n \in Nat, NEW d \in Nat \ {0}
  PROVE  n \div d \in Nat /\ d * (n \div d) <= n
  OBVIOUS

(* Units that contain the seconds are at least the units begun.            *)
LEMMA UnitsBegun ==
  ASSUME NEW n \in Nat, NEW d \in Nat \ {0}, NEW u \in Nat, n <= u * d
  PROVE  CeilDiv(n, d) <= u /\ CeilDiv(n, d) \in Nat
<1>1. n + d - 1 < (u + 1) * d
  OBVIOUS
<1>2. n + d - 1 \in Nat
  OBVIOUS
<1> QED BY <1>1, <1>2 DEF CeilDiv

LEMMA TimesMonotone ==
  ASSUME NEW a \in Nat, NEW b \in Nat, NEW c \in Nat, a <= b
  PROVE  a * c <= b * c
  OBVIOUS

(* The numbers of a tariff.                                                *)
LEMMA TariffNumbers ==
  ASSUME NEW t \in Tariff
  PROVE  /\ t.rate \in Nat /\ t.increment \in Nat \ {0} /\ t.fee \in Nat
         /\ Minute \in Nat \ {0} /\ t.mode \in Modes
  BY TariffAssumption DEF Tariff

LEMMA UnitCostType ==
  ASSUME NEW t \in Tariff, NEW u \in Nat
  PROVE  t.fee * Minute + u * (t.rate * t.increment) \in Int
<1>1. t.rate \in Nat /\ t.increment \in Nat \ {0} /\ t.fee \in Nat /\ Minute \in Nat \ {0}
  BY TariffNumbers
<1>2. t.rate * t.increment \in Nat
  BY <1>1
<1> QED BY <1>1, <1>2

LEMMA SubtotalType ==
  ASSUME NEW t \in Tariff, NEW s \in Nat
  PROVE  Subtotal(t, s) \in Int
<1>1. t.rate \in Nat /\ t.increment \in Nat \ {0} /\ t.fee \in Nat /\ Minute \in Nat \ {0}
  BY TariffNumbers
<1>2. t.rate * t.increment \in Nat /\ t.fee * Minute \in Nat
  BY <1>1
<1>3. s + t.increment - 1 \in Nat
  BY <1>1
<1>4. CeilDiv(s, t.increment) \in Nat
  BY <1>1, <1>3, QuotientFits DEF CeilDiv
<1>5. CeilDiv(s, t.increment) * (t.rate * t.increment) \in Nat
  BY <1>2, <1>4
<1>6. Larger(t.increment, s) * t.rate \in Nat
  BY <1>1 DEF Larger
<1> QED BY <1>2, <1>5, <1>6 DEF Subtotal

(* What the allowance of a limited call is: a whole number of units, which *)
(* together with the setup fee cost at most the balance.                   *)
LEMMA LimitedAllowance ==
  ASSUME NEW b \in Int, NEW t \in Tariff,
         calculatePrepaidAllowance(b, t).type = "limited"
  PROVE  \E units \in Nat \ {0} :
           /\ calculatePrepaidAllowance(b, t).seconds = units * t.increment
           /\ t.fee * Minute + units * (t.rate * t.increment) <= Minute * b
           /\ t.rate > 0
<1> DEFINE perUnit   == t.rate * t.increment
           spendable == Minute * (b - t.fee)
           units     == spendable \div perUnit
<1>1. t.rate \in Nat /\ t.increment \in Nat \ {0} /\ t.fee \in Nat /\ Minute \in Nat \ {0}
  BY TariffNumbers
<1>2. /\ perUnit # 0
      /\ ~(spendable < perUnit)
      /\ calculatePrepaidAllowance(b, t).seconds = Larger(1, units) * t.increment
  BY DEF calculatePrepaidAllowance, NoAllowance
<1>3. perUnit \in Nat \ {0} /\ t.rate > 0
  BY <1>1, <1>2
<1>4. spendable \in Int
  BY <1>1
<1> HIDE DEF perUnit, spendable
<1>5. spendable \in Nat /\ spendable >= perUnit
  BY <1>2, <1>3, <1>4
<1>6. units \in Nat /\ perUnit * units <= spendable
  BY <1>3, <1>5, QuotientFits
<1>7. units >= 1
  BY <1>3, <1>5
<1>8. Larger(1, units) = units
  BY <1>6, <1>7 DEF Larger
<1>9. t.fee * Minute + units * perUnit <= Minute * b
  <2>1. units * perUnit <= spendable
    BY <1>3, <1>6
  <2>2. spendable = Minute * b - t.fee * Minute
    BY <1>1 DEF spendable
  <2>3. t.fee * Minute \in Int /\ Minute * b \in Int /\ units * perUnit \in Int
    BY <1>1, <1>3, <1>6
  <2> QED BY <2>1, <2>2, <2>3
<1> HIDE DEF units
<1> QED BY <1>2, <1>3, <1>6, <1>7, <1>8, <1>9 DEF perUnit

(* The charge of a call that lasts no longer than so many units.           *)
LEMMA SubtotalOfUnits ==
  ASSUME NEW t \in Tariff, NEW u \in Nat \ {0}, NEW s \in Nat, s <= u * t.increment
  PROVE  Subtotal(t, s) <= t.fee * Minute + u * (t.rate * t.increment)
<1>1. t.rate \in Nat /\ t.increment \in Nat \ {0} /\ t.fee \in Nat /\ Minute \in Nat \ {0}
  BY TariffNumbers
<1>2. t.fee * Minute \in Nat /\ u * (t.rate * t.increment) \in Nat
  BY <1>1
<1>3. CASE s = 0 \/ t.rate = 0
  BY <1>2, <1>3 DEF Subtotal
<1>4. CASE ~(s = 0 \/ t.rate = 0) /\ t.mode = "block_plus_one"
  <2>1. Larger(t.increment, s) <= u * t.increment /\ Larger(t.increment, s) \in Nat
    BY <1>1 DEF Larger
  <2>2. u * t.increment \in Nat
    BY <1>1
  <2>3. Larger(t.increment, s) * t.rate <= (u * t.increment) * t.rate
    BY <1>1, <2>1, <2>2, TimesMonotone
  <2>4. (u * t.increment) * t.rate = u * (t.rate * t.increment)
    BY <1>1
  <2>5. Subtotal(t, s) = t.fee * Minute + Larger(t.increment, s) * t.rate
    BY <1>4 DEF Subtotal
  <2>6. Larger(t.increment, s) * t.rate \in Nat
    BY <1>1, <2>1
  <2> QED BY <1>2, <2>3, <2>4, <2>5, <2>6
<1>5. CASE ~(s = 0 \/ t.rate = 0) /\ t.mode # "block_plus_one"
  <2>1. CeilDiv(s, t.increment) <= u /\ CeilDiv(s, t.increment) \in Nat
    BY <1>1, UnitsBegun
  <2>2. t.rate * t.increment \in Nat
    BY <1>1
  <2>3. CeilDiv(s, t.increment) * (t.rate * t.increment) <= u * (t.rate * t.increment)
    BY <2>1, <2>2, TimesMonotone
  <2>4. Subtotal(t, s) = t.fee * Minute + CeilDiv(s, t.increment) * (t.rate * t.increment)
    BY <1>5 DEF Subtotal
  <2>5. CeilDiv(s, t.increment) * (t.rate * t.increment) \in Nat
    BY <2>1, <2>2
  <2> QED BY <1>2, <2>3, <2>4, <2>5
<1> QED BY <1>3, <1>4, <1>5

(* Without a limit the rate is 0, and the balance pays the setup fee.      *)
LEMMA UnlimitedCost ==
  ASSUME NEW b \in Int, NEW t \in Tariff, NEW s \in Nat,
         calculatePrepaidAllowance(b, t).type = "unlimited"
  PROVE  Subtotal(t, s) <= Minute * b
<1>1. t.rate \in Nat /\ t.increment \in Nat \ {0} /\ t.fee \in Nat /\ Minute \in Nat \ {0}
  BY TariffNumbers
<1>2. b > 0 /\ t.rate * t.increment = 0 /\ (t.fee > 0 => b >= t.fee)
  BY <1>1 DEF calculatePrepaidAllowance, NoAllowance
<1>3. t.rate = 0
  BY <1>1, <1>2
<1>4. Subtotal(t, s) = t.fee * Minute
  BY <1>1, <1>3 DEF Subtotal
<1>5. t.fee <= b /\ b \in Nat
  BY <1>1, <1>2
<1>6. t.fee * Minute <= b * Minute
  BY <1>1, <1>5, TimesMonotone
<1> QED BY <1>1, <1>4, <1>6

-----------------------------------------------------------------------------
(* The allowance of a call that is up is the one its tariff and balance    *)
(* give, and the call has not lasted longer than a second past its hangup. *)
CallInv ==
  state = "up" =>
    /\ allowance = calculatePrepaidAllowance(balance, Applied)
    /\ allowance.type # "insufficient"
    /\ allowance.type = "limited" => seconds <= hangupSeconds(allowance) + 1

(* A call that has not been admitted has not lasted.                       *)
NotStarted == state = "asked" => seconds = 0

LEMMA AllowanceType ==
  ASSUME NEW b \in Int, NEW t \in Tariff
  PROVE  calculatePrepaidAllowance(b, t) \in [type : Outcome, seconds : Nat]
<1> DEFINE a == calculatePrepaidAllowance(b, t)
<1>1. CASE a.type = "limited"
  <2>1. PICK u \in Nat \ {0} : a.seconds = u * t.increment
    BY <1>1, LimitedAllowance
  <2>2. a.seconds \in Nat
    <3>1. t.increment \in Nat
      BY TariffNumbers
    <3>2. u * t.increment \in Nat
      BY <3>1
    <3> QED BY <2>1, <3>2
  <2>3. a = [type |-> "limited", seconds |-> a.seconds]
    BY <1>1 DEF calculatePrepaidAllowance, NoAllowance
  <2> HIDE DEF a
  <2>4. a \in [type : Outcome, seconds : Nat]
    BY <2>2, <2>3 DEF Outcome
  <2> QED BY <2>4 DEF a
<1>2. CASE a.type # "limited"
  BY <1>2 DEF calculatePrepaidAllowance, NoAllowance, Outcome
<1> QED BY <1>1, <1>2

LEMMA StartType == Init => TypeOK
<1> SUFFICES ASSUME Init PROVE TypeOK
  OBVIOUS
<1>1. config \in Tariff
  BY DEF Init
<1>2. route \in [billingEnabled : BOOLEAN, tariff : Tariff]
  <2>1. CASE route = [billingEnabled |-> FALSE, tariff |-> config]
    BY <1>1, <2>1
  <2>2. CASE \E t \in Tariff : route = [billingEnabled |-> TRUE, tariff |-> t]
    BY <2>2
  <2> QED BY <2>1, <2>2 DEF Init
<1>3. allowance \in [type : Outcome, seconds : Nat]
  BY DEF Init, NoAllowance, Outcome
<1> QED BY <1>1, <1>2, <1>3 DEF Init, TypeOK

LEMMA AppliedType == TypeOK => Applied \in Tariff /\ balance \in Int
  BY TariffAssumption DEF TypeOK, Applied

LEMMA StepType ==
  ASSUME TypeOK, [Next]_vars
  PROVE  TypeOK'
<1>1. Applied \in Tariff /\ balance \in Int
  BY AppliedType
<1>2. CASE dialplanXML
  <2>1. allowance' \in [type : Outcome, seconds : Nat]
    BY <1>1, <1>2, AllowanceType DEF dialplanXML
  <2> QED BY <1>2, <2>1 DEF dialplanXML, TypeOK
<1>3. CASE Talk
  BY <1>3 DEF Talk, TypeOK
<1>4. CASE HangUp
  BY <1>4 DEF HangUp, TypeOK
<1>5. CASE UNCHANGED vars
  BY <1>5 DEF vars, TypeOK
<1> QED BY <1>2, <1>3, <1>4, <1>5 DEF Next

LEMMA StepCall ==
  ASSUME TypeOK, CallInv, NotStarted, [Next]_vars
  PROVE  CallInv'
<1>1. CASE dialplanXML
  <2>1. seconds' = 0 /\ balance' = balance /\ Applied' = Applied
        /\ allowance' = calculatePrepaidAllowance(balance, Applied)
        /\ (state' = "up" => allowance'.type # "insufficient")
    BY <1>1 DEF dialplanXML, Applied, NotStarted
  <2>2. allowance' \in [type : Outcome, seconds : Nat]
    BY <2>1, AllowanceType, AppliedType
  <2>3. 0 <= hangupSeconds(allowance') + 1
    BY <2>2 DEF hangupSeconds, Larger
  <2>4. hangupSeconds(allowance)' = hangupSeconds(allowance')
    BY DEF hangupSeconds, Larger
  <2>5. calculatePrepaidAllowance(balance, Applied)' = calculatePrepaidAllowance(balance, Applied)
    BY <2>1 DEF calculatePrepaidAllowance, NoAllowance, Larger
  <2> QED BY <2>1, <2>3, <2>4, <2>5 DEF CallInv
<1>2. CASE Talk
  <2>1. /\ state = "up" /\ state' = "up" /\ allowance' = allowance
        /\ balance' = balance /\ Applied' = Applied /\ seconds' = seconds + 1
        /\ (allowance.type = "limited" => seconds < hangupSeconds(allowance) + 1)
    BY <1>2 DEF Talk, Applied
  <2>2. hangupSeconds(allowance) \in Int /\ seconds \in Int
    BY DEF TypeOK, hangupSeconds, Larger
  <2>3. hangupSeconds(allowance)' = hangupSeconds(allowance)
    BY <2>1 DEF hangupSeconds, Larger
  <2>4. calculatePrepaidAllowance(balance, Applied)' = calculatePrepaidAllowance(balance, Applied)
    BY <2>1 DEF calculatePrepaidAllowance, NoAllowance, Larger
  <2> QED BY <2>1, <2>2, <2>3, <2>4 DEF CallInv
<1>3. CASE HangUp
  BY <1>3 DEF HangUp, CallInv
<1>4. CASE UNCHANGED vars
  BY <1>4 DEF vars, CallInv, calculatePrepaidAllowance, Applied, NoAllowance, hangupSeconds, Larger
<1> QED BY <1>1, <1>2, <1>3, <1>4 DEF Next

(* The invariant gives the property: a limited call of more than a second  *)
(* is over before its allowance is.                                        *)
LEMMA CallCovered ==
  ASSUME TypeOK, CallInv
  PROVE  AllowanceCovers
<1> SUFFICES ASSUME state = "up", allowance.type = "limited" => allowance.seconds > 1
             PROVE  Subtotal(Applied, seconds) <= Minute * balance
  BY DEF AllowanceCovers
<1>1. Applied \in Tariff /\ balance \in Int /\ seconds \in Nat
  BY AppliedType DEF TypeOK
<1>2. allowance = calculatePrepaidAllowance(balance, Applied) /\ allowance.type # "insufficient"
  BY DEF CallInv
<1>3. CASE allowance.type = "limited"
  <2>1. seconds <= allowance.seconds /\ allowance.seconds \in Nat
    BY <1>1, <1>3 DEF CallInv, TypeOK, hangupSeconds, Larger
  <2>2. PICK u \in Nat \ {0} :
          /\ allowance.seconds = u * Applied.increment
          /\ Applied.fee * Minute + u * (Applied.rate * Applied.increment) <= Minute * balance
    BY <1>1, <1>2, <1>3, LimitedAllowance
  <2>3. Subtotal(Applied, seconds) <= Applied.fee * Minute + u * (Applied.rate * Applied.increment)
    BY <1>1, <2>1, <2>2, SubtotalOfUnits
  <2>4. Applied.fee * Minute + u * (Applied.rate * Applied.increment) \in Int
    BY <1>1, UnitCostType
  <2>5. Subtotal(Applied, seconds) \in Int /\ Minute * balance \in Int
    BY <1>1, SubtotalType, TariffAssumption
  <2> QED BY <2>2, <2>3, <2>4, <2>5
<1>4. CASE allowance.type = "unlimited"
  BY <1>1, <1>2, <1>4, UnlimitedCost
<1> QED BY <1>2, <1>3, <1>4 DEF TypeOK, Outcome

(* No admitted call costs more, before tax, than the balance the dialplan  *)
(* admitted it on.                                                         *)
THEOREM AdmittedCallsCovered == Spec => []AllowanceCovers
<1>1. Init => TypeOK /\ CallInv /\ NotStarted
  BY StartType DEF Init, CallInv, NotStarted
<1>2. TypeOK /\ CallInv /\ NotStarted /\ [Next]_vars => (TypeOK /\ CallInv /\ NotStarted)'
  <2> SUFFICES ASSUME TypeOK, CallInv, NotStarted, [Next]_vars
               PROVE  (TypeOK /\ CallInv /\ NotStarted)'
    OBVIOUS
  <2>1. TypeOK'
    BY StepType
  <2>2. CallInv'
    BY StepCall
  <2>3. NotStarted'
    BY DEF NotStarted, Next, dialplanXML, Talk, HangUp, vars
  <2> QED BY <2>1, <2>2, <2>3
<1>3. TypeOK /\ CallInv => AllowanceCovers
  BY CallCovered
<1> QED BY <1>1, <1>2, <1>3, PTL DEF Spec

(* The auto dialer and the record of a call put the same price on it.      *)
THEOREM CostsAlwaysAgree == Spec => []CostsAgree
<1>1. TypeOK => CostsAgree
  <2> SUFFICES ASSUME TypeOK PROVE CostsAgree
    OBVIOUS
  <2>1. config.rate \in Nat /\ config.increment \in Nat /\ seconds \in Nat
    BY TariffNumbers DEF TypeOK
  <2>2. Larger(config.increment, seconds) \in Nat
    BY <2>1 DEF Larger
  <2>3. config.rate * Larger(config.increment, seconds)
          = Larger(config.increment, seconds) * config.rate
    BY <2>1, <2>2
  <2>4. (seconds > 0 /\ config.rate > 0) <=> ~(seconds = 0 \/ config.rate = 0)
    BY <2>1
  <2> QED BY <2>3, <2>4 DEF CostsAgree, computeBilling, Subtotal
<1>2. Init => TypeOK
  BY StartType
<1>3. TypeOK /\ [Next]_vars => TypeOK'
  BY StepType
<1> QED BY <1>1, <1>2, <1>3, PTL DEF Spec
=============================================================================
