--------------------------- MODULE RebalanceProofs ---------------------------
(***************************************************************************)
(* Theorems about Rebalance, for every number of channels, all capacities    *)
(* and every amount.                                                         *)
(***************************************************************************)
EXTENDS Rebalance, TLAPS

Planning == {"start", "confirm", "list"}
Executing == {"invoice", "pay", "waiting"}

Limit == IF requested = NoAmount THEN LargestAuto ELSE requested

\* Before the plan nothing is sent.
NothingBefore ==
    pc \in Planning => payments = <<>> /\ offered = 0 /\ planned = 0

\* What is being sent, or was, has been approved.
ApprovedPlan ==
    pc \in Executing \/ payments # <<>> =>
        /\ ~dryRun
        /\ requested \in audited
        /\ planned <= Limit
        /\ source \in Channels
        /\ sink \in Channels

\* The approval precedes the plan.
ApprovedList ==
    pc = "list" /\ ~dryRun => requested \in audited /\ Valid(requested)

ValidRequest == pc = "confirm" => Valid(requested)

AmountsPlanned ==
    /\ attempt <= planned
    /\ \A i \in DOMAIN payments : payments[i].amount <= planned

\* What the attempts still to come may add is below what is left.
RoomLeft ==
    /\ offered <= 2 * planned
    /\ pc \in {"invoice", "pay"} => offered + 2 * attempt <= 2 * planned
    /\ pc = "waiting" => offered + attempt <= 2 * planned

\* As long as no attempt is given up, only the last may not have failed.
LastCounts ==
    /\ pc = "waiting" => payments # <<>>
    /\ ~gaveUp => \A i \in DOMAIN payments :
                      i = Len(payments) \/ payments[i].state = "failed"
    /\ ~gaveUp /\ pc \in {"invoice", "pay"} =>
           \A i \in DOMAIN payments : payments[i].state = "failed"

ReportLast == report # "none" => pc = "ended"

IInv ==
    /\ TypeOK
    /\ NothingBefore
    /\ ApprovedPlan
    /\ ApprovedList
    /\ ValidRequest
    /\ AmountsPlanned
    /\ RoomLeft
    /\ LastCounts
    /\ ReportLast
    /\ ReportHonest

-----------------------------------------------------------------------------
\* Half an amount, which the next attempt takes.
LEMMA Halves ==
    ASSUME NEW a \in Nat
    PROVE  a \div 2 \in Nat /\ 2 * (a \div 2) <= a /\ a \div 2 <= a
OBVIOUS

LEMMA HalvedAttempt ==
    ASSUME TypeOK
    PROVE  Halved \in Nat /\ 2 * Halved <= attempt /\ Halved <= attempt
<1>1. attempt \in Nat
  BY DEF TypeOK
<1>2. QED
  BY <1>1, Halves DEF Halved

LEMMA FeeIsNat == ASSUME NEW a \in Nat PROVE FeeLimit(a) \in Nat
BY DEF FeeLimit, Greatest

\* What a plan is made of.
LEMMA Plans ==
    ASSUME RebalanceAssumption, TypeOK, ~NothingToPlan, Valid(requested),
           NEW c \in Channels, IsSource(c)
    PROVE  PlanAmount(c) \in Nat /\ PlanAmount(c) >= Smallest
           /\ PlanAmount(c) <= Limit
<1>1. PlanAmount(c) >= Smallest
  <2>1. PlanAmount(c) \in Int
    <3>1. Spendable(c) \in Int
      BY DEF Spendable, Greatest, RebalanceAssumption, TypeOK, Channels
    <3>2. Capacity[c] \div 2 \in Int
      BY DEF RebalanceAssumption
    <3>3. AutoAmount(c) \in Int
      BY <3>2 DEF AutoAmount, Least, Greatest, LargestAuto, TypeOK
    <3>4. requested = NoAmount \/ requested \in Int
      BY DEF TypeOK, RebalanceAssumption
    <3>5. QED
      BY <3>1, <3>3, <3>4 DEF PlanAmount, Least
  <2>2. ~(PlanAmount(c) < Smallest)
    BY DEF NothingToPlan
  <2>3. QED
    BY <2>1, <2>2 DEF Smallest
<1>2. PlanAmount(c) <= Limit /\ PlanAmount(c) \in Int
  <2>1. Spendable(c) \in Int
    BY DEF Spendable, Greatest, RebalanceAssumption, TypeOK, Channels
  <2>2. Capacity[c] \div 2 \in Int
    BY DEF RebalanceAssumption
  <2>3. AutoAmount(c) \in Int /\ AutoAmount(c) <= LargestAuto
    BY <2>2 DEF AutoAmount, Least, Greatest, LargestAuto, TypeOK
  <2>4. requested = NoAmount \/ requested \in Int
    BY DEF TypeOK, RebalanceAssumption
  <2>5. QED
    BY <2>1, <2>3, <2>4 DEF PlanAmount, Least, Limit, LargestAuto
<1>3. QED
  BY <1>1, <1>2 DEF Smallest

-----------------------------------------------------------------------------
LEMMA InitInv == ASSUME RebalanceAssumption, Init PROVE IInv
<1>1. TypeOK
  <2>1. local \in [Channels -> Nat]
    BY DEF Init, RebalanceAssumption
  <2>2. payments \in Seq(Payment)
    BY DEF Init
  <2>3. QED
    BY <2>1, <2>2 DEF Init, TypeOK, Places, Reports
<1>2. QED
  BY <1>1 DEF Init, IInv, NothingBefore, ApprovedPlan, ApprovedList, Planning,
       Executing, ValidRequest, AmountsPlanned, RoomLeft, LastCounts,
       ReportLast, ReportHonest

\* The next attempt, or the end of the attempts.
LEMMA TryLessInv ==
    ASSUME IInv, TryLess, UNCHANGED node,
           pc \in {"pay", "waiting"},
           ~gaveUp' => ~gaveUp /\ \A i \in DOMAIN payments :
                                      payments[i].state = "failed",
           gaveUp' \in BOOLEAN
    PROVE  IInv'
<1> USE DEF IInv
<1>1. Halved \in Nat /\ 2 * Halved <= attempt /\ Halved <= attempt
  BY HalvedAttempt
<1>2. TypeOK'
  BY <1>1 DEF TryLess, TypeOK, node, End, Places, Reports, Smallest,
       SmallestRetry
<1>3. planned \in Nat /\ offered \in Nat /\ attempt \in Nat
  BY DEF TypeOK
<1>4. AmountsPlanned'
  <2>1. attempt' <= planned'
    BY <1>1, <1>3 DEF TryLess, AmountsPlanned
  <2>2. QED
    BY <2>1 DEF TryLess, AmountsPlanned, node
<1>5. RoomLeft'
  <2>1. CASE Halved >= SmallestRetry
    BY <2>1, <1>1, <1>3 DEF TryLess, RoomLeft, node
  <2>2. CASE ~(Halved >= SmallestRetry)
    BY <2>2, <1>3 DEF TryLess, RoomLeft, node, End
  <2>3. QED
    BY <2>1, <2>2
<1>6. ApprovedPlan'
  BY DEF TryLess, ApprovedPlan, Executing, node, End, Limit
<1>7. NothingBefore' /\ ApprovedList' /\ ValidRequest'
  BY DEF TryLess, NothingBefore, ApprovedList, ValidRequest, Planning, End
<1>8. LastCounts'
  BY DEF TryLess, LastCounts, node, End
<1>9. ReportLast' /\ ReportHonest'
  BY DEF TryLess, ReportLast, ReportHonest, node, End, Answer
<1>10. QED
  BY <1>2, <1>4, <1>5, <1>6, <1>7, <1>8, <1>9

-----------------------------------------------------------------------------
(* The steps before the first attempt.                                       *)

LEMMA StartInv ==
    ASSUME RebalanceAssumption, IInv, NEW amount \in Requests \cup {NoAmount},
           NEW dry \in BOOLEAN, Start(amount, dry)
    PROVE  IInv'
<1> USE DEF IInv
<1>1. TypeOK'
  BY DEF Start, TypeOK, node, End, Places, Reports
<1>2. payments = <<>> /\ payments' = <<>>
  BY DEF Start, node, NothingBefore, Planning
<1>3. NothingBefore' /\ ApprovedPlan'
  BY <1>2 DEF Start, node, End, NothingBefore, ApprovedPlan, Planning, Executing
<1>4. ValidRequest' /\ ReportLast'
  BY DEF Start, End, ValidRequest, ReportLast, Valid
<1>5. ApprovedList'
  BY DEF Start, End, ApprovedList
<1>6. AmountsPlanned'
  BY DEF Start, node, AmountsPlanned
<1>7. RoomLeft' /\ LastCounts'
  BY <1>2 DEF Start, End, node, RoomLeft, LastCounts
<1>8. ReportHonest'
  BY DEF Start, End, node, ReportHonest, ReportLast
<1>9. QED
  BY <1>1, <1>3, <1>4, <1>5, <1>6, <1>7, <1>8

LEMMA ConfirmInv == ASSUME IInv, Confirm PROVE IInv'
<1> USE DEF IInv
<1>1. TypeOK'
  BY DEF Confirm, TypeOK, node, Places
<1>2. payments = <<>> /\ payments' = <<>>
  BY DEF Confirm, node, NothingBefore, Planning
<1>3. NothingBefore' /\ ApprovedPlan' /\ RoomLeft'
  BY <1>2 DEF Confirm, node, NothingBefore, ApprovedPlan, RoomLeft, Planning,
          Executing
<1>4. ApprovedList' /\ ValidRequest'
  BY DEF Confirm, ApprovedList, ValidRequest, Valid
<1>5. AmountsPlanned' /\ LastCounts'
  BY <1>2 DEF Confirm, node, AmountsPlanned, LastCounts
<1>6. ReportLast' /\ ReportHonest'
  BY DEF Confirm, node, ReportLast, ReportHonest
<1>7. QED
  BY <1>1, <1>3, <1>4, <1>5, <1>6

\* What ends the command before anything is sent.
LEMMA EndedEarly ==
    ASSUME IInv, pc \in Planning, End("nothing"),
           UNCHANGED <<requested, dryRun, audited, source, sink, planned,
                       attempt, node, gaveUp>>
    PROVE  IInv'
<1> USE DEF IInv
<1>1. TypeOK'
  BY DEF End, TypeOK, node, Places, Reports
<1>2. payments = <<>> /\ payments' = <<>>
  BY DEF node, NothingBefore
<1>3. NothingBefore' /\ ApprovedPlan' /\ RoomLeft'
  BY <1>2 DEF End, node, NothingBefore, ApprovedPlan, RoomLeft, Planning,
          Executing
<1>4. ApprovedList' /\ ValidRequest'
  BY DEF End, ApprovedList, ValidRequest
<1>5. AmountsPlanned' /\ LastCounts'
  BY <1>2 DEF End, node, AmountsPlanned, LastCounts
<1>6. ReportLast' /\ ReportHonest'
  BY DEF End, node, ReportLast, ReportHonest
<1>7. QED
  BY <1>1, <1>3, <1>4, <1>5, <1>6

LEMMA PlanInv ==
    ASSUME RebalanceAssumption, IInv, NEW c \in Channels, NEW d \in Channels,
           ListAndPlan(c, d)
    PROVE  IInv'
<1> USE DEF IInv
<1>1. Valid(requested) /\ requested \in audited
  BY DEF ListAndPlan, ApprovedList
<1>2. /\ PlanAmount(c) \in Nat
      /\ PlanAmount(c) >= Smallest
      /\ PlanAmount(c) <= Limit
  BY <1>1, Plans DEF ListAndPlan
<1>3. payments = <<>> /\ payments' = <<>> /\ offered' = 0
  BY DEF ListAndPlan, node, NothingBefore, Planning
<1>4. TypeOK'
  BY <1>2 DEF ListAndPlan, TypeOK, node, Places
<1>5. NothingBefore' /\ ApprovedList' /\ ValidRequest'
  BY DEF ListAndPlan, NothingBefore, ApprovedList, ValidRequest, Planning
<1>6. ApprovedPlan'
  BY <1>1, <1>2 DEF ListAndPlan, ApprovedPlan, Limit
<1>7. AmountsPlanned' /\ RoomLeft'
  BY <1>2, <1>3 DEF ListAndPlan, AmountsPlanned, RoomLeft
<1>8. LastCounts'
  BY <1>3 DEF ListAndPlan, LastCounts
<1>9. ReportLast' /\ ReportHonest'
  BY DEF ListAndPlan, ReportLast, ReportHonest
<1>10. QED
  BY <1>4, <1>5, <1>6, <1>7, <1>8, <1>9

-----------------------------------------------------------------------------
(* The attempts.                                                             *)

LEMMA AddInvoiceInv == ASSUME IInv, AddInvoice PROVE IInv'
<1> USE DEF IInv
<1>1. TypeOK'
  BY DEF AddInvoice, TypeOK, node, Places
<1>2. NothingBefore' /\ ApprovedPlan' /\ ApprovedList' /\ ValidRequest'
  BY DEF AddInvoice, node, NothingBefore, ApprovedPlan, ApprovedList,
         ValidRequest, Planning, Executing, Limit
<1>3. AmountsPlanned' /\ RoomLeft'
  BY DEF AddInvoice, node, AmountsPlanned, RoomLeft
<1>4. LastCounts' /\ ReportLast' /\ ReportHonest'
  BY DEF AddInvoice, node, LastCounts, ReportLast, ReportHonest
<1>5. QED
  BY <1>1, <1>2, <1>3, <1>4

LEMMA AddInvoiceFailsInv == ASSUME IInv, AddInvoiceFails PROVE IInv'
<1> USE DEF IInv
<1>1. TypeOK'
  BY DEF AddInvoiceFails, End, TypeOK, node, Places, Reports
<1>2. NothingBefore' /\ ApprovedPlan' /\ ApprovedList' /\ ValidRequest'
  BY DEF AddInvoiceFails, End, node, NothingBefore, ApprovedPlan, ApprovedList,
         ValidRequest, Planning, Executing, Limit
<1>3. AmountsPlanned' /\ RoomLeft'
  BY DEF AddInvoiceFails, End, node, AmountsPlanned, RoomLeft
<1>4. LastCounts' /\ ReportLast'
  BY DEF AddInvoiceFails, End, node, LastCounts, ReportLast
<1>5. ReportHonest'
  BY DEF AddInvoiceFails, End, node, LastCounts, ReportHonest
<1>6. QED
  BY <1>1, <1>2, <1>3, <1>4, <1>5

LEMMA SendPaymentInv == ASSUME IInv, SendPayment PROVE IInv'
<1> USE DEF IInv
<1> DEFINE new == [amount |-> attempt, fee |-> 0, state |-> "inflight"]
<1>1. new \in Payment /\ attempt \in Nat /\ planned \in Nat /\ offered \in Nat
  BY DEF TypeOK, Payment
<1>2. payments \in Seq(Payment) /\ payments' = Append(payments, new)
  BY DEF SendPayment, TypeOK
<1> HIDE DEF new
<1>3. /\ payments' \in Seq(Payment)
      /\ Len(payments') = Len(payments) + 1
      /\ payments' # <<>>
      /\ \A i \in DOMAIN payments' :
             \/ i = Len(payments') /\ payments'[i] = new
             \/ i \in DOMAIN payments /\ payments'[i] = payments[i]
  BY <1>1, <1>2
<1>4. TypeOK'
  BY <1>1, <1>3 DEF SendPayment, TypeOK, Places
<1>5. NothingBefore' /\ ApprovedPlan' /\ ApprovedList' /\ ValidRequest'
  BY DEF SendPayment, NothingBefore, ApprovedPlan, ApprovedList, ValidRequest,
         Planning, Executing, Limit
<1>6. AmountsPlanned'
  <2>1. new.amount <= planned
    BY DEF new, AmountsPlanned
  <2>2. QED
    BY <2>1, <1>3 DEF SendPayment, AmountsPlanned
<1>7. RoomLeft'
  BY <1>1 DEF SendPayment, RoomLeft
<1>8. LastCounts'
  BY <1>3 DEF SendPayment, LastCounts
<1>9. ReportLast' /\ ReportHonest'
  BY DEF SendPayment, ReportLast, ReportHonest
<1>10. QED
  BY <1>4, <1>5, <1>6, <1>7, <1>8, <1>9

LEMMA SendFailsInv == ASSUME IInv, SendFails PROVE IInv'
<1>1. ~gaveUp => \A i \in DOMAIN payments : payments[i].state = "failed"
  BY DEF SendFails, IInv, LastCounts
<1>2. QED
  BY <1>1, TryLessInv DEF SendFails, IInv, TypeOK

LEMMA RefusedInv == ASSUME IInv, Refused PROVE IInv'
<1>1. ~gaveUp => \A i \in DOMAIN payments : payments[i].state = "failed"
  BY DEF Refused, Answer, IInv, LastCounts
<1>2. QED
  BY <1>1, TryLessInv DEF Refused, IInv, TypeOK

LEMMA GiveUpInv == ASSUME IInv, GiveUp PROVE IInv'
BY TryLessInv DEF GiveUp

LEMMA SucceedInv == ASSUME IInv, Succeed PROVE IInv'
<1> USE DEF IInv
<1>1. TypeOK'
  BY DEF Succeed, End, TypeOK, node, Places, Reports
<1>2. NothingBefore' /\ ApprovedPlan' /\ ApprovedList' /\ ValidRequest'
  BY DEF Succeed, End, node, NothingBefore, ApprovedPlan, ApprovedList,
         ValidRequest, Planning, Executing, Limit
<1>3. AmountsPlanned' /\ RoomLeft'
  BY DEF Succeed, End, node, AmountsPlanned, RoomLeft
<1>4. LastCounts' /\ ReportLast'
  BY DEF Succeed, End, node, LastCounts, ReportLast
<1>5. ReportHonest'
  BY DEF Succeed, End, Answer, node, LastCounts, ReportHonest
<1>6. QED
  BY <1>1, <1>2, <1>3, <1>4, <1>5

LEMMA InterruptInv == ASSUME IInv, Interrupt PROVE IInv'
<1> USE DEF IInv
<1>1. TypeOK'
  BY DEF Interrupt, TypeOK, node, Places
<1>2. NothingBefore' /\ ApprovedPlan' /\ ApprovedList' /\ ValidRequest'
  BY DEF Interrupt, node, NothingBefore, ApprovedPlan, ApprovedList,
         ValidRequest, Planning, Executing, Limit
<1>3. AmountsPlanned' /\ RoomLeft'
  BY DEF Interrupt, node, AmountsPlanned, RoomLeft
<1>4. LastCounts' /\ ReportLast' /\ ReportHonest'
  BY DEF Interrupt, Answer, node, LastCounts, ReportLast, ReportHonest
<1>5. QED
  BY <1>1, <1>2, <1>3, <1>4

-----------------------------------------------------------------------------
(* LND.                                                                      *)

\* A payment that gets its outcome keeps its place and its amount.
LEMMA OutcomeOfPayment ==
    ASSUME NEW s \in Seq(Payment), NEW i \in DOMAIN s, NEW t, NEW r \in Payment,
           r.amount = s[i].amount, t = [s EXCEPT ![i] = r]
    PROVE  /\ t \in Seq(Payment)
           /\ Len(t) = Len(s)
           /\ DOMAIN t = DOMAIN s
           /\ t # <<>>
           /\ t[i] = r
           /\ \A j \in DOMAIN s : t[j].amount = s[j].amount
           /\ \A j \in DOMAIN s : j # i => t[j] = s[j]
<1>1. t \in Seq(Payment) /\ Len(t) = Len(s) /\ DOMAIN t = DOMAIN s
  OBVIOUS
<1>2. t[i] = r /\ \A j \in DOMAIN s : j # i => t[j] = s[j]
  OBVIOUS
<1>3. t # <<>>
  BY <1>1
<1>4. QED
  BY <1>1, <1>2, <1>3

LEMMA AmountsTyped ==
    ASSUME IInv, NEW i \in DOMAIN payments
    PROVE  payments[i].amount \in Nat
<1>1. payments[i] \in Payment
  BY DEF IInv, TypeOK
<1>2. QED
  BY <1>1 DEF Payment

\* The outcome of a payment on its way, whatever becomes of the balances.
LEMMA OutcomeInv ==
    ASSUME IInv, NEW i \in DOMAIN payments, NEW r \in Payment,
           payments[i].state = "inflight",
           r.amount = payments[i].amount,
           r.state \in {"settled", "failed"},
           payments' = [payments EXCEPT ![i] = r],
           local' \in [Channels -> Nat],
           UNCHANGED <<command, traffic, offered, gaveUp>>
    PROVE  IInv'
<1> USE DEF IInv
<1>1. payments \in Seq(Payment)
  BY DEF TypeOK
<1>2. /\ payments' \in Seq(Payment)
      /\ Len(payments') = Len(payments)
      /\ DOMAIN payments' = DOMAIN payments
      /\ payments' # <<>>
      /\ payments'[i] = r
      /\ \A j \in DOMAIN payments : payments'[j].amount = payments[j].amount
      /\ \A j \in DOMAIN payments : j # i => payments'[j] = payments[j]
  BY <1>1, OutcomeOfPayment
<1>3. payments # <<>>
  BY <1>1
<1>4. TypeOK'
  BY <1>2 DEF TypeOK, command
<1>5. NothingBefore' /\ ApprovedPlan' /\ ApprovedList' /\ ValidRequest'
  BY <1>3 DEF command, NothingBefore, ApprovedPlan, ApprovedList, ValidRequest,
              Planning, Executing, Limit
<1>6. AmountsPlanned' /\ RoomLeft'
  BY <1>2 DEF command, AmountsPlanned, RoomLeft
<1>7. LastCounts'
  BY <1>2 DEF command, LastCounts
<1>8. ReportLast'
  BY DEF command, ReportLast
<1>9. ReportHonest'
  <2>1. report' = "complete" => payments'[Len(payments')].state = "settled"
    BY <1>1, <1>2 DEF command, ReportHonest, Answer
  <2>2. ASSUME report' = "failed", ~gaveUp' PROVE FALSE
    BY <2>2 DEF command, ReportHonest
  <2>3. QED
    BY <2>1, <2>2, <1>2 DEF ReportHonest, Answer
<1>10. QED
  BY <1>4, <1>5, <1>6, <1>7, <1>8, <1>9

LEMMA FailPaymentInv ==
    ASSUME IInv, NEW i \in DOMAIN payments, FailPayment(i)
    PROVE  IInv'
<1> DEFINE r == [payments[i] EXCEPT !.state = "failed"]
<1>1. payments[i] \in Payment
  BY DEF IInv, TypeOK
<1>2. /\ r \in Payment
      /\ r.amount = payments[i].amount
      /\ r.state = "failed"
  BY <1>1 DEF Payment
<1>3. payments' = [payments EXCEPT ![i] = r]
  BY DEF FailPayment
<1>4. local' \in [Channels -> Nat]
  BY DEF FailPayment, IInv, TypeOK
<1> HIDE DEF r
<1>5. QED
  BY <1>2, <1>3, <1>4, OutcomeInv DEF FailPayment

LEMMA SettleInv ==
    ASSUME RebalanceAssumption, IInv, NEW i \in DOMAIN payments,
           NEW fee \in Nat, Settle(i, fee)
    PROVE  IInv'
<1> DEFINE r == [payments[i] EXCEPT !.state = "settled", !.fee = fee]
<1>1. payments[i] \in Payment
  BY DEF IInv, TypeOK
<1>2. /\ r \in Payment
      /\ r.amount = payments[i].amount
      /\ r.state = "settled"
  BY <1>1 DEF Payment
<1>3. payments' = [payments EXCEPT ![i] = r]
  BY DEF Settle
<1>4. local' \in [Channels -> Nat]
  <2>1. payments # <<>>
    BY DEF IInv, TypeOK
  <2>2. source \in Channels /\ sink \in Channels
    BY <2>1 DEF IInv, ApprovedPlan
  <2>3. payments[i].amount \in Nat
    BY <1>1 DEF Payment
  <2>4. local \in [Channels -> Nat]
    BY DEF IInv, TypeOK
  <2>5. payments[i].amount + fee <= local[source]
    BY DEF Settle
  <2>6. \A c \in Channels :
            local[c] - (IF c = source THEN payments[i].amount + fee ELSE 0)
                     + (IF c = sink THEN payments[i].amount ELSE 0) \in Nat
    BY <2>2, <2>3, <2>4, <2>5
  <2>7. QED
    BY <2>6 DEF Settle
<1> HIDE DEF r
<1>5. QED
  BY <1>2, <1>3, <1>4, OutcomeInv DEF Settle

LEMMA RouteInv ==
    ASSUME RebalanceAssumption, IInv, NEW c \in Channels,
           NEW balance \in Balances, Route(c, balance)
    PROVE  IInv'
<1> USE DEF IInv
<1>1. TypeOK'
  BY DEF Route, command, TypeOK, RebalanceAssumption
<1>2. NothingBefore' /\ ApprovedPlan' /\ ApprovedList' /\ ValidRequest'
  BY DEF Route, command, NothingBefore, ApprovedPlan, ApprovedList,
         ValidRequest, Limit
<1>3. AmountsPlanned' /\ RoomLeft' /\ LastCounts'
  BY DEF Route, command, AmountsPlanned, RoomLeft, LastCounts
<1>4. ReportLast' /\ ReportHonest'
  BY DEF Route, command, ReportLast, ReportHonest, Answer
<1>5. QED
  BY <1>1, <1>2, <1>3, <1>4

LEMMA StutterInv == ASSUME IInv, UNCHANGED vars PROVE IInv'
<1> USE DEF IInv, vars, command, node
<1>1. TypeOK'
  BY DEF TypeOK
<1>2. NothingBefore' /\ ApprovedPlan' /\ ApprovedList' /\ ValidRequest'
  BY DEF NothingBefore, ApprovedPlan, ApprovedList, ValidRequest, Limit
<1>3. AmountsPlanned' /\ RoomLeft' /\ LastCounts'
  BY DEF AmountsPlanned, RoomLeft, LastCounts
<1>4. ReportLast' /\ ReportHonest'
  BY DEF ReportLast, ReportHonest, Answer
<1>5. QED
  BY <1>1, <1>2, <1>3, <1>4

-----------------------------------------------------------------------------
LEMMA NextInv == ASSUME RebalanceAssumption, IInv, [Next]_vars PROVE IInv'
<1>1. ASSUME NEW amount \in Requests \cup {NoAmount}, NEW dry \in BOOLEAN,
             Start(amount, dry)
      PROVE  IInv'
  BY <1>1, StartInv
<1>2. CASE Confirm
  BY <1>2, ConfirmInv
<1>3. CASE Decline
  BY <1>3, EndedEarly DEF Decline, Planning
<1>4. CASE CommandStep
  <2>1. CASE ListAndStop
    BY <2>1, EndedEarly DEF ListAndStop, Planning
  <2>2. ASSUME NEW c \in Channels, NEW d \in Channels, ListAndPlan(c, d)
        PROVE  IInv'
    BY <2>2, PlanInv
  <2>3. CASE AddInvoice
    BY <2>3, AddInvoiceInv
  <2>4. CASE AddInvoiceFails
    BY <2>4, AddInvoiceFailsInv
  <2>5. CASE SendPayment
    BY <2>5, SendPaymentInv
  <2>6. CASE SendFails
    BY <2>6, SendFailsInv
  <2>7. CASE Succeed
    BY <2>7, SucceedInv
  <2>8. CASE Refused
    BY <2>8, RefusedInv
  <2>9. CASE GiveUp
    BY <2>9, GiveUpInv
  <2>10. QED
    BY <1>4, <2>1, <2>2, <2>3, <2>4, <2>5, <2>6, <2>7, <2>8, <2>9
       DEF CommandStep
<1>5. ASSUME NEW i \in DOMAIN payments,
             NEW fee \in {0, FeeLimit(payments[i].amount)}, Settle(i, fee)
      PROVE  IInv'
  <2>1. payments[i].amount \in Nat
    BY AmountsTyped
  <2>2. fee \in Nat
    BY <2>1, FeeIsNat
  <2>3. QED
    BY <1>5, <2>2, SettleInv
<1>6. ASSUME NEW i \in DOMAIN payments, FailPayment(i) PROVE IInv'
  BY <1>6, FailPaymentInv
<1>7. ASSUME NEW c \in Channels, NEW balance \in Balances, Route(c, balance)
      PROVE  IInv'
  BY <1>7, RouteInv
<1>8. CASE Interrupt
  BY <1>8, InterruptInv
<1>9. CASE UNCHANGED vars
  BY <1>9, StutterInv
<1>10. QED
  BY <1>1, <1>2, <1>3, <1>4, <1>5, <1>6, <1>7, <1>8, <1>9 DEF Next

\* The inductive invariant holds of every behaviour.
THEOREM Inductive == Spec => []IInv
<1>1. Init => IInv
  BY InitInv, RebalanceAssumption
<1>2. IInv /\ [Next]_vars => IInv'
  BY NextInv, RebalanceAssumption
<1>3. QED
  BY <1>1, <1>2, PTL DEF Spec

\* Every variable keeps its type, and no plan or attempt is below 5,000 sat.
THEOREM TypeCorrect == Spec => []TypeOK
BY Inductive, PTL DEF IInv

\* Nothing is sent that the operator has not approved and the audit log does
\* not have, and nothing larger (prepare, confirm, audit, execute).
THEOREM OnlyApprovedPayments == Spec => []PaymentsApproved
<1>1. IInv => PaymentsApproved
  <2> SUFFICES ASSUME IInv, payments # <<>>
               PROVE  /\ ~dryRun
                      /\ requested \in audited
                      /\ \A i \in DOMAIN payments : payments[i].amount <= Limit
    BY DEF PaymentsApproved, Limit
  <2>1. ~dryRun /\ requested \in audited /\ planned <= Limit
    BY DEF IInv, ApprovedPlan
  <2>2. ASSUME NEW i \in DOMAIN payments PROVE payments[i].amount <= Limit
    <3>1. payments[i].amount \in Nat /\ planned \in Nat
      BY AmountsTyped DEF IInv, TypeOK
    <3>2. Limit \in Int
      BY <2>1, RebalanceAssumption DEF Limit, IInv, TypeOK, LargestAuto
    <3>3. payments[i].amount <= planned
      BY DEF IInv, AmountsPlanned
    <3>4. QED
      BY <2>1, <3>1, <3>2, <3>3
  <2>3. QED
    BY <2>1, <2>2
<1>2. QED
  BY <1>1, Inductive, PTL

\* However many halved attempts LND is left with, together they stay below
\* twice the plan.
THEOREM AttemptsBounded == Spec => []OfferedBounded
<1>1. IInv => OfferedBounded
  BY DEF IInv, RoomLeft, OfferedBounded
<1>2. QED
  BY <1>1, Inductive, PTL

\* While LND answers in time, a command pays once at most.
THEOREM AtMostOnePayment == Spec => []PaysOnce
<1>1. IInv => PaysOnce
  BY DEF IInv, LastCounts, PaysOnce
<1>2. QED
  BY <1>1, Inductive, PTL

\* What the operator is told in the end is what has happened.
THEOREM HonestReport == Spec => []ReportHonest
BY Inductive, PTL DEF IInv

=============================================================================
