------------------------------ MODULE Rebalance ------------------------------
(***************************************************************************)
(* `mercury rebalance [--amount SAT] [--dry-run]` (cmd_rebalance,            *)
(* _cmd_rebalance): after the operator's approval the command reads the      *)
(* channels, picks the fullest and the emptiest, and pays an invoice of the  *)
(* node itself out of the one and into the other.  An attempt that fails is  *)
(* repeated with half the amount.                                            *)
(*                                                                           *)
(* lncli is killed after 120 s (LndClient.run), LND does not notice: the     *)
(* payment goes on, and the command with the next attempt.  Balances also    *)
(* change by payments others route through the node.                         *)
(***************************************************************************)
EXTENDS Integers, Sequences

CONSTANTS
    NumChannels,   \* the channels are numbered in the order LND lists them
    Capacity,      \* capacity of each
    Reserve,       \* local_chan_reserve_sat of each
    Requests,      \* the values of --amount an operator may give
    NoAmount,      \* no --amount
    MaxOperation,  \* MAX_OPERATION_SAT
    Balances,      \* bound: the balances routed payments leave
    MaxTraffic     \* bound: how often they change a balance

Channels == 1 .. NumChannels
Smallest == 5000              \* no plan is smaller
SmallestRetry == 50000        \* no second attempt is smaller
LargestAuto == 200000

ASSUME RebalanceAssumption ==
    /\ NumChannels \in Nat
    /\ Capacity \in [Channels -> Nat \ {0}]
    /\ Reserve \in [Channels -> Nat]
    /\ Requests \subseteq Int
    /\ NoAmount \notin Int
    /\ MaxOperation \in Nat
    /\ Balances \subseteq Nat
    /\ MaxTraffic \in Nat

VARIABLES
    pc,
    requested,  \* args.amount
    dryRun,     \* args.dry_run
    audited,    \* the approvals in the audit log, by amount
    source,     \* the channel paid out of
    sink,       \* the channel paid into
    planned,    \* the amount of the plan
    attempt,    \* attempt_amt
    report,     \* what the operator is told in the end
    \* the node
    local,      \* local_balance of each channel
    payments,   \* the payments LND was given, oldest first
    traffic,    \* how often a balance has changed
    \* history
    offered,    \* the amounts of all payments LND was given
    gaveUp      \* an attempt ended without the answer of LND

command == <<pc, requested, dryRun, audited, source, sink, planned, attempt,
             report>>
node == <<local, payments, traffic, offered>>
vars == <<command, node, gaveUp>>

None == 0
Places == {"start", "confirm", "list", "invoice", "pay", "waiting", "ended"}
Reports == {"none", "nothing", "complete", "failed"}
Payment == [amount : Nat, fee : Nat, state : {"inflight", "settled", "failed"}]

Init ==
    /\ pc = "start"
    /\ requested = NoAmount
    /\ dryRun = FALSE
    /\ audited = {}
    /\ source = None
    /\ sink = None
    /\ planned = 0
    /\ attempt = 0
    /\ report = "none"
    /\ local \in [Channels -> Balances]
    /\ \A c \in Channels : local[c] <= Capacity[c]
    /\ payments = <<>>
    /\ traffic = 0
    /\ offered = 0
    /\ gaveUp = FALSE

End(told) == pc' = "ended" /\ report' = told

-----------------------------------------------------------------------------
(* The operator's side.                                                      *)

\* validate_amount, minimum 5,000.
Valid(amount) ==
    amount = NoAmount \/ (Smallest <= amount /\ amount <= MaxOperation)

\* A dry run is not asked for approval.
Start(amount, dry) ==
    /\ pc = "start"
    /\ requested' = amount
    /\ dryRun' = dry
    /\ IF ~Valid(amount) THEN End("nothing")
       ELSE pc' = (IF dry THEN "list" ELSE "confirm") /\ UNCHANGED report
    /\ UNCHANGED <<audited, source, sink, planned, attempt, node, gaveUp>>

\* Slip: a line that cannot be written to the audit log stops nothing.
GoOnUnaudited ==
    /\ pc = "confirm"
    /\ pc' = "list"
    /\ UNCHANGED <<requested, dryRun, audited, source, sink, planned, attempt,
                   report, node, gaveUp>>

\* The operator types yes and the audit log has the line.
Confirm ==
    /\ pc = "confirm"
    /\ audited' = audited \cup {requested}
    /\ pc' = "list"
    /\ UNCHANGED <<requested, dryRun, source, sink, planned, attempt, report,
                   node, gaveUp>>

\* Any other answer, or an audit log that cannot be written.
Decline ==
    /\ pc = "confirm"
    /\ End("nothing")
    /\ UNCHANGED <<requested, dryRun, audited, source, sink, planned, attempt,
                   node, gaveUp>>

-----------------------------------------------------------------------------
(* The plan, from the balances LND lists.                                    *)

Least(a, b) == IF a <= b THEN a ELSE b
Greatest(a, b) == IF a <= b THEN b ELSE a

\* Local balance in tenths of a percent of the capacity, as round(_, 1) gives
\* it, but for ties.
Share(c) == (2000 * local[c] + Capacity[c]) \div (2 * Capacity[c])
Remote(c) == Capacity[c] - local[c]
Spendable(c) == Greatest(0, local[c] - Reserve[c] - 1000)

Sources == {c \in Channels : Share(c) >= 600}
Sinks == {c \in Channels : Share(c) <= 200}

\* max() takes the first of equals.
IsSource(c) ==
    /\ c \in Sources
    /\ \A d \in Sources : Share(d) < Share(c) \/ (Share(d) = Share(c) /\ c <= d)

IsSink(c) ==
    /\ c \in Sinks
    /\ \A d \in Sinks :
           Remote(d) < Remote(c) \/ (Remote(d) = Remote(c) /\ c <= d)

\* Half of the capacity is to stay.
AutoAmount(c) ==
    Least(Greatest(0, local[c] - (Capacity[c] \div 2)), LargestAuto)

PlanAmount(c) ==
    Least(IF requested = NoAmount THEN AutoAmount(c) ELSE requested,
          Spendable(c))

\* Slip: the smallest amount is not looked at.
NoPairOfChannels == Sources = {} \/ Sinks = {}

NothingToPlan ==
    \/ Sources = {}
    \/ Sinks = {}
    \/ \E c \in Channels : IsSource(c) /\ PlanAmount(c) < Smallest

\* listchannels fails, nothing can be planned, or it is a dry run.
ListAndStop ==
    /\ pc = "list"
    /\ End("nothing")
    /\ UNCHANGED <<requested, dryRun, audited, source, sink, planned, attempt,
                   node, gaveUp>>

ListAndPlan(c, d) ==
    /\ pc = "list"
    /\ ~dryRun
    /\ ~NothingToPlan
    /\ IsSource(c)
    /\ IsSink(d)
    /\ source' = c
    /\ sink' = d
    /\ planned' = PlanAmount(c)
    /\ attempt' = PlanAmount(c)
    /\ pc' = "invoice"
    /\ UNCHANGED <<requested, dryRun, audited, report, node, gaveUp>>

-----------------------------------------------------------------------------
(* The attempts.                                                             *)

AddInvoice ==
    /\ pc = "invoice"
    /\ pc' = "pay"
    /\ UNCHANGED <<requested, dryRun, audited, source, sink, planned, attempt,
                   report, node, gaveUp>>

\* The command returns; attempts before may have failed.
AddInvoiceFails ==
    /\ pc = "invoice"
    /\ End("failed")
    /\ UNCHANGED <<requested, dryRun, audited, source, sink, planned, attempt,
                   node, gaveUp>>

FeeLimit(amount) == Greatest(50, amount \div 200)

SendPayment ==
    /\ pc = "pay"
    /\ pc' = "waiting"
    /\ payments' = Append(payments, [amount |-> attempt, fee |-> 0,
                                     state |-> "inflight"])
    /\ offered' = offered + attempt
    /\ UNCHANGED <<requested, dryRun, audited, source, sink, planned, attempt,
                   report, local, traffic, gaveUp>>

\* Slip: the amount is lowered by a step instead of halved.
OneStepLess == attempt - SmallestRetry

Halved == attempt \div 2

\* The next attempt, if it is not too small.
TryLess ==
    /\ IF Halved >= SmallestRetry
       THEN pc' = "invoice" /\ attempt' = Halved /\ UNCHANGED report
       ELSE End("failed") /\ UNCHANGED attempt
    /\ UNCHANGED <<requested, dryRun, audited, source, sink, planned>>

\* The connection fails: LND never hears of the payment.
SendFails ==
    /\ pc = "pay"
    /\ TryLess
    /\ UNCHANGED <<node, gaveUp>>

Answer == payments[Len(payments)].state

\* Slip: the loop does not end with the first success.
GoOnAfterSuccess ==
    /\ pc = "waiting"
    /\ Answer = "settled"
    /\ TryLess
    /\ UNCHANGED <<node, gaveUp>>

Succeed ==
    /\ pc = "waiting"
    /\ Answer = "settled"
    /\ End("complete")
    /\ UNCHANGED <<requested, dryRun, audited, source, sink, planned, attempt,
                   node, gaveUp>>

\* Slip: the error is not looked at.
TakeErrorForSuccess ==
    /\ pc = "waiting"
    /\ Answer = "failed"
    /\ End("complete")
    /\ UNCHANGED <<requested, dryRun, audited, source, sink, planned, attempt,
                   node, gaveUp>>

\* lncli ends with an error: the payment has failed.
Refused ==
    /\ pc = "waiting"
    /\ Answer = "failed"
    /\ TryLess
    /\ UNCHANGED <<node, gaveUp>>

\* Slip: no timeout is given to lncli.
NeverGiveUp == FALSE /\ UNCHANGED vars

\* lncli is killed after 120 s, or its output cannot be read.
GiveUp ==
    /\ pc = "waiting"
    /\ Answer # "failed"
    /\ gaveUp' = TRUE
    /\ TryLess
    /\ UNCHANGED node

-----------------------------------------------------------------------------
(* LND (external), as the command uses it.                                   *)

\* A payment is paid once, within its fee limit and the balances.
Settle(i, fee) ==
    LET amount == payments[i].amount
    IN  /\ payments[i].state = "inflight"
        /\ amount + fee <= local[source]
        /\ amount <= Remote(sink)
        /\ payments' = [payments EXCEPT ![i].state = "settled", ![i].fee = fee]
        /\ local' = [c \in Channels |->
                         local[c] - (IF c = source THEN amount + fee ELSE 0)
                                  + (IF c = sink THEN amount ELSE 0)]
        /\ UNCHANGED <<command, traffic, offered, gaveUp>>

FailPayment(i) ==
    /\ payments[i].state = "inflight"
    /\ payments' = [payments EXCEPT ![i].state = "failed"]
    /\ UNCHANGED <<command, local, traffic, offered, gaveUp>>

Route(c, balance) ==
    /\ traffic < MaxTraffic
    /\ balance <= Capacity[c]
    /\ local' = [local EXCEPT ![c] = balance]
    /\ traffic' = traffic + 1
    /\ UNCHANGED <<command, payments, offered, gaveUp>>

-----------------------------------------------------------------------------
\* Control-C, or the terminal is closed: LND keeps what it was given.
Interrupt ==
    /\ pc \in {"list", "invoice", "pay", "waiting"}
    /\ pc' = "ended"
    /\ UNCHANGED <<requested, dryRun, audited, source, sink, planned, attempt,
                   report, node, gaveUp>>

CommandStep ==
    \/ ListAndStop
    \/ \E c, d \in Channels : ListAndPlan(c, d)
    \/ AddInvoice
    \/ AddInvoiceFails
    \/ SendPayment
    \/ SendFails
    \/ Succeed
    \/ Refused
    \/ GiveUp

Next ==
    \/ \E amount \in Requests \cup {NoAmount}, dry \in BOOLEAN :
           Start(amount, dry)
    \/ Confirm
    \/ Decline
    \/ CommandStep
    \/ Interrupt
    \/ \E i \in DOMAIN payments :
           \/ \E fee \in {0, FeeLimit(payments[i].amount)} : Settle(i, fee)
           \/ FailPayment(i)
    \/ \E c \in Channels, balance \in Balances : Route(c, balance)

Spec == Init /\ [][Next]_vars

\* The command runs on by itself once it is approved: lncli ends or is killed.
\* LND and the operator owe it nothing.
FairSpec == Spec /\ WF_vars(CommandStep)

-----------------------------------------------------------------------------
(* Properties.                                                               *)

\* Every variable holds values of its type, and no plan or attempt is smaller
\* than 5,000 sat.
TypeOK ==
    /\ pc \in Places
    /\ requested \in Requests \cup {NoAmount}
    /\ dryRun \in BOOLEAN
    /\ audited \subseteq Requests \cup {NoAmount}
    /\ source \in Channels \cup {None}
    /\ sink \in Channels \cup {None}
    /\ planned \in {0} \cup {a \in Nat : a >= Smallest}
    /\ attempt \in {0} \cup {a \in Nat : a >= Smallest}
    /\ report \in Reports
    /\ local \in [Channels -> Nat]
    /\ payments \in Seq(Payment)
    /\ traffic \in Nat
    /\ offered \in Nat
    /\ gaveUp \in BOOLEAN

\* No payment is sent without an approval in the audit log, none by a dry run,
\* and none is larger than the amount approved (200,000 sat for "auto").
PaymentsApproved ==
    payments # <<>> =>
        /\ ~dryRun
        /\ requested \in audited
        /\ \A i \in DOMAIN payments :
               payments[i].amount <=
                   (IF requested = NoAmount THEN LargestAuto ELSE requested)

\* However many attempts are given up while LND still tries them, together they
\* stay below twice the planned amount, however long the list of attempts.
OfferedBounded == offered <= 2 * planned

\* As long as LND answers in time, one command pays at most once.
PaysOnce ==
    ~gaveUp =>
        \A i, j \in DOMAIN payments :
            payments[i].state = "settled" /\ payments[j].state = "settled"
                => i = j

\* "Rebalance complete" is said of a payment that was made, "failed" only when
\* none was made, unless LND did not answer in time.
ReportHonest ==
    /\ report = "complete" => payments # <<>> /\ Answer = "settled"
    /\ report = "failed" /\ ~gaveUp =>
           \A i \in DOMAIN payments : payments[i].state = "failed"

\* An approved command comes to its end, whatever LND does.
Terminates == (pc = "list") ~> (pc = "ended")

=============================================================================
