---------------------------- MODULE WriteCommands ----------------------------
(***************************************************************************)
(* The commands of the mercury CLI that move funds or change the node: an    *)
(* on-chain payment, a Lightning payment, a channel open, a channel close    *)
(* and a fee update (cli/mercury).  A session is one execution of a command: *)
(* it makes a plan from what LND says, has the operator approve it, writes   *)
(* the audit line, and lets the tool registry (registry.py) hand the plan to *)
(* one call of lncli (lnd.py), which it gives up after a timeout while LND   *)
(* goes on.  Sessions are independent processes on one node.                 *)
(***************************************************************************)
EXTENDS Naturals, SequencesExt

CONSTANTS
    Sessions,
    Amounts,      \* what an operator may ask to send or to put in a channel
    MaxOperation, \* MAX_OPERATION_SAT
    EstimatedFee, \* of prepare_send
    Fees,         \* what a transaction may cost in the end
    Funds,        \* the confirmed balance at first
    Reserved,     \* reserved_balance_anchor_chan
    Invoices,
    Open,         \* the open channels at first, in the order LND lists them
    Targets,      \* what an operator may name: sets of channels that match
    Nothing

Channels == {Open[i] : i \in DOMAIN Open}

ASSUME WriteAssumption ==
    /\ Amounts \cup Fees \subseteq Nat
    /\ {MaxOperation, EstimatedFee, Funds, Reserved} \subseteq Nat
    /\ Open \in Seq(Channels)
    /\ Targets \subseteq SUBSET Channels
    /\ Nothing \notin Nat \cup Invoices \cup Channels \cup {"policy"}

\* What the operator types.
Commands ==
    [kind : {"send", "open"}, what : Amounts]
    \cup [kind : {"pay"}, what : Invoices]
    \cup [kind : {"close"}, what : Targets]
    \cup [kind : {"fees"}, what : {"policy"}]

\* What the operator approves: an amount that is safe, one channel to close.
Plans ==
    [kind : {"send"}, what : {n \in Amounts : n \in 1 .. MaxOperation}]
    \cup [kind : {"open"}, what : {n \in Amounts : n \in 20000 .. MaxOperation}]
    \cup [kind : {"pay"}, what : Invoices]
    \cup [kind : {"close"}, what : Channels]
    \cup [kind : {"fees"}, what : {"policy"}]

NoPlan == [kind |-> "none", what |-> Nothing]

VARIABLES
    command,
    pc,
    plan,
    audit,    \* the plans in the audit log, by session
    told,     \* what the operator is told: "done", "failed", or "nothing"
    \* the calls, as LND has them
    call,     \* "none", "sent", "performed", "refused"
    \* LND
    wallet,   \* confirmed balance
    paid,     \* invoices
    channels, \* as listed
    log       \* history: what LND has done for each session, oldest first

sessionVars == <<command, pc, plan, audit, told>>
lndVars == <<wallet, paid, channels, log>>
vars == <<sessionVars, call, lndVars>>

Init ==
    /\ command \in [Sessions -> Commands]
    /\ pc = [s \in Sessions |-> "start"]
    /\ plan = [s \in Sessions |-> NoPlan]
    /\ audit = [s \in Sessions |-> NoPlan]
    /\ told = [s \in Sessions |-> "nothing"]
    /\ call = [s \in Sessions |-> "none"]
    /\ wallet = Funds
    /\ paid = {}
    /\ channels = Open
    /\ log = [s \in Sessions |-> <<>>]

Move(s, from, to) == pc[s] = from /\ pc' = [pc EXCEPT ![s] = to]

End(s, report) ==
    /\ pc' = [pc EXCEPT ![s] = "ended"]
    /\ told' = [told EXCEPT ![s] = report]
    /\ UNCHANGED <<command, plan, audit, call, lndVars>>

-----------------------------------------------------------------------------
(* The plan.                                                                 *)

Propose(s, what) ==
    /\ Move(s, "start", "asking")
    /\ plan' = [plan EXCEPT ![s] = [kind |-> command[s].kind, what |-> what]]
    /\ UNCHANGED <<command, audit, told, call, lndVars>>

\* Slip: nothing is too little.
UnsafeAmount(n, minimum) == n <= MaxOperation

SafeAmount(n, minimum) == minimum <= n /\ n <= MaxOperation

PrepareSend(s) ==
    /\ command[s].kind = "send"
    /\ SafeAmount(command[s].what, 1)
    /\ wallet >= command[s].what + EstimatedFee
    /\ Propose(s, command[s].what)

\* No fee is counted, but the reserve is.
PrepareOpen(s) ==
    /\ command[s].kind = "open"
    /\ SafeAmount(command[s].what, 20000)
    /\ wallet >= command[s].what + Reserved
    /\ Propose(s, command[s].what)

PreparePay(s) == command[s].kind = "pay" /\ Propose(s, command[s].what)

PrepareFees(s) == command[s].kind = "fees" /\ Propose(s, command[s].what)

\* The first channel listed that matches.
FirstMatch(s) ==
    {i \in DOMAIN channels :
        /\ channels[i] \in command[s].what
        /\ \A j \in 1 .. i - 1 : channels[j] \notin command[s].what}

PrepareClose(s) ==
    /\ command[s].kind = "close"
    /\ \E i \in FirstMatch(s) : Propose(s, channels[i])

\* A value out of range, too little money, no channel, or lncli fails.
NotPrepared(s) == pc[s] = "start" /\ End(s, "nothing")

-----------------------------------------------------------------------------
(* Approval and the call.                                                    *)

\* Slip: the line is written after the call.
ApproveUnaudited(s) ==
    /\ Move(s, "asking", "approved")
    /\ UNCHANGED <<command, plan, audit, told, call, lndVars>>

\* "yes", and the line is in the log.
Approve(s) ==
    /\ Move(s, "asking", "approved")
    /\ audit' = [audit EXCEPT ![s] = plan[s]]
    /\ UNCHANGED <<command, plan, told, call, lndVars>>

\* Another answer, end of input, or a log that cannot be written.
Decline(s) == pc[s] = "asking" /\ End(s, "nothing")

\* A channel open connects to the peer first, and goes on if that fails.
Connect(s) ==
    /\ plan[s].kind = "open"
    /\ Move(s, "approved", "connected")
    /\ UNCHANGED <<command, plan, audit, told, call, lndVars>>

\* Slip: the channel is looked for again by what the operator typed.
CallByTarget(s) ==
    /\ IF plan[s].kind = "open" THEN Move(s, "connected", "waiting")
       ELSE Move(s, "approved", "waiting")
    /\ call' = [call EXCEPT ![s] = "sent"]
    /\ \/ /\ plan[s].kind = "close"
          /\ \E i \in FirstMatch(s) :
                 plan' = [plan EXCEPT ![s].what = channels[i]]
       \/ plan[s].kind # "close" /\ UNCHANGED plan
    /\ UNCHANGED <<command, audit, told, lndVars>>

Call(s) ==
    /\ IF plan[s].kind = "open" THEN Move(s, "connected", "waiting")
       ELSE Move(s, "approved", "waiting")
    /\ call' = [call EXCEPT ![s] = "sent"]
    /\ UNCHANGED <<command, plan, audit, told, lndVars>>

\* Slip: anything that can be read is taken for a success.
AnsweredAnyhow(s) ==
    pc[s] = "waiting" /\ call[s] \in {"performed", "refused"} /\ End(s, "done")

\* lncli's exit status, and for a payment its status.
Answered(s) ==
    /\ pc[s] = "waiting"
    /\ \/ call[s] = "performed" /\ End(s, "done")
       \/ call[s] = "refused" /\ End(s, "failed")

\* LND has answered, but not in JSON.
Unreadable(s) == pc[s] = "waiting" /\ call[s] = "performed" /\ End(s, "failed")

\* Slip: after a timeout the call is made once more.
CallsAgain(s) ==
    /\ pc[s] = "waiting"
    /\ call' = [call EXCEPT ![s] = "sent"]
    /\ UNCHANGED <<sessionVars, lndVars>>

\* 15, 30 or 60 seconds: lncli is killed.  No lncli is an error at once.
TimesOut(s) == pc[s] = "waiting" /\ End(s, "failed")

\* Ctrl-C, or the terminal is closed.
Interrupt(s) == pc[s] \notin {"start", "ended"} /\ End(s, "nothing")

-----------------------------------------------------------------------------
(* LND, which may come to a call after the session has given it up, or never. *)

Performs(s) ==
    /\ call[s] = "sent"
    /\ call' = [call EXCEPT ![s] = "performed"]
    /\ log' = [log EXCEPT ![s] = Append(@, plan[s])]
    /\ UNCHANGED sessionVars

\* It spends what there is, less the reserve.
Spends(s) ==
    /\ plan[s].kind \in {"send", "open"}
    /\ \E fee \in Fees :
           /\ wallet >= plan[s].what + fee + Reserved
           /\ wallet' = wallet - (plan[s].what + fee)
    /\ Performs(s)
    /\ UNCHANGED <<paid, channels>>

\* It pays an invoice once.
Pays(s) ==
    /\ plan[s].kind = "pay"
    /\ plan[s].what \notin paid
    /\ paid' = paid \cup {plan[s].what}
    /\ Performs(s)
    /\ UNCHANGED <<wallet, channels>>

Closes(s) ==
    /\ plan[s].kind = "close"
    /\ \E i \in DOMAIN channels :
           /\ channels[i] = plan[s].what
           /\ channels' = SubSeq(channels, 1, i - 1)
                             \o SubSeq(channels, i + 1, Len(channels))
    /\ Performs(s)
    /\ UNCHANGED <<wallet, paid>>

Updates(s) ==
    /\ plan[s].kind = "fees"
    /\ Performs(s)
    /\ UNCHANGED <<wallet, paid, channels>>

Refuses(s) ==
    /\ call[s] = "sent"
    /\ call' = [call EXCEPT ![s] = "refused"]
    /\ UNCHANGED <<sessionVars, lndVars>>

Prepare(s) ==
    \/ PrepareSend(s) \/ PrepareOpen(s) \/ PreparePay(s) \/ PrepareFees(s)
    \/ PrepareClose(s) \/ NotPrepared(s)

Lnd(s) == Spends(s) \/ Pays(s) \/ Closes(s) \/ Updates(s) \/ Refuses(s)

Execute(s) ==
    Connect(s) \/ Call(s) \/ Answered(s) \/ Unreadable(s) \/ TimesOut(s)

Next ==
    \E s \in Sessions :
        \/ Prepare(s) \/ Approve(s) \/ Decline(s) \/ Execute(s)
        \/ Interrupt(s) \/ Lnd(s)

Spec == Init /\ [][Next]_vars

-----------------------------------------------------------------------------
(* Properties.                                                               *)

\* Every variable holds values of its type.
TypeOK ==
    /\ command \in [Sessions -> Commands]
    /\ pc \in [Sessions -> {"start", "asking", "approved", "connected",
                            "waiting", "ended"}]
    /\ plan \in [Sessions -> Plans \cup {NoPlan}]
    /\ audit \in [Sessions -> Plans \cup {NoPlan}]
    /\ told \in [Sessions -> {"nothing", "done", "failed"}]
    /\ call \in [Sessions -> {"none", "sent", "performed", "refused"}]
    /\ wallet \in 0 .. Funds
    /\ paid \subseteq Invoices
    /\ channels \in Seq(Channels)
    /\ log \in [Sessions -> Seq(Plans)]

\* Whatever LND does, it does once for an approval in the audit log, and what
\* that approval says: the same amount, the same channel, also when the
\* channels have changed since it was shown.
OnlyApproved ==
    \A s \in Sessions : log[s] # <<>> => log[s] = <<audit[s]>>

\* "done" is true, and so is "failed" when LND has refused; "failed" of what
\* LND does all the same comes of a timeout or an answer that cannot be read.
ReportTrue ==
    \A s \in Sessions :
        /\ told[s] = "done" => log[s] # <<>>
        /\ call[s] = "refused" => told[s] # "done"

-----------------------------------------------------------------------------
(* What the operator is promised.                                            *)

Promise == INSTANCE ApprovedOnce WITH
    granted <- audit,
    times <- [s \in Sessions |-> Len(log[s])],
    done <- [s \in Sessions |-> ToSet(log[s])],
    told <- {s \in Sessions : told[s] = "done"}

\* Whatever LND does, and whenever: an approval never changes once it is in the
\* audit log, what it is of is done once at most, as approved, and "done" is
\* said after that and never taken back.
PromiseSpec == Promise!Spec

=============================================================================
