-------------------------------- MODULE Magma --------------------------------
(***************************************************************************)
(* Buying inbound liquidity: the command `mercury magma buy` (cmd_magma,     *)
(* _cmd_magma), the routes /api/magma/buy and /api/magma/orders of the agent *)
(* (main.py), and Amboss, which keeps the orders.                            *)
(*                                                                           *)
(* The command waits 30 s for the agent, the agent 30 s for each part of the *)
(* answer of Amboss; whoever gives up is not noticed by the other.  The      *)
(* agent's handlers are coroutines of one event loop.  It keeps the orders   *)
(* in a file, which it truncates and writes anew for each; a truncated file  *)
(* reads as no orders.                                                       *)
(***************************************************************************)
EXTENDS Naturals, Sequences, FiniteSets

CONSTANTS
    Sessions,     \* executions of `mercury magma buy`
    Offers,       \* offer ids
    NoOffer,
    MaxStatus,    \* bound: how far an order gets at Amboss
    MaxRestarts   \* bound: how often the agent dies

ASSUME MagmaAssumption ==
    /\ NoOffer \notin Offers
    /\ MaxStatus \in Nat \ {0}
    /\ MaxRestarts \in Nat

VARIABLES
    \* the command, by session
    pc,
    audited,    \* the sessions with an approval in the audit log
    target,     \* the offer chosen
    told,       \* what the operator is told in the end
    \* the agent
    up,
    restarts,
    request,    \* where the handler of a session's request is
    writing,    \* the list of orders it is writing
    file,       \* ORDERS_FILE: the orders, in any order
    lost,       \* history: a write of the file was cut off
    \* the handler of /api/magma/orders
    lister,     \* "idle", "busy"
    cached,     \* the orders of the file it has yet to refresh
    results,
    due,        \* history: the orders whose requests were over when it began
    \* Amboss
    asked,      \* the requests on their way to it
    answer,     \* the order created for a session whose agent waits for it
    orders      \* all orders created; an order id is a place in this list

commandVars == <<pc, audited, target, told>>
listVars == <<lister, cached, results, due>>
agentVars == <<up, restarts, request, writing, file, lost>>
ambossVars == <<asked, answer, orders>>
vars == <<commandVars, listVars, agentVars, ambossVars>>

Places == {"start", "offers", "post", "waiting", "ended"}
Told == {"none", "nothing", "placed", "failed"}
Handling == {"queued", "calling", "writing"}
Over == {"placed", "failed"}
NoOrder == 0
Statuses == 1 .. MaxStatus

Order == [session : Sessions, offer : Offers, status : Statuses]
Entry == [order : Nat \ {NoOrder}, offer : Offers, status : Statuses]

Init ==
    /\ pc = [s \in Sessions |-> "start"]
    /\ audited = {}
    /\ target = [s \in Sessions |-> NoOffer]
    /\ told = [s \in Sessions |-> "none"]
    /\ up = TRUE
    /\ restarts = 0
    /\ request = [s \in Sessions |-> "none"]
    /\ writing = [s \in Sessions |-> {}]
    /\ file = {}
    /\ lost = FALSE
    /\ lister = "idle"
    /\ cached = {}
    /\ results = {}
    /\ due = {}
    /\ asked = {}
    /\ answer = [s \in Sessions |-> NoOrder]
    /\ orders = <<>>

-----------------------------------------------------------------------------
(* The command.                                                              *)

Goto(s, place) == pc' = [pc EXCEPT ![s] = place]

End(s, what) ==
    /\ Goto(s, "ended")
    /\ told' = [told EXCEPT ![s] = what]

\* The operator types yes, before any offer is known; the audit log has it.
Confirm(s) ==
    /\ pc[s] = "start"
    /\ Goto(s, "offers")
    /\ audited' = audited \cup {s}
    /\ UNCHANGED <<target, told, agentVars, listVars, ambossVars>>

\* Another answer, or an audit log that cannot be written.
Decline(s) ==
    /\ pc[s] = "start"
    /\ End(s, "nothing")
    /\ UNCHANGED <<audited, target, agentVars, listVars, ambossVars>>

\* Slip: that no offer matches is overlooked.
ChooseUnmatched(s, offer) ==
    /\ pc[s] = "offers"
    /\ up
    /\ Goto(s, "post")
    /\ UNCHANGED <<audited, target, told, agentVars, listVars, ambossVars>>

\* The first recommended offer, or the first that matches --node.
Choose(s, offer) ==
    /\ pc[s] = "offers"
    /\ up
    /\ target' = [target EXCEPT ![s] = offer]
    /\ Goto(s, "post")
    /\ UNCHANGED <<audited, told, agentVars, listVars, ambossVars>>

\* No API key, no agent, no offer, none that matches, or a size out of range.
ChooseNone(s) ==
    /\ pc[s] = "offers"
    /\ End(s, "nothing")
    /\ UNCHANGED <<audited, target, agentVars, listVars, ambossVars>>

Post(s) ==
    /\ pc[s] = "post"
    /\ up
    /\ Goto(s, "waiting")
    /\ request' = [request EXCEPT ![s] = "queued"]
    /\ UNCHANGED <<audited, target, told, up, restarts, writing, file, lost,
                   listVars, ambossVars>>

\* The connection is refused.
PostFails(s) ==
    /\ pc[s] = "post"
    /\ ~up
    /\ End(s, "failed")
    /\ UNCHANGED <<audited, target, agentVars, listVars, ambossVars>>

\* Slip: any answer of the agent is taken for a success.
AnsweredAnyhow(s) ==
    /\ pc[s] = "waiting"
    /\ request[s] \in Over
    /\ End(s, "placed")
    /\ UNCHANGED <<audited, target, agentVars, listVars, ambossVars>>

Answered(s) ==
    /\ pc[s] = "waiting"
    /\ request[s] \in Over
    /\ End(s, request[s])
    /\ UNCHANGED <<audited, target, agentVars, listVars, ambossVars>>

\* Slip: a request without an answer is sent again.
PostsAgain(s) ==
    /\ pc[s] = "waiting"
    /\ Goto(s, "post")
    /\ UNCHANGED <<audited, target, told, agentVars, listVars, ambossVars>>

\* 30 s have gone by, the agent goes on; or the connection has been cut.
TimesOut(s) ==
    /\ pc[s] = "waiting"
    /\ End(s, "failed")
    /\ UNCHANGED <<audited, target, agentVars, listVars, ambossVars>>

\* Control-C, or the terminal is closed.
Interrupt(s) ==
    /\ pc[s] # "ended"
    /\ Goto(s, "ended")
    /\ UNCHANGED <<audited, target, told, agentVars, listVars, ambossVars>>

CommandStep(s) ==
    \/ Confirm(s)
    \/ Decline(s)
    \/ \E offer \in Offers : Choose(s, offer)
    \/ ChooseNone(s)
    \/ Post(s)
    \/ PostFails(s)
    \/ Answered(s)
    \/ TimesOut(s)
    \/ Interrupt(s)

-----------------------------------------------------------------------------
(* /api/magma/buy.                                                           *)

\* Nothing else runs in the event loop while a handler writes the file.
Writers == {s \in Sessions : request[s] = "writing"}
LoopFree == Writers = {}

Handle(s, from, to) ==
    /\ up
    /\ request[s] = from
    /\ request' = [request EXCEPT ![s] = to]

\* LND gives the node's public key; the order goes to Amboss.
AskAmboss(s) ==
    /\ LoopFree
    /\ Handle(s, "queued", "calling")
    /\ asked' = asked \cup {s}
    /\ UNCHANGED <<commandVars, up, restarts, writing, file, lost, listVars,
                   answer, orders>>

AskFails(s) ==
    /\ LoopFree
    /\ Handle(s, "queued", "failed")
    /\ UNCHANGED <<commandVars, up, restarts, writing, file, lost, listVars,
                   ambossVars>>

\* Refused, timed out, unreadable or without an order: the handler raises.
\* What has become of the request at Amboss it does not know.
CallFails(s) ==
    /\ LoopFree
    /\ Handle(s, "calling", "failed")
    /\ answer' = [answer EXCEPT ![s] = NoOrder]
    /\ UNCHANGED <<commandVars, up, restarts, writing, file, lost, listVars,
                   asked, orders>>

EntryOf(s) ==
    [order |-> answer[s], offer |-> target[s],
     status |-> orders[answer[s]].status]

\* Slip: an order is deduplicated by its offer.
WithoutOffer(s) == {e \in file : e.offer # target[s]} \cup {EntryOf(s)}

\* The orders of the file but the new one, and the new one.
WithOrder(s) == {e \in file : e.order # answer[s]} \cup {EntryOf(s)}

\* _save_magma_order reads the file and opens it for writing.
BeginSave(s) ==
    /\ LoopFree
    /\ answer[s] # NoOrder
    /\ Handle(s, "calling", "writing")
    /\ writing' = [writing EXCEPT ![s] = WithOrder(s)]
    /\ file' = {}
    /\ UNCHANGED <<commandVars, up, restarts, lost, listVars, ambossVars>>

\* An OSError before the file is open: status 500.
BeginSaveFails(s) ==
    /\ LoopFree
    /\ answer[s] # NoOrder
    /\ Handle(s, "calling", "failed")
    /\ answer' = [answer EXCEPT ![s] = NoOrder]
    /\ UNCHANGED <<commandVars, up, restarts, writing, file, lost, listVars,
                   asked, orders>>

EndSave(s) ==
    /\ Handle(s, "writing", "placed")
    /\ file' = writing[s]
    /\ writing' = [writing EXCEPT ![s] = {}]
    /\ answer' = [answer EXCEPT ![s] = NoOrder]
    /\ UNCHANGED <<commandVars, up, restarts, lost, listVars, asked, orders>>

\* The disk is full.
EndSaveFails(s) ==
    /\ Handle(s, "writing", "failed")
    /\ lost' = TRUE
    /\ writing' = [writing EXCEPT ![s] = {}]
    /\ answer' = [answer EXCEPT ![s] = NoOrder]
    /\ UNCHANGED <<commandVars, up, restarts, file, listVars, asked, orders>>

BuyStep(s) ==
    \/ AskAmboss(s)
    \/ AskFails(s)
    \/ CallFails(s)
    \/ BeginSave(s)
    \/ BeginSaveFails(s)
    \/ EndSave(s)
    \/ EndSaveFails(s)

-----------------------------------------------------------------------------
(* /api/magma/orders.                                                        *)

BeginListing ==
    /\ up
    /\ LoopFree
    /\ lister = "idle"
    /\ lister' = "busy"
    /\ cached' = file
    /\ results' = {}
    /\ due' = {i \in DOMAIN orders : request[orders[i].session] \in Over}
    /\ UNCHANGED <<commandVars, agentVars, ambossVars>>

\* Slip: any order of the offer is taken for this one.
StatusesOfOffer(e) ==
    {orders[i].status : i \in {j \in DOMAIN orders : orders[j].offer = e.offer}}

\* The order's status at Amboss.
LiveStatuses(e) == {orders[e.order].status}

\* One order after another; the status of the file if Amboss does not answer.
Refresh(e) ==
    /\ up
    /\ LoopFree
    /\ lister = "busy"
    /\ e \in cached
    /\ cached' = cached \ {e}
    /\ \E status \in LiveStatuses(e) \cup {e.status} :
           results' = results \cup {[e EXCEPT !.status = status]}
    /\ UNCHANGED <<commandVars, agentVars, ambossVars, lister, due>>

Listed == lister = "busy" /\ cached = {}

EndListing ==
    /\ up
    /\ LoopFree
    /\ Listed
    /\ lister' = "idle"
    /\ results' = {}
    /\ due' = {}
    /\ UNCHANGED <<commandVars, agentVars, ambossVars, cached>>

-----------------------------------------------------------------------------
(* The agent's process.                                                      *)

\* A file that was being written may be whole nevertheless.
Crash ==
    /\ up
    /\ restarts < MaxRestarts
    /\ up' = FALSE
    /\ restarts' = restarts + 1
    /\ request' = [s \in Sessions |-> IF request[s] \in Handling THEN "failed"
                                      ELSE request[s]]
    /\ writing' = [s \in Sessions |-> {}]
    /\ answer' = [s \in Sessions |-> NoOrder]
    /\ lost' = (lost \/ ~LoopFree)
    /\ lister' = "idle"
    /\ cached' = {}
    /\ results' = {}
    /\ due' = {}
    /\ file' \in {file} \cup {writing[s] : s \in Writers}
    /\ UNCHANGED <<commandVars, asked, orders>>

\* Restart=on-failure.
Restart ==
    /\ ~up
    /\ up' = TRUE
    /\ UNCHANGED <<commandVars, restarts, request, writing, file, lost,
                   listVars, ambossVars>>

-----------------------------------------------------------------------------
(* Amboss (external), as the agent uses it.                                  *)

\* A request may be carried out after the agent has given it up.
Create(s) ==
    /\ s \in asked
    /\ asked' = asked \ {s}
    /\ orders' = Append(orders, [session |-> s, offer |-> target[s],
                                 status |-> 1])
    /\ answer' = IF request[s] = "calling"
                 THEN [answer EXCEPT ![s] = Len(orders) + 1] ELSE answer
    /\ UNCHANGED <<commandVars, agentVars, listVars>>

Refuse(s) ==
    /\ s \in asked
    /\ asked' = asked \ {s}
    /\ UNCHANGED <<commandVars, agentVars, listVars, answer, orders>>

Progress(i) ==
    /\ orders[i].status < MaxStatus
    /\ orders' = [orders EXCEPT ![i].status = @ + 1]
    /\ UNCHANGED <<commandVars, agentVars, listVars, asked, answer>>

Next ==
    \/ \E s \in Sessions :
           CommandStep(s) \/ BuyStep(s) \/ Create(s) \/ Refuse(s)
    \/ BeginListing
    \/ \E e \in cached : Refresh(e)
    \/ EndListing
    \/ Crash
    \/ Restart
    \/ \E i \in DOMAIN orders : Progress(i)

Spec == Init /\ [][Next]_vars

-----------------------------------------------------------------------------
(* Properties.                                                               *)

\* Every variable holds values of its type: no order is without an offer.
TypeOK ==
    /\ pc \in [Sessions -> Places]
    /\ audited \subseteq Sessions
    /\ target \in [Sessions -> Offers \cup {NoOffer}]
    /\ told \in [Sessions -> Told]
    /\ up \in BOOLEAN
    /\ restarts \in Nat
    /\ request \in [Sessions -> {"none"} \cup Handling \cup Over]
    /\ writing \in [Sessions -> SUBSET Entry]
    /\ file \subseteq Entry
    /\ lost \in BOOLEAN
    /\ lister \in {"idle", "busy"}
    /\ cached \subseteq Entry
    /\ results \subseteq Entry
    /\ due \subseteq Nat
    /\ asked \subseteq Sessions
    /\ answer \in [Sessions -> Nat]
    /\ orders \in Seq(Order)

\* Every order at Amboss was approved by the operator in a session of its own,
\* is for the offer that session chose, and is the only one of it, whoever
\* gave up waiting for whom; a command that says it did nothing ordered nothing.
OrdersApproved ==
    \A i \in DOMAIN orders :
        LET s == orders[i].session
        IN  /\ s \in audited
            /\ orders[i].offer = target[s]
            /\ told[s] # "nothing"
            /\ \A j \in DOMAIN orders : orders[j].session = s => j = i

\* An order the operator was told of is in the file for ever, however many are
\* bought at once and whenever their answers come, unless a write of the file
\* is cut off.
PlacedIsKept ==
    ~lost /\ LoopFree =>
        \A s \in Sessions : told[s] = "placed" =>
            \E e \in file : /\ e.offer = target[s]
                            /\ e.order \in DOMAIN orders
                            /\ orders[e.order].session = s

\* A listing shows orders of this node, none further than it is; unless a
\* write was cut off it has all whose requests had succeeded when it began.
ListingTrue ==
    /\ \A e \in results :
           /\ e.order \in DOMAIN orders
           /\ e.offer = orders[e.order].offer
           /\ e.status <= orders[e.order].status
    /\ ~lost /\ Listed =>
           \A i \in due : request[orders[i].session] = "placed" =>
               \E e \in results : e.order = i

-----------------------------------------------------------------------------
(* What the operator is promised.                                            *)

OrdersOf(s) == {i \in DOMAIN orders : orders[i].session = s}

\* The approval is asked for before an offer is known; what is approved is the
\* offer the session chooses then.
Promise == INSTANCE ApprovedOnce WITH
    Plans <- Offers,
    NoPlan <- NoOffer,
    granted <- [s \in Sessions |-> IF s \in audited THEN target[s]
                                   ELSE NoOffer],
    times <- [s \in Sessions |-> Cardinality(OrdersOf(s))],
    done <- [s \in Sessions |-> {orders[i].offer : i \in OrdersOf(s)}],
    told <- {s \in Sessions : told[s] = "placed"}

\* Whoever gives up waiting, dies and starts again: a session's offer never
\* changes once it is chosen, Amboss gets one order for it at most, for that
\* offer, and "placed" is said after that and never taken back.
PromiseSpec == Promise!Spec

=============================================================================
