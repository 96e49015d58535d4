----------------------------- MODULE MagmaProofs -----------------------------
(***************************************************************************)
(* Theorems about Magma, for any number of sessions, offers and restarts.    *)
(***************************************************************************)
EXTENDS Magma, FiniteSetTheorems, TLAPS

\* What a session has done follows from where it is.
SessionState ==
    \A s \in Sessions :
        /\ pc[s] \in {"offers", "post", "waiting"} =>
               s \in audited /\ told[s] = "none"
        /\ pc[s] = "start" => told[s] = "none"
        /\ pc[s] \in {"start", "offers", "post"} => request[s] = "none"
        /\ pc[s] \in {"post", "waiting"} => target[s] \in Offers
        /\ request[s] # "none" =>
               s \in audited /\ target[s] \in Offers /\ told[s] # "nothing"
        /\ told[s] = "placed" => request[s] = "placed"

\* A request reaches Amboss once at most, and the agent waits for its answer
\* or has given it up.
OrderState ==
    /\ \A s \in Sessions :
           /\ s \in asked => request[s] \in {"calling", "failed"}
           /\ request[s] = "writing" => answer[s] # NoOrder
           /\ answer[s] # NoOrder =>
                  /\ request[s] \in {"calling", "writing"}
                  /\ answer[s] \in DOMAIN orders
                  /\ orders[answer[s]].session = s
    /\ \A i \in DOMAIN orders :
           LET s == orders[i].session
           IN  /\ request[s] \notin {"none", "queued"}
               /\ s \notin asked
               /\ orders[i].offer = target[s]
               /\ \A j \in DOMAIN orders : orders[j].session = s => j = i

\* Entries are of orders, and never ahead of them.
Known(entries) ==
    \A e \in entries :
        /\ e.order \in DOMAIN orders
        /\ e.offer = orders[e.order].offer
        /\ e.status <= orders[e.order].status

AllKnown ==
    /\ Known(file)
    /\ \A s \in Sessions : Known(writing[s])
    /\ Known(cached)
    /\ Known(results)

OneWriter ==
    \A s, t \in Sessions :
        request[s] = "writing" /\ request[t] = "writing" => s = t

Has(entries, s) ==
    \E e \in entries : e.order \in DOMAIN orders /\ orders[e.order].session = s

\* What was placed is in the file, or in what is being written to it.
Kept ==
    ~lost =>
        \A s \in Sessions : request[s] = "placed" =>
            /\ LoopFree => Has(file, s)
            /\ \A t \in Sessions : request[t] = "writing" => Has(writing[t], s)

Written == \A t \in Sessions : request[t] = "writing" => Has(writing[t], t)

\* A listing still has what it owes.
ListingOwes ==
    /\ due \subseteq {i \in DOMAIN orders : request[orders[i].session] \in Over}
    /\ ~lost /\ lister = "busy" =>
           \A i \in due : request[orders[i].session] = "placed" =>
               \E e \in cached \cup results : e.order = i

IInv ==
    /\ TypeOK
    /\ SessionState
    /\ OrderState
    /\ AllKnown
    /\ OneWriter
    /\ Kept
    /\ Written
    /\ ListingOwes

-----------------------------------------------------------------------------
(* Types.                                                                    *)

\* The list of orders, when one is created and when one gets on.
LEMMA OrderCreated ==
    ASSUME TypeOK, SessionState, OrderState, NEW s \in Sessions, Create(s)
    PROVE  /\ orders' \in Seq(Order)
           /\ Len(orders') = Len(orders) + 1
           /\ \A i \in DOMAIN orders : i \in DOMAIN orders' /\ orders'[i] = orders[i]
           /\ \A i \in DOMAIN orders' : i \in DOMAIN orders \/ i = Len(orders')
           /\ Len(orders) + 1 \in DOMAIN orders'
           /\ orders'[Len(orders) + 1] =
                  [session |-> s, offer |-> target[s], status |-> 1]
           /\ Len(orders) \in Nat
<1> DEFINE new == [session |-> s, offer |-> target[s], status |-> 1]
<1>1. new \in Order
  BY MagmaAssumption DEF Create, OrderState, SessionState, Order, Statuses
<1>2. orders \in Seq(Order) /\ orders' = Append(orders, new)
  BY DEF Create, TypeOK
<1> HIDE DEF new
<1>3. /\ orders' \in Seq(Order)
      /\ Len(orders') = Len(orders) + 1
      /\ \A i \in DOMAIN orders : i \in DOMAIN orders' /\ orders'[i] = orders[i]
      /\ \A i \in DOMAIN orders' : i \in DOMAIN orders \/ i = Len(orders')
      /\ Len(orders) + 1 \in DOMAIN orders'
      /\ orders'[Len(orders) + 1] = new
      /\ Len(orders) \in Nat
  BY <1>1, <1>2
<1>4. QED
  BY <1>3 DEF new

LEMMA OrderProgress ==
    ASSUME TypeOK, NEW i \in DOMAIN orders, Progress(i)
    PROVE  /\ orders' \in Seq(Order)
           /\ DOMAIN orders' = DOMAIN orders
           /\ \A j \in DOMAIN orders :
                  /\ orders'[j].session = orders[j].session
                  /\ orders'[j].offer = orders[j].offer
                  /\ orders[j].status <= orders'[j].status
<1> DEFINE new == [orders[i] EXCEPT !.status = orders[i].status + 1]
<1>1. orders \in Seq(Order) /\ orders[i] \in Order
  BY DEF TypeOK
<1>2. /\ new \in Order
      /\ new.session = orders[i].session
      /\ new.offer = orders[i].offer
      /\ orders[i].status <= new.status
  <2>1. orders[i].status \in Statuses /\ orders[i].status < MaxStatus
    BY <1>1 DEF Progress, Order
  <2>2. orders[i].status + 1 \in Statuses
    BY <2>1, MagmaAssumption DEF Statuses
  <2>3. QED
    BY <1>1, <2>1, <2>2 DEF Order, Statuses
<1>3. orders' = [orders EXCEPT ![i] = new]
  BY DEF Progress
<1> HIDE DEF new
<1>4. orders' \in Seq(Order) /\ DOMAIN orders' = DOMAIN orders
  BY <1>1, <1>2, <1>3
<1>5. ASSUME NEW j \in DOMAIN orders
      PROVE  /\ orders'[j].session = orders[j].session
             /\ orders'[j].offer = orders[j].offer
             /\ orders[j].status <= orders'[j].status
  <2>1. CASE j = i
    BY <1>2, <1>3, <2>1
  <2>2. CASE j # i
    <3>1. orders'[j] = orders[j] /\ orders[j] \in Order
      BY <1>1, <1>3, <2>2
    <3>2. QED
      BY <3>1 DEF Order, Statuses
  <2>3. QED
    BY <2>1, <2>2
<1>6. QED
  BY <1>4, <1>5

\* The entry of a new order.
LEMMA NewEntry ==
    ASSUME TypeOK, OrderState, NEW s \in Sessions, answer[s] # NoOrder
    PROVE  /\ EntryOf(s) \in Entry
           /\ EntryOf(s).order = answer[s]
           /\ EntryOf(s).offer = target[s]
           /\ EntryOf(s).status = orders[answer[s]].status
<1>1. answer[s] \in DOMAIN orders /\ orders[answer[s]].session = s
  BY DEF OrderState
<1>2. orders[answer[s]] \in Order /\ answer[s] \in Nat \ {NoOrder}
  BY <1>1 DEF TypeOK, NoOrder
<1>3. orders[answer[s]].offer = target[s]
  BY <1>1 DEF OrderState
<1>4. QED
  BY <1>2, <1>3 DEF EntryOf, Entry, Order

LEMMA RefreshedStatus ==
    ASSUME TypeOK, AllKnown, NEW e \in cached,
           NEW status \in LiveStatuses(e) \cup {e.status}
    PROVE  status \in Statuses /\ status <= orders[e.order].status
<1>1. e \in Entry /\ e.order \in DOMAIN orders
  BY DEF TypeOK, AllKnown, Known
<1>2. orders[e.order] \in Order /\ e.status <= orders[e.order].status
  BY <1>1 DEF TypeOK, AllKnown, Known
<1>3. orders[e.order].status \in Statuses /\ e.status \in Statuses
  BY <1>1, <1>2 DEF Entry, Order
<1>4. QED
  BY <1>2, <1>3 DEF LiveStatuses, Statuses

LEMMA TypeStep ==
    ASSUME TypeOK, SessionState, OrderState, AllKnown, [Next]_vars
    PROVE  TypeOK'
<1>0. ASSUME NEW s \in Sessions, Create(s)
      PROVE  orders' \in Seq(Order) /\ Len(orders) + 1 \in Nat
  <2>1. orders' \in Seq(Order) /\ Len(orders) \in Nat
    BY <1>0, OrderCreated, Zenon
  <2>2. QED
    BY <2>1
<1> USE DEF TypeOK, commandVars, listVars, agentVars, ambossVars, Places, Told,
            Handling, Over, Goto, End, Handle
<1>1. ASSUME NEW s \in Sessions, CommandStep(s) PROVE TypeOK'
  <2>1. CASE Confirm(s)
    BY <2>1 DEF Confirm
  <2>2. CASE Decline(s)
    BY <2>2 DEF Decline
  <2>3. ASSUME NEW offer \in Offers, Choose(s, offer) PROVE TypeOK'
    BY <2>3 DEF Choose
  <2>4. CASE ChooseNone(s)
    BY <2>4 DEF ChooseNone
  <2>5. CASE Post(s)
    BY <2>5 DEF Post
  <2>6. CASE PostFails(s)
    BY <2>6 DEF PostFails
  <2>7. CASE Answered(s)
    BY <2>7 DEF Answered
  <2>8. CASE TimesOut(s)
    BY <2>8 DEF TimesOut
  <2>9. CASE Interrupt(s)
    BY <2>9 DEF Interrupt
  <2>10. QED
    BY <1>1, <2>1, <2>2, <2>3, <2>4, <2>5, <2>6, <2>7, <2>8, <2>9
       DEF CommandStep
<1>2. ASSUME NEW s \in Sessions, BuyStep(s) PROVE TypeOK'
  <2>1. CASE AskAmboss(s)
    BY <2>1 DEF AskAmboss
  <2>2. CASE AskFails(s)
    BY <2>2 DEF AskFails
  <2>3. CASE CallFails(s)
    BY <2>3 DEF CallFails, NoOrder
  <2>4. CASE BeginSave(s)
    <3>1. WithOrder(s) \subseteq Entry
      BY <2>4, NewEntry DEF BeginSave, WithOrder
    <3>2. QED
      BY <2>4, <3>1 DEF BeginSave
  <2>5. CASE BeginSaveFails(s)
    BY <2>5 DEF BeginSaveFails, NoOrder
  <2>6. CASE EndSave(s)
    BY <2>6 DEF EndSave, NoOrder
  <2>7. CASE EndSaveFails(s)
    BY <2>7 DEF EndSaveFails, NoOrder
  <2>8. QED
    BY <1>2, <2>1, <2>2, <2>3, <2>4, <2>5, <2>6, <2>7 DEF BuyStep
<1>3. ASSUME NEW s \in Sessions, Create(s) PROVE TypeOK'
  <2>1. orders' \in Seq(Order) /\ Len(orders) + 1 \in Nat
    BY <1>3, <1>0
  <2>2. answer' \in [Sessions -> Nat]
    BY <1>3, <2>1 DEF Create
  <2>3. QED
    BY <1>3, <2>1, <2>2 DEF Create
<1>4. ASSUME NEW s \in Sessions, Refuse(s) PROVE TypeOK'
  BY <1>4 DEF Refuse
<1>5. CASE BeginListing
  BY <1>5 DEF BeginListing
<1>6. ASSUME NEW e \in cached, Refresh(e) PROVE TypeOK'
  <2>1. e \in Entry
    OBVIOUS
  <2>2. PICK status \in LiveStatuses(e) \cup {e.status} :
            results' = results \cup {[e EXCEPT !.status = status]}
    BY <1>6 DEF Refresh
  <2>3. status \in Statuses
    BY <2>1, <2>2, RefreshedStatus DEF Refresh
  <2>4. [e EXCEPT !.status = status] \in Entry
    BY <2>1, <2>3 DEF Entry
  <2>5. QED
    BY <1>6, <2>2, <2>4 DEF Refresh
<1>7. CASE EndListing
  BY <1>7 DEF EndListing
<1>8. CASE Crash
  <2>1. lost' \in BOOLEAN
    BY <1>8 DEF Crash, LoopFree, Writers
  <2>2. /\ request' \in [Sessions -> {"none"} \cup Handling \cup Over]
        /\ writing' \in [Sessions -> SUBSET Entry]
        /\ answer' \in [Sessions -> Nat]
    BY <1>8 DEF Crash, NoOrder
  <2>3. /\ restarts' = restarts + 1
        /\ up' = FALSE
        /\ lister' = "idle" /\ cached' = {} /\ results' = {} /\ due' = {}
        /\ UNCHANGED <<commandVars, asked, orders>>
        /\ file' \in {file} \cup {writing[s] : s \in Writers}
    BY <1>8 DEF Crash
  <2>4. restarts' \in Nat /\ up' \in BOOLEAN
    <3>1. restarts' \in Nat
      BY <2>3
    <3>2. up' \in BOOLEAN
      BY <2>3, Zenon
    <3>3. QED
      BY <3>1, <3>2
  <2>5. /\ cached' \subseteq Entry /\ results' \subseteq Entry /\ due' \subseteq Nat
        /\ lister' \in {"idle", "busy"}
    BY <2>3
  <2>6. /\ pc' \in [Sessions -> Places]
        /\ audited' \subseteq Sessions
        /\ target' \in [Sessions -> Offers \cup {NoOffer}]
        /\ told' \in [Sessions -> Told]
        /\ file' \subseteq Entry
        /\ asked' \subseteq Sessions
        /\ orders' \in Seq(Order)
    BY <2>3 DEF Writers
  <2>7. QED
    BY <2>1, <2>2, <2>4, <2>5, <2>6
<1>9. CASE Restart
  BY <1>9 DEF Restart
<1>10. ASSUME NEW i \in DOMAIN orders, Progress(i) PROVE TypeOK'
  BY <1>10, OrderProgress DEF Progress
<1>11. CASE UNCHANGED vars
  BY <1>11 DEF vars
<1>12. QED
  BY <1>1, <1>2, <1>3, <1>4, <1>5, <1>6, <1>7, <1>8, <1>9, <1>10, <1>11 DEF Next

-----------------------------------------------------------------------------
(* What a step leaves of each part of the invariant.                         *)

\* A session goes on from where it is.
LEMMA SessionStep == ASSUME IInv, TypeOK', [Next]_vars PROVE SessionState'
<1> USE DEF IInv, SessionState, TypeOK, 
            commandVars, listVars, agentVars, ambossVars, Handling, Over, Goto, End,
            Handle
<1>1. ASSUME NEW s \in Sessions, CommandStep(s) PROVE SessionState'
  <2>1. CASE Confirm(s)
    BY <2>1 DEF Confirm
  <2>2. CASE Decline(s)
    BY <2>2 DEF Decline
  <2>3. ASSUME NEW offer \in Offers, Choose(s, offer) PROVE SessionState'
    BY <2>3 DEF Choose
  <2>4. CASE ChooseNone(s)
    BY <2>4 DEF ChooseNone
  <2>5. CASE Post(s)
    BY <2>5 DEF Post
  <2>6. CASE PostFails(s)
    BY <2>6 DEF PostFails
  <2>7. CASE Answered(s)
    BY <2>7 DEF Answered
  <2>8. CASE TimesOut(s)
    BY <2>8 DEF TimesOut
  <2>9. CASE Interrupt(s)
    BY <2>9 DEF Interrupt
  <2>10. QED
    BY <1>1, <2>1, <2>2, <2>3, <2>4, <2>5, <2>6, <2>7, <2>8, <2>9
       DEF CommandStep
<1>2. ASSUME NEW s \in Sessions, BuyStep(s) PROVE SessionState'
  <2>1. CASE AskAmboss(s)
    BY <2>1 DEF AskAmboss
  <2>2. CASE AskFails(s)
    BY <2>2 DEF AskFails
  <2>3. CASE CallFails(s)
    BY <2>3 DEF CallFails
  <2>4. CASE BeginSave(s)
    BY <2>4 DEF BeginSave
  <2>5. CASE BeginSaveFails(s)
    BY <2>5 DEF BeginSaveFails
  <2>6. CASE EndSave(s)
    BY <2>6 DEF EndSave
  <2>7. CASE EndSaveFails(s)
    BY <2>7 DEF EndSaveFails
  <2>8. QED
    BY <1>2, <2>1, <2>2, <2>3, <2>4, <2>5, <2>6, <2>7 DEF BuyStep
<1>3. ASSUME NEW s \in Sessions, Create(s) PROVE SessionState'
  BY <1>3 DEF Create
<1>4. ASSUME NEW s \in Sessions, Refuse(s) PROVE SessionState'
  BY <1>4 DEF Refuse
<1>5. CASE BeginListing
  BY <1>5 DEF BeginListing
<1>6. ASSUME NEW e \in cached, Refresh(e) PROVE SessionState'
  BY <1>6 DEF Refresh
<1>7. CASE EndListing
  BY <1>7 DEF EndListing
<1>8. CASE Crash
  BY <1>8 DEF Crash
<1>9. CASE Restart
  BY <1>9 DEF Restart
<1>10. ASSUME NEW i \in DOMAIN orders, Progress(i) PROVE SessionState'
  BY <1>10 DEF Progress
<1>11. CASE UNCHANGED vars
  BY <1>11 DEF vars
<1>12. QED
  BY <1>1, <1>2, <1>3, <1>4, <1>5, <1>6, <1>7, <1>8, <1>9, <1>10, <1>11
     DEF Next

\* The loop has one writer at a time.
LEMMA WriterStep == ASSUME IInv, TypeOK', [Next]_vars PROVE OneWriter'
<1> USE DEF IInv, OneWriter, LoopFree, Writers, TypeOK, 
            commandVars, listVars, agentVars, ambossVars, Handling, Over, Goto, End,
            Handle
<1>1. ASSUME NEW s \in Sessions, CommandStep(s) PROVE OneWriter'
  <2>1. CASE Confirm(s)
    BY <2>1 DEF Confirm
  <2>2. CASE Decline(s)
    BY <2>2 DEF Decline
  <2>3. ASSUME NEW offer \in Offers, Choose(s, offer) PROVE OneWriter'
    BY <2>3 DEF Choose
  <2>4. CASE ChooseNone(s)
    BY <2>4 DEF ChooseNone
  <2>5. CASE Post(s)
    BY <2>5 DEF Post
  <2>6. CASE PostFails(s)
    BY <2>6 DEF PostFails
  <2>7. CASE Answered(s)
    BY <2>7 DEF Answered
  <2>8. CASE TimesOut(s)
    BY <2>8 DEF TimesOut
  <2>9. CASE Interrupt(s)
    BY <2>9 DEF Interrupt
  <2>10. QED
    BY <1>1, <2>1, <2>2, <2>3, <2>4, <2>5, <2>6, <2>7, <2>8, <2>9
       DEF CommandStep
<1>2. ASSUME NEW s \in Sessions, BuyStep(s) PROVE OneWriter'
  <2>1. CASE AskAmboss(s)
    BY <2>1 DEF AskAmboss
  <2>2. CASE AskFails(s)
    BY <2>2 DEF AskFails
  <2>3. CASE CallFails(s)
    BY <2>3 DEF CallFails
  <2>4. CASE BeginSave(s)
    BY <2>4 DEF BeginSave
  <2>5. CASE BeginSaveFails(s)
    BY <2>5 DEF BeginSaveFails
  <2>6. CASE EndSave(s)
    BY <2>6 DEF EndSave
  <2>7. CASE EndSaveFails(s)
    BY <2>7 DEF EndSaveFails
  <2>8. QED
    BY <1>2, <2>1, <2>2, <2>3, <2>4, <2>5, <2>6, <2>7 DEF BuyStep
<1>3. ASSUME NEW s \in Sessions, Create(s) PROVE OneWriter'
  BY <1>3 DEF Create
<1>4. ASSUME NEW s \in Sessions, Refuse(s) PROVE OneWriter'
  BY <1>4 DEF Refuse
<1>5. CASE BeginListing
  BY <1>5 DEF BeginListing
<1>6. ASSUME NEW e \in cached, Refresh(e) PROVE OneWriter'
  BY <1>6 DEF Refresh
<1>7. CASE EndListing
  BY <1>7 DEF EndListing
<1>8. CASE Crash
  BY <1>8 DEF Crash
<1>9. CASE Restart
  BY <1>9 DEF Restart
<1>10. ASSUME NEW i \in DOMAIN orders, Progress(i) PROVE OneWriter'
  BY <1>10 DEF Progress
<1>11. CASE UNCHANGED vars
  BY <1>11 DEF vars
<1>12. QED
  BY <1>1, <1>2, <1>3, <1>4, <1>5, <1>6, <1>7, <1>8, <1>9, <1>10, <1>11
     DEF Next

\* An order is the only one of its session.
LEMMA OrderStep == ASSUME IInv, TypeOK', [Next]_vars PROVE OrderState'
<1>0. ASSUME NEW s \in Sessions, Create(s)
      PROVE  /\ Len(orders') = Len(orders) + 1
             /\ \A i \in DOMAIN orders : i \in DOMAIN orders' /\ orders'[i] = orders[i]
             /\ \A i \in DOMAIN orders' : i \in DOMAIN orders \/ i = Len(orders')
             /\ Len(orders) + 1 \in DOMAIN orders'
             /\ orders'[Len(orders) + 1] =
                    [session |-> s, offer |-> target[s], status |-> 1]
             /\ Len(orders) \in Nat
  BY <1>0, OrderCreated DEF IInv
<1>p. ASSUME NEW i \in DOMAIN orders, Progress(i)
      PROVE  /\ DOMAIN orders' = DOMAIN orders
             /\ \A j \in DOMAIN orders :
                    /\ orders'[j].session = orders[j].session
                    /\ orders'[j].offer = orders[j].offer
                    /\ orders[j].status <= orders'[j].status
  BY <1>p, OrderProgress DEF IInv
<1> USE DEF IInv, OrderState, SessionState, TypeOK, 
            commandVars, listVars, agentVars, ambossVars, Handling, Over, Goto, End,
            Handle
<1>1. ASSUME NEW s \in Sessions, CommandStep(s) PROVE OrderState'
  <2>1. CASE Confirm(s)
    BY <2>1 DEF Confirm
  <2>2. CASE Decline(s)
    BY <2>2 DEF Decline
  <2>3. ASSUME NEW offer \in Offers, Choose(s, offer) PROVE OrderState'
    BY <2>3 DEF Choose
  <2>4. CASE ChooseNone(s)
    BY <2>4 DEF ChooseNone
  <2>5. CASE Post(s)
    BY <2>5 DEF Post
  <2>6. CASE PostFails(s)
    BY <2>6 DEF PostFails
  <2>7. CASE Answered(s)
    BY <2>7 DEF Answered
  <2>8. CASE TimesOut(s)
    BY <2>8 DEF TimesOut
  <2>9. CASE Interrupt(s)
    BY <2>9 DEF Interrupt
  <2>10. QED
    BY <1>1, <2>1, <2>2, <2>3, <2>4, <2>5, <2>6, <2>7, <2>8, <2>9
       DEF CommandStep
<1>2. ASSUME NEW s \in Sessions, BuyStep(s) PROVE OrderState'
  <2>1. CASE AskAmboss(s)
    BY <2>1 DEF AskAmboss
  <2>2. CASE AskFails(s)
    BY <2>2 DEF AskFails
  <2>3. CASE CallFails(s)
    BY <2>3 DEF CallFails
  <2>4. CASE BeginSave(s)
    BY <2>4 DEF BeginSave
  <2>5. CASE BeginSaveFails(s)
    BY <2>5 DEF BeginSaveFails
  <2>6. CASE EndSave(s)
    BY <2>6 DEF EndSave
  <2>7. CASE EndSaveFails(s)
    BY <2>7 DEF EndSaveFails
  <2>8. QED
    BY <1>2, <2>1, <2>2, <2>3, <2>4, <2>5, <2>6, <2>7 DEF BuyStep
<1>3. ASSUME NEW s \in Sessions, Create(s) PROVE OrderState'
  BY <1>3, <1>0 DEF Create
<1>4. ASSUME NEW s \in Sessions, Refuse(s) PROVE OrderState'
  BY <1>4 DEF Refuse
<1>5. CASE BeginListing
  BY <1>5 DEF BeginListing
<1>6. ASSUME NEW e \in cached, Refresh(e) PROVE OrderState'
  BY <1>6 DEF Refresh
<1>7. CASE EndListing
  BY <1>7 DEF EndListing
<1>8. CASE Crash
  <2>1. /\ \A t \in Sessions : request'[t] = IF request[t] \in Handling
                                             THEN "failed" ELSE request[t]
        /\ \A t \in Sessions : answer'[t] = NoOrder
        /\ UNCHANGED <<target, asked, orders>>
    BY <1>8 DEF Crash
  <2>2. ASSUME NEW t \in Sessions
        PROVE  /\ t \in asked' => request'[t] \in {"calling", "failed"}
               /\ request'[t] # "writing"
               /\ answer'[t] = NoOrder
    BY <2>1
  <2>3. ASSUME NEW i \in DOMAIN orders'
        PROVE  LET t == orders'[i].session
               IN  /\ request'[t] \notin {"none", "queued"}
                   /\ t \notin asked'
                   /\ orders'[i].offer = target'[t]
                   /\ \A j \in DOMAIN orders' : orders'[j].session = t => j = i
    <3>1. orders[i] \in Order
      BY <2>1
    <3>2. orders[i].session \in Sessions
      BY <3>1 DEF Order
    <3>3. QED
      BY <2>1, <3>2
  <2>4. QED
    BY <2>2, <2>3
<1>9. CASE Restart
  BY <1>9 DEF Restart
<1>10. ASSUME NEW i \in DOMAIN orders, Progress(i) PROVE OrderState'
  BY <1>10, <1>p DEF Progress
<1>11. CASE UNCHANGED vars
  BY <1>11 DEF vars
<1>12. QED
  BY <1>1, <1>2, <1>3, <1>4, <1>5, <1>6, <1>7, <1>8, <1>9, <1>10, <1>11
     DEF Next

\* Entries are of orders, and orders only get further.
LEMMA KnownStep == ASSUME IInv, TypeOK', [Next]_vars PROVE AllKnown'
<1>0. ASSUME NEW s \in Sessions, Create(s)
      PROVE  /\ Len(orders') = Len(orders) + 1
             /\ \A i \in DOMAIN orders : i \in DOMAIN orders' /\ orders'[i] = orders[i]
             /\ \A i \in DOMAIN orders' : i \in DOMAIN orders \/ i = Len(orders')
             /\ Len(orders) + 1 \in DOMAIN orders'
             /\ orders'[Len(orders) + 1] =
                    [session |-> s, offer |-> target[s], status |-> 1]
             /\ Len(orders) \in Nat
  BY <1>0, OrderCreated DEF IInv
<1>p. ASSUME NEW i \in DOMAIN orders, Progress(i)
      PROVE  /\ DOMAIN orders' = DOMAIN orders
             /\ \A j \in DOMAIN orders :
                    /\ orders'[j].session = orders[j].session
                    /\ orders'[j].offer = orders[j].offer
                    /\ orders[j].status <= orders'[j].status
  BY <1>p, OrderProgress DEF IInv
<1>r. ASSUME NEW e \in cached, NEW status \in LiveStatuses(e) \cup {e.status}
      PROVE  status <= orders[e.order].status
  BY RefreshedStatus DEF IInv
<1> USE DEF IInv, AllKnown, Known, SessionState, OrderState, TypeOK, 
            commandVars, listVars, agentVars, ambossVars, Handling, Over, Goto, End,
            Handle
<1>1. ASSUME NEW s \in Sessions, CommandStep(s) PROVE AllKnown'
  <2>1. CASE Confirm(s)
    BY <2>1 DEF Confirm
  <2>2. CASE Decline(s)
    BY <2>2 DEF Decline
  <2>3. ASSUME NEW offer \in Offers, Choose(s, offer) PROVE AllKnown'
    BY <2>3 DEF Choose
  <2>4. CASE ChooseNone(s)
    BY <2>4 DEF ChooseNone
  <2>5. CASE Post(s)
    BY <2>5 DEF Post
  <2>6. CASE PostFails(s)
    BY <2>6 DEF PostFails
  <2>7. CASE Answered(s)
    BY <2>7 DEF Answered
  <2>8. CASE TimesOut(s)
    BY <2>8 DEF TimesOut
  <2>9. CASE Interrupt(s)
    BY <2>9 DEF Interrupt
  <2>10. QED
    BY <1>1, <2>1, <2>2, <2>3, <2>4, <2>5, <2>6, <2>7, <2>8, <2>9
       DEF CommandStep
<1>2. ASSUME NEW s \in Sessions, BuyStep(s) PROVE AllKnown'
  <2>1. CASE AskAmboss(s)
    BY <2>1 DEF AskAmboss
  <2>2. CASE AskFails(s)
    BY <2>2 DEF AskFails
  <2>3. CASE CallFails(s)
    BY <2>3 DEF CallFails
  <2>4. CASE BeginSave(s)
    <3>1. /\ file' = {} /\ UNCHANGED <<cached, results, orders>>
          /\ writing' = [writing EXCEPT ![s] = WithOrder(s)]
      BY <2>4 DEF BeginSave
    <3>2. ASSUME NEW e \in WithOrder(s)
          PROVE  /\ e.order \in DOMAIN orders
                 /\ e.offer = orders[e.order].offer
                 /\ e.status <= orders[e.order].status
      <4>0. /\ answer[s] \in DOMAIN orders
            /\ orders[answer[s]].session = s
        BY <2>4 DEF BeginSave
      <4>1. /\ answer[s] \in DOMAIN orders /\ orders[answer[s]] \in Order
            /\ orders[answer[s]].offer = target[s]
        BY <4>0
      <4>2. orders[answer[s]].status <= orders[answer[s]].status
        BY <4>1 DEF Order, Statuses
      <4>3. QED
        BY <4>1, <4>2 DEF WithOrder, EntryOf
    <3>3. QED
      BY <3>1, <3>2
  <2>5. CASE BeginSaveFails(s)
    BY <2>5 DEF BeginSaveFails
  <2>6. CASE EndSave(s)
    BY <2>6 DEF EndSave
  <2>7. CASE EndSaveFails(s)
    BY <2>7 DEF EndSaveFails
  <2>8. QED
    BY <1>2, <2>1, <2>2, <2>3, <2>4, <2>5, <2>6, <2>7 DEF BuyStep
<1>3. ASSUME NEW s \in Sessions, Create(s) PROVE AllKnown'
  BY <1>3, <1>0 DEF Create
<1>4. ASSUME NEW s \in Sessions, Refuse(s) PROVE AllKnown'
  BY <1>4 DEF Refuse
<1>5. CASE BeginListing
  BY <1>5 DEF BeginListing
<1>6. ASSUME NEW e \in cached, Refresh(e) PROVE AllKnown'
  <2>1. PICK status \in LiveStatuses(e) \cup {e.status} :
            results' = results \cup {[e EXCEPT !.status = status]}
    BY <1>6 DEF Refresh
  <2>2. status <= orders[e.order].status
    BY <2>1, <1>r
  <2>3. UNCHANGED <<file, writing, orders>> /\ cached' = cached \ {e}
    BY <1>6 DEF Refresh
  <2>4. e \in Entry /\ e.order \in DOMAIN orders /\ e.offer = orders[e.order].offer
    OBVIOUS
  <2>5. Known(results)'
    BY <2>1, <2>2, <2>3, <2>4 DEF Entry
  <2>6. QED
    BY <2>3, <2>5
<1>7. CASE EndListing
  BY <1>7 DEF EndListing
<1>8. CASE Crash
  BY <1>8 DEF Crash, Writers
<1>9. CASE Restart
  BY <1>9 DEF Restart
<1>10. ASSUME NEW i \in DOMAIN orders, Progress(i) PROVE AllKnown'
  <2>1. ASSUME NEW entries, entries \subseteq Entry, Known(entries)
        PROVE  \A e \in entries :
                   /\ e.order \in DOMAIN orders'
                   /\ e.offer = orders'[e.order].offer
                   /\ e.status <= orders'[e.order].status
    <3>1. SUFFICES ASSUME NEW e \in entries
                   PROVE  /\ e.order \in DOMAIN orders'
                          /\ e.offer = orders'[e.order].offer
                          /\ e.status <= orders'[e.order].status
      OBVIOUS
    <3>2. /\ orders[e.order] \in Order /\ orders'[e.order] \in Order
          /\ e.order \in DOMAIN orders /\ e \in Entry
          /\ e.status <= orders[e.order].status
      <4>1. e.order \in DOMAIN orders /\ e.status <= orders[e.order].status
        BY <2>1
      <4>2. DOMAIN orders' = DOMAIN orders
        BY <1>10, <1>p
      <4>3. orders \in Seq(Order) /\ orders' \in Seq(Order)
        OBVIOUS
      <4>4. QED
        BY <2>1, <4>1, <4>2, <4>3
    <3>3. e.status \in Nat /\ orders[e.order].status \in Nat
          /\ orders'[e.order].status \in Nat
      <4>1. e.status \in Statuses /\ orders[e.order].status \in Statuses
            /\ orders'[e.order].status \in Statuses
        BY <3>2 DEF Entry, Order
      <4>2. QED
        BY <4>1 DEF Statuses
    <3>4. orders[e.order].status <= orders'[e.order].status
      BY <1>10, <1>p, <3>2
    <3>5. QED
      BY <2>1, <1>10, <1>p, <3>2, <3>3, <3>4
  <2>2. UNCHANGED <<file, writing, cached, results>>
    BY <1>10 DEF Progress
  <2>3. QED
    BY <2>1, <2>2
<1>11. CASE UNCHANGED vars
  BY <1>11 DEF vars
<1>12. QED
  BY <1>1, <1>2, <1>3, <1>4, <1>5, <1>6, <1>7, <1>8, <1>9, <1>10, <1>11
     DEF Next

\* What is being written has the order it is written for.
LEMMA WrittenStep == ASSUME IInv, TypeOK', [Next]_vars PROVE Written'
<1>0. ASSUME NEW s \in Sessions, Create(s)
      PROVE  /\ Len(orders') = Len(orders) + 1
             /\ \A i \in DOMAIN orders : i \in DOMAIN orders' /\ orders'[i] = orders[i]
             /\ \A i \in DOMAIN orders' : i \in DOMAIN orders \/ i = Len(orders')
             /\ Len(orders) + 1 \in DOMAIN orders'
             /\ orders'[Len(orders) + 1] =
                    [session |-> s, offer |-> target[s], status |-> 1]
             /\ Len(orders) \in Nat
  BY <1>0, OrderCreated DEF IInv
<1>p. ASSUME NEW i \in DOMAIN orders, Progress(i)
      PROVE  /\ DOMAIN orders' = DOMAIN orders
             /\ \A j \in DOMAIN orders :
                    /\ orders'[j].session = orders[j].session
                    /\ orders'[j].offer = orders[j].offer
                    /\ orders[j].status <= orders'[j].status
  BY <1>p, OrderProgress DEF IInv
<1>g. ASSUME NEW s \in Sessions, Create(s), NEW entries, NEW t, Has(entries, t)
      PROVE  \E e \in entries :
                 e.order \in DOMAIN orders' /\ orders'[e.order].session = t
  BY <1>0, <1>g DEF Has
<1>h. ASSUME NEW i \in DOMAIN orders, Progress(i), NEW entries, NEW t,
             Has(entries, t)
      PROVE  \E e \in entries :
                 e.order \in DOMAIN orders' /\ orders'[e.order].session = t
  BY <1>p, <1>h DEF Has
<1>f. ASSUME UNCHANGED <<request, writing, orders>> PROVE Written'
  BY <1>f DEF IInv, Written, Has
<1> USE DEF IInv, commandVars, listVars, agentVars, ambossVars, Handling, Over, Goto, End,
            Handle
<1>1. ASSUME NEW s \in Sessions, CommandStep(s) PROVE Written'
  <2>1. CASE Confirm(s)
    <3>1. UNCHANGED <<request, writing, orders>>
      BY <2>1 DEF Confirm
    <3>2. QED
      BY <3>1, <1>f
  <2>2. CASE Decline(s)
    <3>1. UNCHANGED <<request, writing, orders>>
      BY <2>2 DEF Decline
    <3>2. QED
      BY <3>1, <1>f
  <2>3. ASSUME NEW offer \in Offers, Choose(s, offer) PROVE Written'
    <3>1. UNCHANGED <<request, writing, orders>>
      BY <2>3 DEF Choose
    <3>2. QED
      BY <3>1, <1>f
  <2>4. CASE ChooseNone(s)
    <3>1. UNCHANGED <<request, writing, orders>>
      BY <2>4 DEF ChooseNone
    <3>2. QED
      BY <3>1, <1>f
  <2>5. CASE Post(s)
    BY <2>5 DEF Post, Written, Has, TypeOK
  <2>6. CASE PostFails(s)
    <3>1. UNCHANGED <<request, writing, orders>>
      BY <2>6 DEF PostFails
    <3>2. QED
      BY <3>1, <1>f
  <2>7. CASE Answered(s)
    <3>1. UNCHANGED <<request, writing, orders>>
      BY <2>7 DEF Answered
    <3>2. QED
      BY <3>1, <1>f
  <2>8. CASE TimesOut(s)
    <3>1. UNCHANGED <<request, writing, orders>>
      BY <2>8 DEF TimesOut
    <3>2. QED
      BY <3>1, <1>f
  <2>9. CASE Interrupt(s)
    <3>1. UNCHANGED <<request, writing, orders>>
      BY <2>9 DEF Interrupt
    <3>2. QED
      BY <3>1, <1>f
  <2>10. QED
    BY <1>1, <2>1, <2>2, <2>3, <2>4, <2>5, <2>6, <2>7, <2>8, <2>9
       DEF CommandStep
<1>2. ASSUME NEW s \in Sessions, BuyStep(s) PROVE Written'
  <2>1. CASE AskAmboss(s)
    BY <2>1 DEF AskAmboss, Written, Has, TypeOK
  <2>2. CASE AskFails(s)
    BY <2>2 DEF AskFails, Written, Has, TypeOK
  <2>3. CASE CallFails(s)
    BY <2>3 DEF CallFails, Written, Has, TypeOK
  <2>4. CASE BeginSave(s)
    <3>1. /\ request' = [request EXCEPT ![s] = "writing"]
          /\ writing' = [writing EXCEPT ![s] = WithOrder(s)]
          /\ UNCHANGED orders /\ LoopFree /\ answer[s] # NoOrder
      BY <2>4 DEF BeginSave
    <3>2. request \in [Sessions -> {"none"} \cup Handling \cup Over]
          /\ writing \in [Sessions -> SUBSET Entry]
      BY DEF TypeOK
    <3>3. EntryOf(s) \in WithOrder(s) /\ EntryOf(s).order = answer[s]
          /\ answer[s] \in DOMAIN orders /\ orders[answer[s]].session = s
      BY <3>1 DEF WithOrder, EntryOf, OrderState
    <3>4. ASSUME NEW t \in Sessions, request'[t] = "writing"
          PROVE  \E e \in writing'[t] :
                     e.order \in DOMAIN orders' /\ orders'[e.order].session = t
      <4>1. t = s
        BY <3>1, <3>2, <3>4 DEF LoopFree, Writers
      <4>2. writing'[t] = WithOrder(s)
        BY <3>1, <3>2, <4>1
      <4>3. QED
        BY <3>1, <3>3, <4>1, <4>2
    <3>5. QED
      BY <3>4 DEF Written, Has
  <2>5. CASE BeginSaveFails(s)
    BY <2>5 DEF BeginSaveFails, Written, Has, TypeOK
  <2>6. CASE EndSave(s)
    BY <2>6 DEF EndSave, Written, Has, TypeOK
  <2>7. CASE EndSaveFails(s)
    BY <2>7 DEF EndSaveFails, Written, Has, TypeOK
  <2>8. QED
    BY <1>2, <2>1, <2>2, <2>3, <2>4, <2>5, <2>6, <2>7 DEF BuyStep
<1>3. ASSUME NEW s \in Sessions, Create(s) PROVE Written'
  <2>1. UNCHANGED <<request, writing>> /\ Written
    BY <1>3 DEF Create
  <2>2. QED
    BY <1>3, <2>1, <1>g DEF Written, Has
<1>4. ASSUME NEW s \in Sessions, Refuse(s) PROVE Written'
  <2>1. UNCHANGED <<request, writing, orders>>
    BY <1>4 DEF Refuse
  <2>2. QED
    BY <2>1, <1>f
<1>5. CASE BeginListing
  <2>1. UNCHANGED <<request, writing, orders>>
    BY <1>5 DEF BeginListing
  <2>2. QED
    BY <2>1, <1>f
<1>6. ASSUME NEW e \in cached, Refresh(e) PROVE Written'
  <2>1. UNCHANGED <<request, writing, orders>>
    BY <1>6 DEF Refresh
  <2>2. QED
    BY <2>1, <1>f
<1>7. CASE EndListing
  <2>1. UNCHANGED <<request, writing, orders>>
    BY <1>7 DEF EndListing
  <2>2. QED
    BY <2>1, <1>f
<1>8. CASE Crash
  BY <1>8 DEF Crash, Written, Has, TypeOK
<1>9. CASE Restart
  <2>1. UNCHANGED <<request, writing, orders>>
    BY <1>9 DEF Restart
  <2>2. QED
    BY <2>1, <1>f
<1>10. ASSUME NEW i \in DOMAIN orders, Progress(i) PROVE Written'
  <2>1. UNCHANGED <<request, writing>> /\ Written
    BY <1>10 DEF Progress
  <2>2. QED
    BY <1>10, <2>1, <1>h DEF Written, Has
<1>11. CASE UNCHANGED vars
  <2>1. UNCHANGED <<request, writing, orders>>
    BY <1>11 DEF vars
  <2>2. QED
    BY <2>1, <1>f
<1>12. QED
  BY <1>1, <1>2, <1>3, <1>4, <1>5, <1>6, <1>7, <1>8, <1>9, <1>10, <1>11
     DEF Next

\* A placed order stays in the file or in what is written to it.
LEMMA KeptStep == ASSUME IInv, TypeOK', [Next]_vars PROVE Kept'
<1>0. ASSUME NEW s \in Sessions, Create(s)
      PROVE  /\ Len(orders') = Len(orders) + 1
             /\ \A i \in DOMAIN orders : i \in DOMAIN orders' /\ orders'[i] = orders[i]
             /\ \A i \in DOMAIN orders' : i \in DOMAIN orders \/ i = Len(orders')
             /\ Len(orders) + 1 \in DOMAIN orders'
             /\ orders'[Len(orders) + 1] =
                    [session |-> s, offer |-> target[s], status |-> 1]
             /\ Len(orders) \in Nat
  BY <1>0, OrderCreated DEF IInv
<1>p. ASSUME NEW i \in DOMAIN orders, Progress(i)
      PROVE  /\ DOMAIN orders' = DOMAIN orders
             /\ \A j \in DOMAIN orders :
                    /\ orders'[j].session = orders[j].session
                    /\ orders'[j].offer = orders[j].offer
                    /\ orders[j].status <= orders'[j].status
  BY <1>p, OrderProgress DEF IInv
<1>g. ASSUME NEW s \in Sessions, Create(s), NEW entries, NEW t, Has(entries, t)
      PROVE  \E e \in entries :
                 e.order \in DOMAIN orders' /\ orders'[e.order].session = t
  BY <1>0, <1>g DEF Has
<1>h. ASSUME NEW i \in DOMAIN orders, Progress(i), NEW entries, NEW t,
             Has(entries, t)
      PROVE  \E e \in entries :
                 e.order \in DOMAIN orders' /\ orders'[e.order].session = t
  BY <1>p, <1>h DEF Has
<1>f. ASSUME UNCHANGED <<request, writing, file, lost, orders>> PROVE Kept'
  BY <1>f DEF IInv, Kept, Has, LoopFree, Writers
<1> USE DEF IInv, commandVars, listVars, agentVars, ambossVars, Handling, Over, Goto, End,
            Handle
<1>1. ASSUME NEW s \in Sessions, CommandStep(s) PROVE Kept'
  <2>1. CASE Confirm(s)
    <3>1. UNCHANGED <<request, writing, file, lost, orders>>
      BY <2>1 DEF Confirm
    <3>2. QED
      BY <3>1, <1>f
  <2>2. CASE Decline(s)
    <3>1. UNCHANGED <<request, writing, file, lost, orders>>
      BY <2>2 DEF Decline
    <3>2. QED
      BY <3>1, <1>f
  <2>3. ASSUME NEW offer \in Offers, Choose(s, offer) PROVE Kept'
    <3>1. UNCHANGED <<request, writing, file, lost, orders>>
      BY <2>3 DEF Choose
    <3>2. QED
      BY <3>1, <1>f
  <2>4. CASE ChooseNone(s)
    <3>1. UNCHANGED <<request, writing, file, lost, orders>>
      BY <2>4 DEF ChooseNone
    <3>2. QED
      BY <3>1, <1>f
  <2>5. CASE Post(s)
    <3>1. /\ UNCHANGED <<writing, file, lost, orders>>
          /\ request' = [request EXCEPT ![s] = "queued"] /\ request[s] = "none"
      BY <2>5 DEF Post, SessionState
    <3>2. \A t \in Sessions :
              /\ request'[t] = "placed" <=> request[t] = "placed"
              /\ request'[t] = "writing" <=> request[t] = "writing"
      BY <3>1 DEF TypeOK
    <3>3. QED
      BY <3>1, <3>2 DEF Kept, Has, LoopFree, Writers
  <2>6. CASE PostFails(s)
    <3>1. UNCHANGED <<request, writing, file, lost, orders>>
      BY <2>6 DEF PostFails
    <3>2. QED
      BY <3>1, <1>f
  <2>7. CASE Answered(s)
    <3>1. UNCHANGED <<request, writing, file, lost, orders>>
      BY <2>7 DEF Answered
    <3>2. QED
      BY <3>1, <1>f
  <2>8. CASE TimesOut(s)
    <3>1. UNCHANGED <<request, writing, file, lost, orders>>
      BY <2>8 DEF TimesOut
    <3>2. QED
      BY <3>1, <1>f
  <2>9. CASE Interrupt(s)
    <3>1. UNCHANGED <<request, writing, file, lost, orders>>
      BY <2>9 DEF Interrupt
    <3>2. QED
      BY <3>1, <1>f
  <2>10. QED
    BY <1>1, <2>1, <2>2, <2>3, <2>4, <2>5, <2>6, <2>7, <2>8, <2>9
       DEF CommandStep
<1>2. ASSUME NEW s \in Sessions, BuyStep(s) PROVE Kept'
  <2>1. CASE AskAmboss(s)
    BY <2>1 DEF AskAmboss, Kept, Has, LoopFree, Writers, TypeOK
  <2>2. CASE AskFails(s)
    BY <2>2 DEF AskFails, Kept, Has, LoopFree, Writers, TypeOK
  <2>3. CASE CallFails(s)
    BY <2>3 DEF CallFails, Kept, Has, LoopFree, Writers, TypeOK
  <2>4. CASE BeginSave(s)
    <3>1. /\ request' = [request EXCEPT ![s] = "writing"] /\ request[s] = "calling"
          /\ writing' = [writing EXCEPT ![s] = WithOrder(s)]
          /\ UNCHANGED <<orders, lost>> /\ LoopFree /\ answer[s] # NoOrder
      BY <2>4 DEF BeginSave
    <3>2. request \in [Sessions -> {"none"} \cup Handling \cup Over]
          /\ writing \in [Sessions -> SUBSET Entry]
      BY DEF TypeOK
    <3>3. orders[answer[s]].session = s
      BY <3>1 DEF OrderState
    <3>4. ASSUME ~lost', NEW t \in Sessions, request'[t] = "placed"
          PROVE  \E e \in WithOrder(s) :
                     e.order \in DOMAIN orders' /\ orders'[e.order].session = t
      <4>1. request[t] = "placed" /\ t # s
        BY <3>1, <3>2, <3>4
      <4>2. Has(file, t)
        BY <3>1, <3>4, <4>1 DEF Kept
      <4>3. QED
        BY <3>1, <3>3, <4>1, <4>2 DEF Has, WithOrder
    <3>5. ASSUME NEW t \in Sessions, request'[t] = "writing"
          PROVE  writing'[t] = WithOrder(s)
      BY <3>1, <3>2, <3>5 DEF LoopFree, Writers
    <3>6. ~LoopFree'
      BY <3>1, <3>2 DEF LoopFree, Writers
    <3>7. QED
      BY <3>4, <3>5, <3>6 DEF Kept, Has
  <2>5. CASE BeginSaveFails(s)
    BY <2>5 DEF BeginSaveFails, Kept, Has, LoopFree, Writers, TypeOK
  <2>6. CASE EndSave(s)
    <3>1. /\ request' = [request EXCEPT ![s] = "placed"] /\ request[s] = "writing"
          /\ file' = writing[s]
          /\ UNCHANGED <<orders, lost>>
      BY <2>6 DEF EndSave
    <3>2. request \in [Sessions -> {"none"} \cup Handling \cup Over]
      BY DEF TypeOK
    <3>3. ASSUME ~lost', NEW t \in Sessions, request'[t] = "placed"
          PROVE  \E e \in file' :
                     e.order \in DOMAIN orders' /\ orders'[e.order].session = t
      <4>1. CASE t = s
        BY <3>1, <4>1 DEF Written, Has
      <4>2. CASE t # s
        BY <3>1, <3>2, <3>3, <4>2 DEF Kept, Has
      <4>3. QED
        BY <4>1, <4>2
    <3>4. ASSUME NEW t \in Sessions PROVE request'[t] # "writing"
      BY <3>1, <3>2 DEF OneWriter
    <3>5. QED
      BY <3>3, <3>4 DEF Kept, Has
  <2>7. CASE EndSaveFails(s)
    BY <2>7 DEF EndSaveFails, Kept, Has, LoopFree, Writers, TypeOK
  <2>8. QED
    BY <1>2, <2>1, <2>2, <2>3, <2>4, <2>5, <2>6, <2>7 DEF BuyStep
<1>3. ASSUME NEW s \in Sessions, Create(s) PROVE Kept'
  <2>1. UNCHANGED <<request, writing, file, lost>>
    BY <1>3 DEF Create
  <2>2. SUFFICES ASSUME ~lost, NEW t \in Sessions, request[t] = "placed"
                 PROVE  /\ LoopFree => Has(file, t)'
                        /\ \A w \in Sessions :
                               request[w] = "writing" => Has(writing[w], t)'
    BY <2>1 DEF Kept, LoopFree, Writers
  <2>3. ASSUME NEW entries, Has(entries, t)
        PROVE  \E e \in entries :
                   e.order \in DOMAIN orders' /\ orders'[e.order].session = t
    BY <1>3, <2>3, <1>g
  <2>4. /\ LoopFree => Has(file, t)
        /\ \A w \in Sessions : request[w] = "writing" => Has(writing[w], t)
    BY <2>2 DEF Kept
  <2>5. QED
    BY <2>1, <2>3, <2>4 DEF Has
<1>4. ASSUME NEW s \in Sessions, Refuse(s) PROVE Kept'
  <2>1. UNCHANGED <<request, writing, file, lost, orders>>
    BY <1>4 DEF Refuse
  <2>2. QED
    BY <2>1, <1>f
<1>5. CASE BeginListing
  <2>1. UNCHANGED <<request, writing, file, lost, orders>>
    BY <1>5 DEF BeginListing
  <2>2. QED
    BY <2>1, <1>f
<1>6. ASSUME NEW e \in cached, Refresh(e) PROVE Kept'
  <2>1. UNCHANGED <<request, writing, file, lost, orders>>
    BY <1>6 DEF Refresh
  <2>2. QED
    BY <2>1, <1>f
<1>7. CASE EndListing
  <2>1. UNCHANGED <<request, writing, file, lost, orders>>
    BY <1>7 DEF EndListing
  <2>2. QED
    BY <2>1, <1>f
<1>8. CASE Crash
  <2>1. /\ \A t \in Sessions : request'[t] = IF request[t] \in Handling
                                             THEN "failed" ELSE request[t]
        /\ file' \in {file} \cup {writing[s] : s \in Writers}
        /\ UNCHANGED orders
        /\ lost' = (lost \/ ~LoopFree)
    BY <1>8 DEF Crash
  <2>2. SUFFICES ASSUME ~lost' PROVE Kept'
    BY DEF Kept
  <2>3. ~lost /\ LoopFree /\ file' = file
    <3>1. ~lost /\ LoopFree
      BY <2>1, <2>2
    <3>2. QED
      BY <2>1, <3>1 DEF LoopFree
  <2>4. ASSUME NEW t \in Sessions
        PROVE  /\ request'[t] # "writing"
               /\ request'[t] = "placed" => request[t] = "placed"
    BY <2>1
  <2>5. ASSUME NEW t \in Sessions, request'[t] = "placed"
        PROVE  \E e \in file' :
                   e.order \in DOMAIN orders' /\ orders'[e.order].session = t
    BY <2>1, <2>3, <2>4, <2>5 DEF Kept, Has
  <2>6. QED
    BY <2>4, <2>5 DEF Kept, Has
<1>9. CASE Restart
  <2>1. UNCHANGED <<request, writing, file, lost, orders>>
    BY <1>9 DEF Restart
  <2>2. QED
    BY <2>1, <1>f
<1>10. ASSUME NEW i \in DOMAIN orders, Progress(i) PROVE Kept'
  <2>1. UNCHANGED <<request, writing, file, lost>>
    BY <1>10 DEF Progress
  <2>2. SUFFICES ASSUME ~lost, NEW t \in Sessions, request[t] = "placed"
                 PROVE  /\ LoopFree => Has(file, t)'
                        /\ \A w \in Sessions :
                               request[w] = "writing" => Has(writing[w], t)'
    BY <2>1 DEF Kept, LoopFree, Writers
  <2>3. ASSUME NEW entries, Has(entries, t)
        PROVE  \E e \in entries :
                   e.order \in DOMAIN orders' /\ orders'[e.order].session = t
    BY <1>10, <2>3, <1>h
  <2>4. /\ LoopFree => Has(file, t)
        /\ \A w \in Sessions : request[w] = "writing" => Has(writing[w], t)
    BY <2>2 DEF Kept
  <2>5. QED
    BY <2>1, <2>3, <2>4 DEF Has
<1>11. CASE UNCHANGED vars
  <2>1. UNCHANGED <<request, writing, file, lost, orders>>
    BY <1>11 DEF vars
  <2>2. QED
    BY <2>1, <1>f
<1>12. QED
  BY <1>1, <1>2, <1>3, <1>4, <1>5, <1>6, <1>7, <1>8, <1>9, <1>10, <1>11
     DEF Next

\* A listing finds what was placed before it began, in the file or refreshed.
LEMMA ListingStep == ASSUME IInv, TypeOK', [Next]_vars PROVE ListingOwes'
<1>0. ASSUME NEW s \in Sessions, Create(s)
      PROVE  /\ Len(orders') = Len(orders) + 1
             /\ \A i \in DOMAIN orders : i \in DOMAIN orders' /\ orders'[i] = orders[i]
             /\ \A i \in DOMAIN orders' : i \in DOMAIN orders \/ i = Len(orders')
             /\ Len(orders) + 1 \in DOMAIN orders'
             /\ orders'[Len(orders) + 1] =
                    [session |-> s, offer |-> target[s], status |-> 1]
             /\ Len(orders) \in Nat
  BY <1>0, OrderCreated DEF IInv
<1>p. ASSUME NEW i \in DOMAIN orders, Progress(i)
      PROVE  /\ DOMAIN orders' = DOMAIN orders
             /\ \A j \in DOMAIN orders :
                    /\ orders'[j].session = orders[j].session
                    /\ orders'[j].offer = orders[j].offer
                    /\ orders[j].status <= orders'[j].status
  BY <1>p, OrderProgress DEF IInv
<1>f. ASSUME UNCHANGED <<request, lost, lister, due, cached, results, orders>>
      PROVE  ListingOwes'
  BY <1>f DEF IInv, ListingOwes
<1>o. ASSUME UNCHANGED <<lister, due, cached, results, orders>>, lost => lost',
             \A t \in Sessions : request[t] \in Over => request'[t] = request[t]
      PROVE  ListingOwes'
  <2>1. ASSUME NEW i \in due
        PROVE  /\ i \in DOMAIN orders
               /\ request[orders[i].session] \in Over
               /\ request'[orders[i].session] = request[orders[i].session]
    <3>1. i \in DOMAIN orders /\ request[orders[i].session] \in Over
      BY DEF IInv, ListingOwes
    <3>2. orders[i] \in Order
      BY <3>1 DEF IInv, TypeOK
    <3>3. orders[i].session \in Sessions
      BY <3>2 DEF Order
    <3>4. QED
      BY <1>o, <3>1, <3>3
  <2>2. QED
    BY <1>o, <2>1 DEF IInv, ListingOwes
<1>q. ASSUME UNCHANGED <<lister, due, cached, results, request, lost>>,
             \A i \in DOMAIN orders : /\ i \in DOMAIN orders'
                                      /\ orders'[i].session = orders[i].session
      PROVE  ListingOwes'
  BY <1>q DEF IInv, ListingOwes
<1> USE DEF IInv, commandVars, listVars, agentVars, ambossVars, Handling, Over, Goto, End,
            Handle
<1>1. ASSUME NEW s \in Sessions, CommandStep(s) PROVE ListingOwes'
  <2>1. CASE Confirm(s)
    <3>1. UNCHANGED <<request, lost, lister, due, cached, results, orders>>
      BY <2>1 DEF Confirm
    <3>2. QED
      BY <3>1, <1>f
  <2>2. CASE Decline(s)
    <3>1. UNCHANGED <<request, lost, lister, due, cached, results, orders>>
      BY <2>2 DEF Decline
    <3>2. QED
      BY <3>1, <1>f
  <2>3. ASSUME NEW offer \in Offers, Choose(s, offer) PROVE ListingOwes'
    <3>1. UNCHANGED <<request, lost, lister, due, cached, results, orders>>
      BY <2>3 DEF Choose
    <3>2. QED
      BY <3>1, <1>f
  <2>4. CASE ChooseNone(s)
    <3>1. UNCHANGED <<request, lost, lister, due, cached, results, orders>>
      BY <2>4 DEF ChooseNone
    <3>2. QED
      BY <3>1, <1>f
  <2>5. CASE Post(s)
    <3>1. UNCHANGED <<lister, due, cached, results, orders>> /\ (lost => lost')
      BY <2>5 DEF Post
    <3>2. \A t \in Sessions : request[t] \in Over => request'[t] = request[t]
      BY <2>5 DEF Post, SessionState, TypeOK
    <3>3. QED
      BY <3>1, <3>2, <1>o
  <2>6. CASE PostFails(s)
    <3>1. UNCHANGED <<request, lost, lister, due, cached, results, orders>>
      BY <2>6 DEF PostFails
    <3>2. QED
      BY <3>1, <1>f
  <2>7. CASE Answered(s)
    <3>1. UNCHANGED <<request, lost, lister, due, cached, results, orders>>
      BY <2>7 DEF Answered
    <3>2. QED
      BY <3>1, <1>f
  <2>8. CASE TimesOut(s)
    <3>1. UNCHANGED <<request, lost, lister, due, cached, results, orders>>
      BY <2>8 DEF TimesOut
    <3>2. QED
      BY <3>1, <1>f
  <2>9. CASE Interrupt(s)
    <3>1. UNCHANGED <<request, lost, lister, due, cached, results, orders>>
      BY <2>9 DEF Interrupt
    <3>2. QED
      BY <3>1, <1>f
  <2>10. QED
    BY <1>1, <2>1, <2>2, <2>3, <2>4, <2>5, <2>6, <2>7, <2>8, <2>9
       DEF CommandStep
<1>2. ASSUME NEW s \in Sessions, BuyStep(s) PROVE ListingOwes'
  <2>1. CASE AskAmboss(s)
    <3>1. UNCHANGED <<lister, due, cached, results, orders>> /\ (lost => lost')
      BY <2>1 DEF AskAmboss
    <3>2. \A t \in Sessions : request[t] \in Over => request'[t] = request[t]
      BY <2>1 DEF AskAmboss, SessionState, TypeOK
    <3>3. QED
      BY <3>1, <3>2, <1>o
  <2>2. CASE AskFails(s)
    <3>1. UNCHANGED <<lister, due, cached, results, orders>> /\ (lost => lost')
      BY <2>2 DEF AskFails
    <3>2. \A t \in Sessions : request[t] \in Over => request'[t] = request[t]
      BY <2>2 DEF AskFails, SessionState, TypeOK
    <3>3. QED
      BY <3>1, <3>2, <1>o
  <2>3. CASE CallFails(s)
    <3>1. UNCHANGED <<lister, due, cached, results, orders>> /\ (lost => lost')
      BY <2>3 DEF CallFails
    <3>2. \A t \in Sessions : request[t] \in Over => request'[t] = request[t]
      BY <2>3 DEF CallFails, SessionState, TypeOK
    <3>3. QED
      BY <3>1, <3>2, <1>o
  <2>4. CASE BeginSave(s)
    <3>1. UNCHANGED <<lister, due, cached, results, orders>> /\ (lost => lost')
      BY <2>4 DEF BeginSave
    <3>2. \A t \in Sessions : request[t] \in Over => request'[t] = request[t]
      BY <2>4 DEF BeginSave, SessionState, TypeOK
    <3>3. QED
      BY <3>1, <3>2, <1>o
  <2>5. CASE BeginSaveFails(s)
    <3>1. UNCHANGED <<lister, due, cached, results, orders>> /\ (lost => lost')
      BY <2>5 DEF BeginSaveFails
    <3>2. \A t \in Sessions : request[t] \in Over => request'[t] = request[t]
      BY <2>5 DEF BeginSaveFails, SessionState, TypeOK
    <3>3. QED
      BY <3>1, <3>2, <1>o
  <2>6. CASE EndSave(s)
    <3>1. UNCHANGED <<lister, due, cached, results, orders>> /\ (lost => lost')
      BY <2>6 DEF EndSave
    <3>2. \A t \in Sessions : request[t] \in Over => request'[t] = request[t]
      BY <2>6 DEF EndSave, SessionState, TypeOK
    <3>3. QED
      BY <3>1, <3>2, <1>o
  <2>7. CASE EndSaveFails(s)
    <3>1. UNCHANGED <<lister, due, cached, results, orders>> /\ (lost => lost')
      BY <2>7 DEF EndSaveFails
    <3>2. \A t \in Sessions : request[t] \in Over => request'[t] = request[t]
      BY <2>7 DEF EndSaveFails, SessionState, TypeOK
    <3>3. QED
      BY <3>1, <3>2, <1>o
  <2>8. QED
    BY <1>2, <2>1, <2>2, <2>3, <2>4, <2>5, <2>6, <2>7 DEF BuyStep
<1>3. ASSUME NEW s \in Sessions, Create(s) PROVE ListingOwes'
  <2>1. UNCHANGED <<lister, due, cached, results, request, lost>>
    BY <1>3 DEF Create
  <2>2. \A j \in DOMAIN orders : /\ j \in DOMAIN orders'
                                 /\ orders'[j].session = orders[j].session
    BY <1>3, <1>0
  <2>3. QED
    BY <2>1, <2>2, <1>q
<1>4. ASSUME NEW s \in Sessions, Refuse(s) PROVE ListingOwes'
  <2>1. UNCHANGED <<request, lost, lister, due, cached, results, orders>>
    BY <1>4 DEF Refuse
  <2>2. QED
    BY <2>1, <1>f
<1>5. CASE BeginListing
  <2>1. /\ LoopFree /\ UNCHANGED <<request, lost, orders>>
        /\ cached' = file /\ results' = {}
        /\ due' = {i \in DOMAIN orders : request[orders[i].session] \in Over}
    BY <1>5 DEF BeginListing
  <2>2. ASSUME ~lost, NEW i \in due', request[orders[i].session] = "placed"
        PROVE  \E e \in file : e.order = i
    <3>1. i \in DOMAIN orders /\ orders[i] \in Order
      BY <2>1 DEF TypeOK
    <3>2. orders[i].session \in Sessions
      BY <3>1 DEF Order
    <3>3. PICK e \in file : /\ e.order \in DOMAIN orders
                            /\ orders[e.order].session = orders[i].session
      BY <2>1, <2>2, <3>2 DEF Kept, Has
    <3>4. e.order = i
      BY <3>1, <3>3 DEF OrderState
    <3>5. QED
      BY <3>4
  <2>3. QED
    BY <2>1, <2>2 DEF ListingOwes
<1>6. ASSUME NEW e \in cached, Refresh(e) PROVE ListingOwes'
  <2>1. PICK status \in LiveStatuses(e) \cup {e.status} :
            results' = results \cup {[e EXCEPT !.status = status]}
    BY <1>6 DEF Refresh
  <2>2. /\ UNCHANGED <<lister, due, request, lost, orders>>
        /\ cached' = cached \ {e}
    BY <1>6 DEF Refresh
  <2>3. [e EXCEPT !.status = status].order = e.order
    <3>1. e \in Entry
      BY DEF TypeOK
    <3>2. QED
      BY <3>1 DEF Entry
  <2>4. ASSUME NEW i, \E c \in cached \cup results : c.order = i
        PROVE  \E c \in cached' \cup results' : c.order = i
    BY <2>1, <2>2, <2>3, <2>4
  <2>5. QED
    BY <2>2, <2>4 DEF ListingOwes
<1>7. CASE EndListing
  BY <1>7 DEF EndListing, ListingOwes
<1>8. CASE Crash
  BY <1>8 DEF Crash, ListingOwes
<1>9. CASE Restart
  <2>1. UNCHANGED <<request, lost, lister, due, cached, results, orders>>
    BY <1>9 DEF Restart
  <2>2. QED
    BY <2>1, <1>f
<1>10. ASSUME NEW i \in DOMAIN orders, Progress(i) PROVE ListingOwes'
  <2>1. UNCHANGED <<lister, due, cached, results, request, lost>>
    BY <1>10 DEF Progress
  <2>2. \A j \in DOMAIN orders : /\ j \in DOMAIN orders'
                                 /\ orders'[j].session = orders[j].session
    BY <1>10, <1>p
  <2>3. QED
    BY <2>1, <2>2, <1>q
<1>11. CASE UNCHANGED vars
  <2>1. UNCHANGED <<request, lost, lister, due, cached, results, orders>>
    BY <1>11 DEF vars
  <2>2. QED
    BY <2>1, <1>f
<1>12. QED
  BY <1>1, <1>2, <1>3, <1>4, <1>5, <1>6, <1>7, <1>8, <1>9, <1>10, <1>11
     DEF Next

-----------------------------------------------------------------------------
(* The theorems.                                                             *)

LEMMA InitInv == ASSUME Init PROVE IInv
<1>1. TypeOK
  <2>1. up \in BOOLEAN /\ lost \in BOOLEAN
    BY Zenon DEF Init
  <2>2. orders \in Seq(Order) /\ restarts \in Nat /\ answer \in [Sessions -> Nat]
    BY DEF Init, NoOrder
  <2>3. QED
    BY <2>1, <2>2 DEF Init, TypeOK, Places, Told, Handling, Over
<1> USE DEF Init
<1>2. SessionState /\ OrderState
  BY DEF SessionState, OrderState, NoOrder
<1>3. AllKnown /\ OneWriter /\ Kept /\ Written /\ ListingOwes
  BY DEF AllKnown, Known, OneWriter, Kept, Written, ListingOwes
<1>4. QED
  BY <1>1, <1>2, <1>3 DEF IInv

LEMMA NextInv == ASSUME IInv, [Next]_vars PROVE IInv'
<1>1. TypeOK'
  BY TypeStep DEF IInv
<1>2. SessionState' /\ OneWriter'
  BY <1>1, SessionStep, WriterStep
<1>3. OrderState' /\ AllKnown'
  BY <1>1, OrderStep, KnownStep
<1>4. Written' /\ Kept' /\ ListingOwes'
  BY <1>1, WrittenStep, KeptStep, ListingStep
<1>5. QED
  BY <1>1, <1>2, <1>3, <1>4 DEF IInv

LEMMA Inductive == Spec => []IInv
BY InitInv, NextInv, PTL DEF Spec

\* Whatever the sessions, the agent and Amboss do, no order is created without
\* an offer, and every entry written to the file is one of an order.
THEOREM TypeCorrect == Spec => []TypeOK
<1>1. IInv => TypeOK
  BY DEF IInv
<1>2. QED
  BY Inductive, <1>1, PTL

\* The operator's approval covers one order at most, of the offer chosen, also
\* when the command or the agent gives up waiting and the order is made later.
THEOREM ApprovedOnly == Spec => []OrdersApproved
<1>1. ASSUME IInv PROVE OrdersApproved
  <2>1. SUFFICES ASSUME NEW i \in DOMAIN orders
                 PROVE  LET s == orders[i].session
                        IN  /\ s \in audited
                            /\ orders[i].offer = target[s]
                            /\ told[s] # "nothing"
                            /\ \A j \in DOMAIN orders :
                                   orders[j].session = s => j = i
    BY DEF OrdersApproved
  <2>2. orders[i] \in Order
    BY <1>1 DEF IInv, TypeOK
  <2>3. orders[i].session \in Sessions
    BY <2>2 DEF Order
  <2>4. /\ request[orders[i].session] # "none"
        /\ orders[i].offer = target[orders[i].session]
        /\ \A j \in DOMAIN orders :
               orders[j].session = orders[i].session => j = i
    BY <1>1 DEF IInv, OrderState
  <2>5. QED
    BY <1>1, <2>3, <2>4 DEF IInv, SessionState
<1>2. QED
  BY Inductive, <1>1, PTL

\* Concurrent purchases never drop one another's orders from the file.
THEOREM NothingDropped == Spec => []PlacedIsKept
<1>1. ASSUME IInv PROVE PlacedIsKept
  <2>1. SUFFICES ASSUME ~lost, LoopFree, NEW s \in Sessions, told[s] = "placed"
                 PROVE  \E e \in file : /\ e.offer = target[s]
                                        /\ e.order \in DOMAIN orders
                                        /\ orders[e.order].session = s
    BY DEF PlacedIsKept
  <2>2. request[s] = "placed"
    BY <1>1, <2>1 DEF IInv, SessionState
  <2>3. PICK e \in file : e.order \in DOMAIN orders /\ orders[e.order].session = s
    BY <1>1, <2>1, <2>2 DEF IInv, Kept, Has
  <2>4. e.offer = orders[e.order].offer
    BY <1>1 DEF IInv, AllKnown, Known
  <2>5. orders[e.order].offer = target[s]
    BY <1>1, <2>3 DEF IInv, OrderState
  <2>6. QED
    BY <2>3, <2>4, <2>5
<1>2. QED
  BY Inductive, <1>1, PTL

\* A listing that purchases and Amboss run alongside shows only orders of this
\* node, never ahead of Amboss, and every order placed before it began.
THEOREM ListingCorrect == Spec => []ListingTrue
<1>1. ASSUME IInv PROVE ListingTrue
  <2>1. Known(results)
    BY <1>1 DEF IInv, AllKnown
  <2>2. ~lost /\ Listed =>
            \A i \in due : request[orders[i].session] = "placed" =>
                \E e \in results : e.order = i
    BY <1>1 DEF IInv, ListingOwes, Listed
  <2>3. QED
    BY <2>1, <2>2 DEF ListingTrue, Known
<1>2. QED
  BY Inductive, <1>1, PTL

-----------------------------------------------------------------------------
(* What the operator is promised.                                            *)

\* A session has no offer until it chooses one, and a request that got as far
\* as the file has its order.
Early ==
    \A s \in Sessions :
        /\ pc[s] \in {"start", "offers"} => target[s] = NoOffer
        /\ request[s] \in {"writing", "placed"} => OrdersOf(s) # {}

\* The orders of each session change with Create alone, and stay what they are.
SameOrders ==
    \A s \in Sessions :
        /\ OrdersOf(s)' = OrdersOf(s)
        /\ \A i \in OrdersOf(s) : orders'[i].offer = orders[i].offer

LEMMA UnchangedIsSame == UNCHANGED orders => SameOrders
BY DEF SameOrders, OrdersOf

LEMMA ProgressIsSame ==
    ASSUME TypeOK, NEW i \in DOMAIN orders, Progress(i)
    PROVE  SameOrders
BY OrderProgress DEF SameOrders, OrdersOf

\* The order created is the first of its session and the only one to be new.
LEMMA CreatedFor ==
    ASSUME IInv, NEW s \in Sessions, Create(s)
    PROVE  /\ OrdersOf(s) = {}
           /\ \E new :
                  /\ OrdersOf(s)' = {new}
                  /\ orders'[new].offer = target[s]
           /\ \A t \in Sessions \ {s} :
                  /\ OrdersOf(t)' = OrdersOf(t)
                  /\ \A i \in OrdersOf(t) : orders'[i].offer = orders[i].offer
<1> DEFINE new == Len(orders) + 1
<1>1. /\ \A i \in DOMAIN orders : i \in DOMAIN orders' /\ orders'[i] = orders[i]
      /\ \A i \in DOMAIN orders' : i \in DOMAIN orders \/ i = new
      /\ new \in DOMAIN orders'
      /\ orders'[new] = [session |-> s, offer |-> target[s], status |-> 1]
  <2>1. Len(orders') = Len(orders) + 1
    BY OrderCreated DEF IInv
  <2> QED BY <2>1, OrderCreated DEF IInv
<1>2. orders'[new].session = s /\ orders'[new].offer = target[s]
  BY <1>1
<1>3. OrdersOf(s) = {}
  BY DEF IInv, OrderState, OrdersOf, Create
<1> HIDE DEF new
<1>4. OrdersOf(s)' = {new}
  BY <1>1, <1>2, <1>3 DEF OrdersOf
<1>5. ASSUME NEW t \in Sessions \ {s}
      PROVE  /\ OrdersOf(t)' = OrdersOf(t)
             /\ \A i \in OrdersOf(t) : orders'[i].offer = orders[i].offer
  BY <1>1, <1>2 DEF OrdersOf
<1> QED BY <1>2, <1>3, <1>4, <1>5

LEMMA EarlyInit == Init => Early
BY DEF Init, Early

LEMMA EarlyStep == IInv /\ Early /\ [Next]_vars => Early'
<1> SUFFICES ASSUME IInv, Early, [Next]_vars PROVE Early'
  OBVIOUS
<1> USE DEF IInv, TypeOK, Goto, End, Handle, commandVars, listVars, agentVars,
            ambossVars, Handling, Over
<1>a. ASSUME NEW s \in Sessions, CommandStep(s) \/ BuyStep(s) \/ Refuse(s)
      PROVE  UNCHANGED orders
  BY <1>a DEF CommandStep, BuyStep, Confirm, Decline, Choose, ChooseNone, Post,
     PostFails, Answered, TimesOut, Interrupt, AskAmboss, AskFails, CallFails,
     BeginSave, BeginSaveFails, EndSave, EndSaveFails, Refuse
<1>b. ASSUME SameOrders, UNCHANGED <<pc, target>>,
             \A t \in Sessions : request'[t] \in {"writing", "placed"} =>
                                     request[t] \in {"writing", "placed"}
      PROVE  Early'
  BY <1>b DEF SameOrders, Early
<1>1. ASSUME NEW s \in Sessions, CommandStep(s) PROVE Early'
  <2>1. SameOrders
    BY <1>1, <1>a, UnchangedIsSame
  <2>2. /\ \A t \in Sessions : pc'[t] \in {"start", "offers"} =>
               pc[t] \in {"start", "offers"} /\ target'[t] = target[t]
        /\ \A t \in Sessions : request'[t] \in {"writing", "placed"} =>
               request[t] \in {"writing", "placed"}
    BY <1>1 DEF CommandStep, Confirm, Decline, Choose, ChooseNone, Post,
       PostFails, Answered, TimesOut, Interrupt
  <2> QED BY <2>1, <2>2 DEF SameOrders, Early
<1>2. ASSUME NEW s \in Sessions, BuyStep(s) PROVE Early'
  <2>1. SameOrders /\ UNCHANGED <<pc, target>>
    BY <1>2, <1>a, UnchangedIsSame DEF BuyStep, AskAmboss, AskFails, CallFails,
       BeginSave, BeginSaveFails, EndSave, EndSaveFails
  <2>2. CASE BeginSave(s)
    <3>1. answer[s] \in OrdersOf(s)
      BY <2>2 DEF BeginSave, OrderState, OrdersOf
    <3>2. \A t \in Sessions : request'[t] \in {"writing", "placed"} =>
              t = s \/ request[t] \in {"writing", "placed"}
      BY <2>2 DEF BeginSave
    <3> QED BY <2>1, <3>1, <3>2 DEF SameOrders, Early
  <2>3. CASE ~BeginSave(s)
    <3>1. \A t \in Sessions : request'[t] \in {"writing", "placed"} =>
              request[t] \in {"writing", "placed"}
      BY <1>2, <2>3 DEF BuyStep, AskAmboss, AskFails, CallFails,
         BeginSaveFails, EndSave, EndSaveFails
    <3> QED BY <1>b, <2>1, <3>1
  <2> QED BY <2>2, <2>3
<1>3. ASSUME NEW s \in Sessions, Create(s) PROVE Early'
  <2>1. \A t \in Sessions : OrdersOf(t) # {} => OrdersOf(t)' # {}
    BY <1>3, CreatedFor
  <2>2. UNCHANGED <<pc, target, request>>
    BY <1>3 DEF Create
  <2> QED BY <2>1, <2>2 DEF Early
<1>4. ASSUME NEW s \in Sessions, Refuse(s) PROVE Early'
  BY <1>4, <1>a, <1>b, UnchangedIsSame DEF Refuse
<1>5. CASE \/ BeginListing \/ EndListing \/ Restart \/ UNCHANGED vars
           \/ \E e \in cached : Refresh(e)
  <2>1. UNCHANGED <<orders, pc, target, request>>
    BY <1>5 DEF BeginListing, EndListing, Restart, Refresh, vars
  <2> QED BY <2>1, <1>b, UnchangedIsSame
<1>6. CASE Crash
  <2>1. UNCHANGED <<orders, pc, target>>
    BY <1>6 DEF Crash
  <2>2. \A t \in Sessions : request'[t] \in {"writing", "placed"} =>
            request[t] \in {"writing", "placed"}
    BY <1>6 DEF Crash
  <2> QED BY <2>1, <2>2, <1>b, UnchangedIsSame
<1>7. ASSUME NEW i \in DOMAIN orders, Progress(i) PROVE Early'
  BY <1>7, <1>b, ProgressIsSame DEF Progress
<1> QED BY <1>1, <1>2, <1>3, <1>4, <1>5, <1>6, <1>7 DEF Next

\* The orders of a session, counted: it has one at most.
LEMMA OrdersCounted ==
    ASSUME IInv, NEW s \in Sessions, OrdersOf(s) # {}
    PROVE  Cardinality(OrdersOf(s)) = 1
<1>1. PICK i : i \in OrdersOf(s)
  OBVIOUS
<1>2. OrdersOf(s) = {i}
  BY <1>1 DEF OrdersOf, IInv, OrderState
<1> QED BY <1>2, FS_Singleton

\* At the start nothing is approved.
LEMMA PromiseInit == Init => Promise!Init
<1> SUFFICES ASSUME Init PROVE Promise!Init
  OBVIOUS
<1>1. \A s \in Sessions : OrdersOf(s) = {} /\ told[s] # "placed"
  BY DEF Init, OrdersOf
<1>2. [s \in Sessions |-> Cardinality(OrdersOf(s))] = [s \in Sessions |-> 0]
  BY <1>1, FS_EmptySet
<1>3. [s \in Sessions |-> {orders[i].offer : i \in OrdersOf(s)}]
          = [s \in Sessions |-> {}]
  BY <1>1
<1> QED BY <1>1, <1>2, <1>3 DEF Init, Promise!Init

\* An order is carried out for what its session chose, if its agent waits for
\* it or has long given it up.
LEMMA CreateIsCarryOut ==
    ASSUME IInv, NEW s \in Sessions, Create(s)
    PROVE  Promise!CarryOut(s)
<1> DEFINE count == [t \in Sessions |-> Cardinality(OrdersOf(t))]
           offers == [t \in Sessions |-> {orders[i].offer : i \in OrdersOf(t)}]
<1>1. s \in audited /\ target[s] \in Offers /\ target[s] # NoOffer
  <2>1. request[s] # "none"
    BY DEF Create, IInv, OrderState
  <2> QED BY <2>1, MagmaAssumption DEF IInv, SessionState
<1>2. UNCHANGED <<audited, target, told>>
  BY DEF Create, commandVars
<1>3. PICK new : OrdersOf(s)' = {new} /\ orders'[new].offer = target[s]
  BY CreatedFor
<1>4. count[s] = 0 /\ count' = [count EXCEPT ![s] = 1]
  <2>a. OrdersOf(s) = {}
    BY CreatedFor
  <2>b. Cardinality({}) = 0 /\ Cardinality({new}) = 1
    BY FS_EmptySet, FS_Singleton
  <2>1. Cardinality(OrdersOf(s)) = 0 /\ Cardinality(OrdersOf(s)') = 1
    BY <1>3, <2>a, <2>b
  <2>2. \A t \in Sessions \ {s} :
            Cardinality(OrdersOf(t)') = Cardinality(OrdersOf(t))
    BY CreatedFor
  <2> QED BY <2>1, <2>2
<1>5. offers' = [offers EXCEPT ![s] = {target[s]}]
  <2>1. {orders'[i].offer : i \in OrdersOf(s)'} = {target[s]}
    BY <1>3
  <2>2. ASSUME NEW t \in Sessions \ {s}
        PROVE  {orders'[i].offer : i \in OrdersOf(t)'}
                   = {orders[i].offer : i \in OrdersOf(t)}
    BY CreatedFor
  <2> QED BY <2>1, <2>2
<1> HIDE DEF count, offers
<1>6. [t \in Sessions |-> IF t \in audited THEN target[t] ELSE NoOffer][s]
          = target[s]
  BY <1>1
<1> QED BY <1>1, <1>2, <1>4, <1>5, <1>6 DEF Promise!CarryOut, count, offers

\* The offer of a session that is approved without one is the approval.
LEMMA ChooseIsGrant ==
    ASSUME IInv, Early, NEW s \in Sessions, NEW offer \in Offers,
           Choose(s, offer)
    PROVE  Promise!Grant(s, offer)
<1> DEFINE granted == [t \in Sessions |-> IF t \in audited THEN target[t]
                                          ELSE NoOffer]
<1>1. s \in audited /\ target[s] = NoOffer
  BY DEF Choose, IInv, SessionState, Early
<1>2. /\ target' = [target EXCEPT ![s] = offer] /\ DOMAIN target = Sessions
      /\ UNCHANGED <<audited, told, orders>>
  BY DEF Choose, ambossVars, IInv, TypeOK
<1>3. granted[s] = NoOffer /\ granted' = [granted EXCEPT ![s] = offer]
  BY <1>1, <1>2
<1>4. UNCHANGED [t \in Sessions |-> Cardinality(OrdersOf(t))]
  BY <1>2 DEF OrdersOf
<1>5. UNCHANGED [t \in Sessions |-> {orders[i].offer : i \in OrdersOf(t)}]
  BY <1>2 DEF OrdersOf
<1>6. UNCHANGED {t \in Sessions : told[t] = "placed"}
  BY <1>2
<1> HIDE DEF granted
<1> QED BY <1>3, <1>4, <1>5, <1>6 DEF Promise!Grant, granted

\* Nothing of the promise's concern.
LEMMA PromiseSame ==
    ASSUME SameOrders,
           UNCHANGED <<target, {t \in Sessions : told[t] = "placed"}>>,
           \A t \in Sessions : (t \in audited) = (t \in audited)'
                                 \/ target[t] = NoOffer
    PROVE  UNCHANGED Promise!vars
<1>1. UNCHANGED [t \in Sessions |-> IF t \in audited THEN target[t] ELSE NoOffer]
  OBVIOUS
<1>2. UNCHANGED [t \in Sessions |-> Cardinality(OrdersOf(t))]
  BY DEF SameOrders
<1>3. ASSUME NEW t \in Sessions
      PROVE  {orders'[i].offer : i \in OrdersOf(t)'}
                 = {orders[i].offer : i \in OrdersOf(t)}
  BY DEF SameOrders
<1>4. UNCHANGED [t \in Sessions |-> {orders[i].offer : i \in OrdersOf(t)}]
  BY <1>3
<1> QED BY <1>1, <1>2, <1>4 DEF Promise!vars

\* A session ends once, and says "placed" of an order there is.
LEMMA EndIsSay ==
    ASSUME IInv, Early, NEW s \in Sessions, NEW what, End(s, what),
           told[s] = "none", what = "placed" => request[s] = "placed",
           UNCHANGED <<audited, target, orders>>
    PROVE  [Promise!Next]_(Promise!vars)
<1> DEFINE said == {t \in Sessions : told[t] = "placed"}
<1>1. told' = [told EXCEPT ![s] = what] /\ DOMAIN told = Sessions
  BY DEF End, IInv, TypeOK
<1>2. SameOrders
  BY UnchangedIsSame
<1>3. CASE what = "placed"
  <2>1. Cardinality(OrdersOf(s)) = 1
    BY <1>3, OrdersCounted DEF Early
  <2>2. said' = said \cup {s}
    <3>1. \A t \in Sessions : told'[t] = "placed" <=> told[t] = "placed" \/ t = s
      BY <1>1, <1>3
    <3> QED BY <3>1
  <2>3. UNCHANGED [t \in Sessions |-> IF t \in audited THEN target[t] ELSE NoOffer]
    OBVIOUS
  <2>4. /\ UNCHANGED [t \in Sessions |-> Cardinality(OrdersOf(t))]
        /\ UNCHANGED [t \in Sessions |-> {orders[i].offer : i \in OrdersOf(t)}]
    BY DEF OrdersOf
  <2> HIDE DEF said
  <2>5. Promise!Say(s)
    BY <2>1, <2>2, <2>3, <2>4 DEF Promise!Say, said
  <2> QED BY <2>5 DEF Promise!Next
<1>4. CASE what # "placed"
  <2>1. said' = said
    BY <1>1, <1>4
  <2> QED BY <1>2, <2>1, PromiseSame
<1> QED BY <1>3, <1>4

\* Every step is a step of the promise, or none of its concern.
LEMMA PromiseStep ==
    IInv /\ Early /\ [Next]_vars => [Promise!Next]_(Promise!vars)
<1> SUFFICES ASSUME IInv, Early, [Next]_vars
             PROVE  [Promise!Next]_(Promise!vars)
  OBVIOUS
<1> USE DEF commandVars, listVars, agentVars, ambossVars
<1>a. ASSUME SameOrders, UNCHANGED commandVars
      PROVE  [Promise!Next]_(Promise!vars)
  BY <1>a, PromiseSame
<1>1. ASSUME NEW s \in Sessions, CommandStep(s)
      PROVE  [Promise!Next]_(Promise!vars)
  <2>1. CASE Confirm(s)
    <3>1. target[s] = NoOffer /\ SameOrders
      BY <2>1, UnchangedIsSame DEF Confirm, Early
    <3>2. audited' = audited \cup {s} /\ UNCHANGED <<target, told>>
      BY <2>1 DEF Confirm
    <3> QED BY <3>1, <3>2, PromiseSame
  <2>2. ASSUME NEW offer \in Offers, Choose(s, offer)
        PROVE  [Promise!Next]_(Promise!vars)
    BY <2>2, ChooseIsGrant DEF Promise!Next
  <2>3. CASE Post(s) \/ Interrupt(s)
    <3>1. SameOrders /\ UNCHANGED <<audited, target, told>>
      BY <2>3, UnchangedIsSame DEF Post, Interrupt
    <3> QED BY <3>1, PromiseSame
  <2>4. CASE Decline(s) \/ ChooseNone(s) \/ PostFails(s) \/ TimesOut(s)
    <3>1. told[s] = "none" /\ UNCHANGED <<audited, target, orders>>
      BY <2>4 DEF Decline, ChooseNone, PostFails, TimesOut, IInv, SessionState
    <3> QED BY <2>4, <3>1, EndIsSay
            DEF Decline, ChooseNone, PostFails, TimesOut
  <2>5. CASE Answered(s)
    <3>1. told[s] = "none" /\ UNCHANGED <<audited, target, orders>>
      BY <2>5 DEF Answered, IInv, SessionState
    <3> QED BY <2>5, <3>1, EndIsSay DEF Answered
  <2> QED BY <1>1, <2>1, <2>2, <2>3, <2>4, <2>5 DEF CommandStep
<1>2. ASSUME NEW s \in Sessions, BuyStep(s) \/ Refuse(s)
      PROVE  [Promise!Next]_(Promise!vars)
  <2>1. UNCHANGED <<commandVars, orders>>
    BY <1>2 DEF BuyStep, AskAmboss, AskFails, CallFails, BeginSave,
       BeginSaveFails, EndSave, EndSaveFails, Refuse
  <2> QED BY <1>a, <2>1, UnchangedIsSame
<1>3. ASSUME NEW s \in Sessions, Create(s)
      PROVE  [Promise!Next]_(Promise!vars)
  BY <1>3, CreateIsCarryOut DEF Promise!Next
<1>4. CASE \/ BeginListing \/ EndListing \/ Crash \/ Restart \/ UNCHANGED vars
           \/ \E e \in cached : Refresh(e)
  <2>1. UNCHANGED <<commandVars, orders>>
    BY <1>4 DEF BeginListing, EndListing, Crash, Restart, Refresh, vars
  <2> QED BY <1>a, <2>1, UnchangedIsSame
<1>5. ASSUME NEW i \in DOMAIN orders, Progress(i)
      PROVE  [Promise!Next]_(Promise!vars)
  BY <1>a, <1>5, ProgressIsSame DEF Progress, IInv
<1> QED BY <1>1, <1>2, <1>3, <1>4, <1>5 DEF Next

\* A purchase implements the promise: the offer the session chooses under its
\* approval is the only one ordered, whoever gives up waiting, dies, starts
\* again or answers late, and "placed" is said of an order there is.
THEOREM ImplementsPromise == Spec => PromiseSpec
<1>1. IInv /\ Early /\ [Next]_vars => [Promise!Next]_(Promise!vars)
  BY PromiseStep
<1> QED BY PromiseInit, EarlyInit, EarlyStep, Inductive, <1>1, PTL
        DEF Spec, PromiseSpec, Promise!Spec

=============================================================================
