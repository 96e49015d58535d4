----------------------------- MODULE WriteProofs -----------------------------
(***************************************************************************)
(* Proofs about WriteCommands, for any number of sessions, any commands and  *)
(* any state of LND.                                                         *)
(***************************************************************************)
EXTENDS WriteCommands, TLAPS

\* The variables of the sessions are functions on the sessions.
Shape ==
    /\ pc = [s \in Sessions |-> pc[s]]
    /\ plan = [s \in Sessions |-> plan[s]]
    /\ audit = [s \in Sessions |-> audit[s]]
    /\ told = [s \in Sessions |-> told[s]]
    /\ call = [s \in Sessions |-> call[s]]
    /\ log = [s \in Sessions |-> log[s]]

\* A session past its approval has the plan of its audit line, and what LND
\* has of it is of that plan: a call is sent at one step, once.
Approved ==
    \A s \in Sessions :
        /\ pc[s] \in {"approved", "connected", "waiting"} \/ call[s] # "none" =>
               audit[s] = plan[s]
        /\ pc[s] \in {"start", "asking", "approved", "connected"} =>
               call[s] = "none"
        /\ told[s] = "done" => call[s] = "performed"

\* Nothing is approved before the operator is asked, or told before the end.
Early ==
    \A s \in Sessions :
        /\ pc[s] \in {"start", "asking"} => audit[s] = NoPlan
        /\ told[s] # "nothing" => pc[s] = "ended"

\* The log has one entry for each call that LND has performed.
Logged ==
    \A s \in Sessions :
        log[s] = IF call[s] = "performed" THEN <<plan[s]>> ELSE <<>>

IInv == Shape /\ Approved /\ Early /\ Logged

\* It holds at the start.
LEMMA InvInit == Init => IInv
BY DEF Init, IInv, Shape, Approved, Early, Logged

\* The end of a session changes what it is told and nothing LND has.
LEMMA EndStep ==
    ASSUME IInv, NEW s \in Sessions, NEW report, End(s, report),
           report = "done" => call[s] = "performed"
    PROVE  IInv'
<1>1. /\ pc' = [pc EXCEPT ![s] = "ended"]
      /\ told' = [told EXCEPT ![s] = report]
      /\ UNCHANGED <<plan, audit, call, log>>
  BY DEF End, lndVars
<1>2. Shape'
  BY <1>1 DEF IInv, Shape
<1>3. Approved'
  BY <1>1 DEF IInv, Shape, Approved
<1>4. Early'
  BY <1>1 DEF IInv, Shape, Early
<1>5. Logged'
  BY <1>1 DEF IInv, Logged
<1> QED BY <1>2, <1>3, <1>4, <1>5 DEF IInv

\* A plan is made before anything is audited or called.
LEMMA ProposeStep ==
    ASSUME IInv, NEW s \in Sessions, NEW what, Propose(s, what)
    PROVE  IInv'
<1>1. /\ pc[s] = "start" /\ pc' = [pc EXCEPT ![s] = "asking"]
      /\ plan' = [plan EXCEPT ![s] = [kind |-> command[s].kind,
                                      what |-> what]]
      /\ UNCHANGED <<audit, told, call, log>>
  BY DEF Propose, Move, lndVars
<1>2. call[s] = "none"
  BY <1>1 DEF IInv, Approved
<1>3. Shape'
  BY <1>1 DEF IInv, Shape
<1>4. Approved'
  BY <1>1, <1>2 DEF IInv, Shape, Approved
<1>5. Early'
  BY <1>1 DEF IInv, Shape, Early
<1>6. Logged'
  BY <1>1, <1>2 DEF IInv, Shape, Logged
<1> QED BY <1>3, <1>4, <1>5, <1>6 DEF IInv

\* What LND performs is what was approved, and nothing was performed before.
LEMMA Performed ==
    ASSUME IInv, NEW s \in Sessions, Performs(s)
    PROVE  /\ call[s] = "sent" /\ call' = [call EXCEPT ![s] = "performed"]
           /\ audit[s] = plan[s]
           /\ log[s] = <<>>
           /\ log' = [log EXCEPT ![s] = <<plan[s]>>]
           /\ UNCHANGED <<pc, plan, audit, told>>
<1>1. /\ call[s] = "sent" /\ call' = [call EXCEPT ![s] = "performed"]
      /\ log' = [log EXCEPT ![s] = Append(log[s], plan[s])]
      /\ UNCHANGED <<pc, plan, audit, told>>
  BY DEF Performs, sessionVars
<1>2. log[s] = <<>> /\ audit[s] = plan[s]
  BY <1>1 DEF IInv, Logged, Approved
<1>3. Append(log[s], plan[s]) = <<plan[s]>>
  BY <1>2
<1> QED BY <1>1, <1>2, <1>3

\* It is logged once.
LEMMA PerformsStep ==
    ASSUME IInv, NEW s \in Sessions, Performs(s)
    PROVE  IInv'
<1>1. /\ call[s] = "sent" /\ call' = [call EXCEPT ![s] = "performed"]
      /\ audit[s] = plan[s]
      /\ log' = [log EXCEPT ![s] = <<plan[s]>>]
      /\ UNCHANGED <<pc, plan, audit, told>>
  BY Performed
<1>2. Shape'
  BY <1>1 DEF IInv, Shape
<1>3. Approved'
  BY <1>1 DEF IInv, Shape, Approved
<1>4. Early'
  BY <1>1 DEF IInv, Early
<1>5. Logged'
  BY <1>1 DEF IInv, Shape, Logged
<1> QED BY <1>2, <1>3, <1>4, <1>5 DEF IInv

\* Every step keeps the invariant.
LEMMA InvStep == IInv /\ [Next]_vars => IInv'
<1> SUFFICES ASSUME IInv, [Next]_vars PROVE IInv'
  OBVIOUS
<1>1. ASSUME NEW s \in Sessions, Prepare(s) PROVE IInv'
  <2>1. (\E what : Propose(s, what)) \/ End(s, "nothing")
    BY <1>1 DEF Prepare, PrepareSend, PrepareOpen, PreparePay, PrepareFees,
                PrepareClose, NotPrepared
  <2> QED BY <2>1, ProposeStep, EndStep
<1>2. ASSUME NEW s \in Sessions, Approve(s) PROVE IInv'
  <2>1. /\ pc[s] = "asking" /\ pc' = [pc EXCEPT ![s] = "approved"]
        /\ audit' = [audit EXCEPT ![s] = plan[s]]
        /\ UNCHANGED <<plan, told, call, log>>
    BY <1>2 DEF Approve, Move, lndVars
  <2>2. Shape'
    BY <2>1 DEF IInv, Shape
  <2>3. Approved'
    BY <2>1 DEF IInv, Shape, Approved
  <2>4. Early'
    BY <2>1 DEF IInv, Shape, Early
  <2>5. Logged'
    BY <2>1 DEF IInv, Logged
  <2> QED BY <2>2, <2>3, <2>4, <2>5 DEF IInv
<1>3. ASSUME NEW s \in Sessions, Decline(s) \/ Interrupt(s) PROVE IInv'
  BY <1>3, EndStep DEF Decline, Interrupt
<1>4. ASSUME NEW s \in Sessions, Connect(s) PROVE IInv'
  <2>1. /\ pc[s] = "approved" /\ pc' = [pc EXCEPT ![s] = "connected"]
        /\ UNCHANGED <<plan, audit, told, call, log>>
    BY <1>4 DEF Connect, Move, lndVars
  <2> QED BY <2>1 DEF IInv, Shape, Approved, Early, Logged
<1>5. ASSUME NEW s \in Sessions, Call(s) PROVE IInv'
  <2>1. /\ pc[s] \in {"approved", "connected"}
        /\ pc' = [pc EXCEPT ![s] = "waiting"]
        /\ call' = [call EXCEPT ![s] = "sent"]
        /\ UNCHANGED <<plan, audit, told, log>>
    BY <1>5 DEF Call, Move, lndVars
  <2>2. call[s] = "none" /\ audit[s] = plan[s] /\ told[s] # "done"
    BY <2>1 DEF IInv, Approved
  <2>3. Shape'
    BY <2>1 DEF IInv, Shape
  <2>4. Approved'
    BY <2>1, <2>2 DEF IInv, Shape, Approved
  <2>5. Early'
    BY <2>1 DEF IInv, Shape, Early
  <2>6. Logged'
    BY <2>1, <2>2 DEF IInv, Shape, Logged
  <2> QED BY <2>3, <2>4, <2>5, <2>6 DEF IInv
<1>6. ASSUME NEW s \in Sessions,
             Answered(s) \/ Unreadable(s) \/ TimesOut(s)
      PROVE  IInv'
  BY <1>6, EndStep DEF Answered, Unreadable, TimesOut
<1>7. ASSUME NEW s \in Sessions, Lnd(s) PROVE IInv'
  <2>1. CASE Refuses(s)
    <3>1. /\ call[s] = "sent" /\ call' = [call EXCEPT ![s] = "refused"]
          /\ UNCHANGED <<pc, plan, audit, told, log>>
      BY <2>1 DEF Refuses, sessionVars, lndVars
    <3> QED BY <3>1 DEF IInv, Shape, Approved, Early, Logged
  <2>2. CASE Performs(s)
    BY <2>2, PerformsStep
  <2> QED BY <1>7, <2>1, <2>2 DEF Lnd, Spends, Pays, Closes, Updates
<1>8. CASE UNCHANGED vars
  BY <1>8 DEF vars, sessionVars, lndVars, IInv, Shape, Approved, Early, Logged
<1> QED BY <1>1, <1>2, <1>3, <1>4, <1>5, <1>6, <1>7, <1>8 DEF Next, Execute

\* The invariant holds throughout.
THEOREM Invariant == Spec => []IInv
BY InvInit, InvStep, PTL DEF Spec

\* LND does what was approved, once for each approval.
THEOREM ApprovedOnly == Spec => []OnlyApproved
<1>1. IInv => OnlyApproved
  <2> SUFFICES ASSUME IInv, NEW s \in Sessions, log[s] # <<>>
               PROVE  log[s] = <<audit[s]>>
    BY DEF OnlyApproved
  <2>1. call[s] = "performed" /\ log[s] = <<plan[s]>>
    BY DEF IInv, Logged
  <2>2. audit[s] = plan[s]
    BY <2>1 DEF IInv, Approved
  <2> QED BY <2>1, <2>2
<1> QED BY <1>1, Invariant, PTL

\* A success that is reported has happened, and a refusal is never reported
\* as one.
THEOREM ReportedTrue == Spec => []ReportTrue
<1>1. IInv => ReportTrue
  <2> SUFFICES ASSUME IInv, NEW s \in Sessions, told[s] = "done"
               PROVE  call[s] = "performed" /\ log[s] # <<>>
    BY DEF ReportTrue
  <2>1. call[s] = "performed"
    BY DEF IInv, Approved
  <2>2. log[s] = <<plan[s]>>
    BY <2>1 DEF IInv, Logged
  <2>3. <<plan[s]>> # <<>>
    OBVIOUS
  <2> QED BY <2>1, <2>2, <2>3
<1> QED BY <1>1, Invariant, PTL

-----------------------------------------------------------------------------
(* The types.                                                                *)

\* What a plan of each kind is about.
LEMMA PlanOfKind ==
    ASSUME NEW p \in Plans \cup {NoPlan}
    PROVE  /\ p.kind \in {"send", "open"} => p.what \in Nat
           /\ p.kind = "pay" => p.what \in Invoices
           /\ p.kind # "none" => p \in Plans
BY WriteAssumption DEF Plans, NoPlan

\* A report ends a session and changes nothing else.
LEMMA EndTypes ==
    ASSUME TypeOK, NEW s \in Sessions, NEW report \in {"nothing", "done", "failed"},
           End(s, report)
    PROVE  TypeOK'
BY DEF TypeOK, End, lndVars

\* A plan that is proposed is one of Plans.
LEMMA ProposeTypes ==
    ASSUME TypeOK, NEW s \in Sessions, NEW what,
           [kind |-> command[s].kind, what |-> what] \in Plans, Propose(s, what)
    PROVE  TypeOK'
BY DEF TypeOK, Propose, Move, lndVars

\* Every way to prepare a command.
LEMMA PrepareTypes ==
    ASSUME TypeOK, NEW s \in Sessions, Prepare(s)
    PROVE  TypeOK'
<1>0. command[s] \in Commands
  BY DEF TypeOK
<1>1. CASE PrepareSend(s)
  <2>1. /\ command[s].kind = "send" /\ command[s].what \in Amounts
        /\ command[s].what \in 1 .. MaxOperation
    BY <1>0, <1>1, WriteAssumption DEF PrepareSend, SafeAmount, Commands
  <2>2. [kind |-> command[s].kind, what |-> command[s].what] \in Plans
    BY <2>1 DEF Plans
  <2> QED BY <1>1, <2>2, ProposeTypes DEF PrepareSend
<1>2. CASE PrepareOpen(s)
  <2>1. /\ command[s].kind = "open" /\ command[s].what \in Amounts
        /\ command[s].what \in 20000 .. MaxOperation
    BY <1>0, <1>2, WriteAssumption DEF PrepareOpen, SafeAmount, Commands
  <2>2. [kind |-> command[s].kind, what |-> command[s].what] \in Plans
    BY <2>1 DEF Plans
  <2> QED BY <1>2, <2>2, ProposeTypes DEF PrepareOpen
<1>3. CASE PreparePay(s) \/ PrepareFees(s)
  <2>1. [kind |-> command[s].kind, what |-> command[s].what] \in Plans
    BY <1>0, <1>3 DEF PreparePay, PrepareFees, Commands, Plans
  <2> QED BY <1>3, <2>1, ProposeTypes DEF PreparePay, PrepareFees
<1>4. CASE PrepareClose(s)
  <2>1. PICK i \in FirstMatch(s) : Propose(s, channels[i])
    BY <1>4 DEF PrepareClose
  <2>2. channels[i] \in Channels
    BY <2>1 DEF FirstMatch, TypeOK
  <2>3. [kind |-> command[s].kind, what |-> channels[i]] \in Plans
    BY <1>4, <2>2 DEF PrepareClose, Plans
  <2> QED BY <2>1, <2>3, ProposeTypes
<1>5. CASE NotPrepared(s)
  BY <1>5, EndTypes DEF NotPrepared
<1> QED BY <1>1, <1>2, <1>3, <1>4, <1>5 DEF Prepare

\* What LND does for a plan.
LEMMA LndTypes ==
    ASSUME TypeOK, NEW s \in Sessions, Lnd(s)
    PROVE  TypeOK'
<1>0. plan[s] \in Plans \cup {NoPlan}
  BY DEF TypeOK
<1>1. CASE Refuses(s)
  BY <1>1 DEF TypeOK, Refuses, sessionVars, lndVars
<1>2. ASSUME Performs(s), plan[s].kind # "none"
      PROVE  /\ UNCHANGED <<command, pc, plan, audit, told>>
             /\ call' \in [Sessions -> {"none", "sent", "performed", "refused"}]
             /\ log' \in [Sessions -> Seq(Plans)]
  <2>1. plan[s] \in Plans
    BY <1>0, <1>2, PlanOfKind
  <2>2. log[s] \in Seq(Plans)
    BY DEF TypeOK
  <2>3. Append(log[s], plan[s]) \in Seq(Plans)
    BY <2>1, <2>2
  <2> QED BY <1>2, <2>3 DEF TypeOK, Performs, sessionVars
<1>3. CASE Spends(s)
  <2>1. plan[s].what \in Nat /\ plan[s].kind # "none"
    BY <1>0, <1>3, PlanOfKind DEF Spends
  <2>2. PICK fee \in Fees : /\ wallet >= plan[s].what + fee + Reserved
                            /\ wallet' = wallet - (plan[s].what + fee)
    BY <1>3 DEF Spends
  <2>3. Performs(s) /\ UNCHANGED <<paid, channels>>
    BY <1>3 DEF Spends
  <2>4. /\ wallet \in 0 .. Funds
        /\ paid \subseteq Invoices
        /\ channels \in Seq(Channels)
    BY DEF TypeOK
  <2>5. fee \in Nat /\ Reserved \in Nat /\ Funds \in Nat
    BY <2>2, WriteAssumption
  <2>6. wallet' \in 0 .. Funds
    <3>1. \A what \in Nat : /\ wallet >= what + fee + Reserved
                           /\ wallet' = wallet - (what + fee)
                           => wallet' \in 0 .. Funds
      <4>1. wallet \in Nat /\ wallet <= Funds
        BY <2>4, <2>5
      <4> QED BY <2>5, <4>1
    <3>2. plan[s].what \in Nat
      BY <2>1
    <3> QED BY <2>2, <3>1, <3>2
  <2>7. paid' \subseteq Invoices /\ channels' \in Seq(Channels)
    BY <2>3, <2>4
  <2> HIDE DEF Performs
  <2> QED BY <1>2, <2>1, <2>3, <2>6, <2>7 DEF TypeOK
<1>4. CASE Pays(s)
  <2>1. plan[s].what \in Invoices /\ plan[s].kind # "none"
    BY <1>0, <1>4, PlanOfKind DEF Pays
  <2> QED BY <1>2, <1>4, <2>1 DEF TypeOK, Pays
<1>5. CASE Closes(s)
  <2>1. PICK i \in DOMAIN channels :
            channels' = SubSeq(channels, 1, i - 1)
                          \o SubSeq(channels, i + 1, Len(channels))
    BY <1>5 DEF Closes
  <2>2. channels' \in Seq(Channels)
    <3> HIDE DEF Channels
    <3>1. channels \in Seq(Channels) /\ Len(channels) \in Nat /\ i \in 1 .. Len(channels)
      BY DEF TypeOK
    <3>2. \A j \in 1 .. Len(channels) : channels[j] \in Channels
      BY <3>1
    <3>3. SubSeq(channels, 1, i - 1) \in Seq(Channels)
      BY <3>1, <3>2
    <3>4. SubSeq(channels, i + 1, Len(channels)) \in Seq(Channels)
      BY <3>1, <3>2
    <3> QED BY <2>1, <3>3, <3>4
  <2> QED BY <1>2, <1>5, <2>2 DEF TypeOK, Closes
<1>6. CASE Updates(s)
  BY <1>2, <1>6 DEF TypeOK, Updates
<1> QED BY <1>1, <1>3, <1>4, <1>5, <1>6 DEF Lnd

\* The types hold at the start and after every step.
LEMMA TypeInit == Init => TypeOK
BY WriteAssumption DEF Init, TypeOK

LEMMA TypeStep == TypeOK /\ [Next]_vars => TypeOK'
<1> SUFFICES ASSUME TypeOK, [Next]_vars PROVE TypeOK'
  OBVIOUS
<1>1. ASSUME NEW s \in Sessions, Approve(s) \/ Connect(s) \/ Call(s)
      PROVE  TypeOK'
  BY <1>1 DEF TypeOK, Approve, Connect, Call, Move, lndVars
<1>2. ASSUME NEW s \in Sessions,
             \/ Decline(s) \/ Interrupt(s)
             \/ Answered(s) \/ Unreadable(s) \/ TimesOut(s)
      PROVE  TypeOK'
  BY <1>2, EndTypes DEF Decline, Interrupt, Answered, Unreadable, TimesOut
<1>3. CASE UNCHANGED vars
  BY <1>3 DEF vars, sessionVars, lndVars, TypeOK
<1> QED BY <1>1, <1>2, <1>3, PrepareTypes, LndTypes DEF Next, Execute

\* Every variable keeps its type: what is approved is an amount within the
\* limits or a channel that was listed, and the wallet is never overdrawn.
THEOREM TypeCorrect == Spec => []TypeOK
BY TypeInit, TypeStep, PTL DEF Spec

-----------------------------------------------------------------------------
(* What the operator is promised.                                            *)

\* The lists LND's log may have for a session.
LEMMA ShortLists ==
    /\ Len(<<>>) = 0 /\ ToSet(<<>>) = {}
    /\ \A p : Len(<<p>>) = 1 /\ ToSet(<<p>>) = {p}
<1>1. Len(<<>>) = 0 /\ DOMAIN <<>> = {}
  OBVIOUS
<1>2. ASSUME NEW p PROVE Len(<<p>>) = 1 /\ ToSet(<<p>>) = {p}
  <2>1. Len(<<p>>) = 1 /\ DOMAIN <<p>> = {1} /\ <<p>>[1] = p
    OBVIOUS
  <2> QED BY <2>1 DEF ToSet
<1> QED BY <1>1, <1>2 DEF ToSet

\* At the start nothing is approved.
LEMMA PromiseInit == Init => Promise!Init
<1> SUFFICES ASSUME Init PROVE Promise!Init
  OBVIOUS
<1>1. /\ audit = [s \in Sessions |-> NoPlan]
      /\ \A s \in Sessions : log[s] = <<>> /\ told[s] # "done"
  BY DEF Init
<1>2. [s \in Sessions |-> Len(log[s])] = [s \in Sessions |-> 0]
  BY <1>1, ShortLists
<1>3. [s \in Sessions |-> ToSet(log[s])] = [s \in Sessions |-> {}]
  BY <1>1, ShortLists
<1> QED BY <1>1, <1>2, <1>3 DEF Promise!Init

\* The line in the audit log is the approval.
LEMMA ApproveIsGrant ==
    ASSUME TypeOK, IInv, NEW s \in Sessions, Approve(s)
    PROVE  [Promise!Next]_(Promise!vars)
<1>1. /\ audit' = [audit EXCEPT ![s] = plan[s]] /\ audit[s] = NoPlan
      /\ UNCHANGED <<told, log>>
  BY DEF Approve, Move, lndVars, IInv, Early
<1>2. CASE plan[s] \in Plans
  <2>1. Promise!Grant(s, plan[s])
    BY <1>1 DEF Promise!Grant
  <2> QED BY <1>2, <2>1 DEF Promise!Next
<1>3. CASE plan[s] = NoPlan
  <2>1. audit' = audit
    BY <1>1, <1>3 DEF IInv, Shape
  <2> QED BY <1>1, <2>1 DEF Promise!vars
<1> QED BY <1>2, <1>3 DEF TypeOK

\* What LND performs, now or long after, is carried out.
LEMMA PerformsIsCarryOut ==
    ASSUME IInv, NEW s \in Sessions, Performs(s), plan[s].kind # "none"
    PROVE  Promise!CarryOut(s)
<1>1. /\ audit[s] = plan[s] /\ log[s] = <<>>
      /\ log' = [log EXCEPT ![s] = <<plan[s]>>]
      /\ UNCHANGED <<audit, told>>
  BY Performed
<1>2. audit[s] # NoPlan
  BY <1>1 DEF NoPlan
<1>3. log = [t \in Sessions |-> log[t]]
  BY DEF IInv, Shape
<1> DEFINE times == [t \in Sessions |-> Len(log[t])]
           done == [t \in Sessions |-> ToSet(log[t])]
<1>4. \A t \in Sessions :
          log'[t] = IF t = s THEN <<plan[s]>> ELSE log[t]
  BY <1>1, <1>3
<1>5. times[s] = 0 /\ times' = [times EXCEPT ![s] = 1]
  <2>1. \A t \in Sessions :
            Len(log'[t]) = IF t = s THEN 1 ELSE Len(log[t])
    BY <1>4, ShortLists
  <2> QED BY <1>1, <2>1, ShortLists
<1>6. done' = [done EXCEPT ![s] = {audit[s]}]
  <2>a. ToSet(<<plan[s]>>) = {audit[s]}
    BY <1>1, ShortLists
  <2>1. \A t \in Sessions :
            ToSet(log'[t]) = IF t = s THEN {audit[s]} ELSE ToSet(log[t])
    BY <1>4, <2>a, Zenon
  <2>2. DOMAIN done = Sessions /\ done' = [t \in Sessions |-> ToSet(log'[t])]
    OBVIOUS
  <2>3. \A t \in Sessions : done[t] = ToSet(log[t])
    OBVIOUS
  <2>4. done = [t \in Sessions |-> done[t]]
    OBVIOUS
  <2> HIDE DEF done
  <2> QED BY <2>1, <2>2, <2>3, <2>4
<1> QED BY <1>1, <1>2, <1>5, <1>6 DEF Promise!CarryOut

\* A session ends once, and says "done" after its plan was carried out.
LEMMA EndIsSay ==
    ASSUME IInv, NEW s \in Sessions, NEW report, End(s, report),
           pc[s] # "ended", report = "done" => call[s] = "performed"
    PROVE  [Promise!Next]_(Promise!vars)
<1> DEFINE said == {t \in Sessions : told[t] = "done"}
<1>1. /\ told' = [told EXCEPT ![s] = report] /\ told[s] = "nothing"
      /\ UNCHANGED <<audit, log>>
  BY DEF End, lndVars, IInv, Early
<1>2. told = [t \in Sessions |-> told[t]]
  BY DEF IInv, Shape
<1>3. CASE report = "done"
  <2>1. log[s] = <<plan[s]>>
    BY <1>3 DEF IInv, Logged
  <2>2. Len(log[s]) = 1
    BY <2>1, ShortLists
  <2>3. said' = said \cup {s}
    <3>1. \A t \in Sessions :
              told'[t] = "done" <=> told[t] = "done" \/ t = s
      BY <1>1, <1>2, <1>3
    <3> QED BY <3>1
  <2>4. Promise!Say(s)
    BY <1>1, <2>2, <2>3 DEF Promise!Say
  <2> QED BY <2>4 DEF Promise!Next
<1>4. CASE report # "done"
  <2>1. said' = said
    BY <1>1, <1>2, <1>4
  <2> QED BY <1>1, <2>1 DEF Promise!vars
<1> QED BY <1>3, <1>4

\* Every step is a step of the promise, or none of its concern.
LEMMA PromiseStep ==
    TypeOK /\ IInv /\ [Next]_vars => [Promise!Next]_(Promise!vars)
<1> SUFFICES ASSUME TypeOK, IInv, [Next]_vars
             PROVE  [Promise!Next]_(Promise!vars)
  OBVIOUS
<1>0. ASSUME UNCHANGED <<audit, log, told>>
      PROVE  [Promise!Next]_(Promise!vars)
  BY <1>0 DEF Promise!vars
<1>1. ASSUME NEW s \in Sessions, Prepare(s)
      PROVE  [Promise!Next]_(Promise!vars)
  <2>1. CASE NotPrepared(s)
    BY <2>1, EndIsSay DEF NotPrepared
  <2>2. CASE \E what : Propose(s, what)
    BY <1>0, <2>2 DEF Propose, lndVars
  <2> QED BY <1>1, <2>1, <2>2 DEF Prepare, PrepareSend, PrepareOpen,
             PreparePay, PrepareFees, PrepareClose
<1>2. ASSUME NEW s \in Sessions,
             \/ Decline(s) \/ Interrupt(s)
             \/ Answered(s) \/ Unreadable(s) \/ TimesOut(s)
      PROVE  [Promise!Next]_(Promise!vars)
  BY <1>2, EndIsSay DEF Decline, Interrupt, Answered, Unreadable, TimesOut
<1>3. ASSUME NEW s \in Sessions, Connect(s) \/ Call(s) \/ Refuses(s)
      PROVE  [Promise!Next]_(Promise!vars)
  BY <1>0, <1>3 DEF Connect, Call, Refuses, sessionVars, lndVars
<1>4. ASSUME NEW s \in Sessions,
             Spends(s) \/ Pays(s) \/ Closes(s) \/ Updates(s)
      PROVE  [Promise!Next]_(Promise!vars)
  <2>1. Performs(s) /\ plan[s].kind # "none"
    BY <1>4 DEF Spends, Pays, Closes, Updates
  <2>2. Promise!CarryOut(s)
    BY <2>1, PerformsIsCarryOut
  <2> QED BY <2>2 DEF Promise!Next
<1>5. CASE UNCHANGED vars
  BY <1>0, <1>5 DEF vars, sessionVars, lndVars
<1> QED BY <1>1, <1>2, <1>3, <1>4, <1>5, ApproveIsGrant DEF Next, Execute, Lnd

\* The commands implement the promise: the line in the audit log is the
\* approval, and what LND does after, whoever still waits for it, is that, once.
THEOREM ImplementsPromise == Spec => PromiseSpec
<1>1. TypeOK /\ IInv /\ [Next]_vars => [Promise!Next]_(Promise!vars)
  BY PromiseStep
<1> QED BY PromiseInit, TypeCorrect, Invariant, <1>1, PTL
        DEF Spec, PromiseSpec, Promise!Spec

=============================================================================
