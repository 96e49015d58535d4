------------------------ MODULE ModelProcessesProofs ------------------------
(***************************************************************************)
(* Proofs about ModelProcesses, for any number of commands, any order of the *)
(* models and any number of hits.  The invariant is a conjunction over the   *)
(* commands; a step of one command, of its worker or of its server leaves    *)
(* the part of every other command as it is.                                 *)
(***************************************************************************)
EXTENDS ModelProcesses, TLAPS

\* Where a command is tells which model it uses, and which processes there
\* can be.
Place(c) ==
    /\ at[c] \in {"starting", "idle", "asked"} => Using(c, "worker")
    /\ at[c] \in {"checked", "polling", "probing", "asking"} =>
           Using(c, "server")
    /\ at[c] \in {"stopping", "closing", "killing"} => todo[c] # <<>>
    /\ at[c] = "killing" => signal[c] = "kill"
    /\ at[c] \in {"unstarted", "next", "checked"} =>
           ~WorkerLives(c) /\ ~ServerLives(c)
    /\ at[c] \notin {"ended", "killed"} =>
           /\ Using(c, "worker") => ~ServerLives(c)
           /\ Using(c, "server") => ~WorkerLives(c)
    /\ ~(WorkerLives(c) /\ ServerLives(c))
    /\ at[c] = "ended" =>
           signal[c] = "kill" \/ (~WorkerLives(c) /\ ~ServerLives(c))

Placed == TypeOK /\ \A c \in Commands : Place(c)

\* The order of the models is a sequence, and what is left of it is one.
LEMMA TodoTail ==
    ASSUME TypeOK, NEW c \in Commands, todo[c] # <<>>
    PROVE  Tail(todo[c]) \in Seq(Models) /\ Head(todo[c]) \in Models
BY DEF TypeOK

\* Everything is unstarted at first.
LEMMA PlacedInit == Init => Placed
<1> SUFFICES ASSUME Init PROVE Placed
  OBVIOUS
<1> USE DEF Init
<1>1. TypeOK
  BY ModelsAssumption DEF TypeOK, Places, NoTag
<1>2. ASSUME NEW c \in Commands PROVE Place(c)
  BY DEF Place, WorkerLives, ServerLives, Speaks
<1> QED BY <1>1, <1>2 DEF Placed

\* A command that is done with a model whose process has ended, or that never
\* started one.
LEMMA LeaveStep ==
    ASSUME Placed, NEW c \in Commands, NEW failed \in BOOLEAN,
           Leave(c, failed), todo[c] # <<>>,
           ~WorkerLives(c), ~ServerLives(c)
    PROVE  Placed'
<1>1. TypeOK'
  <2>1. probes' \in [Commands -> 0 .. MaxProbes]
    BY ModelsAssumption DEF Placed, Leave, TypeOK
  <2>2. at' \in [Commands -> Places]
    BY DEF Placed, Leave, TypeOK, Places
  <2>3. todo' \in [Commands -> Seq(Models)]
    BY TodoTail DEF Placed, Leave, TypeOK
  <2> QED BY <2>1, <2>2, <2>3 DEF Placed, Leave, TypeOK, NoTag
<1>2. Place(c)'
  <2>1. at'[c] \in {"next", "ended"} /\ UNCHANGED <<worker, server>>
    BY DEF Placed, TypeOK, Leave
  <2>2. ~WorkerLives(c)' /\ ~ServerLives(c)'
    BY <2>1 DEF WorkerLives, ServerLives, Speaks
  <2> QED BY <2>1, <2>2 DEF Place
<1>3. ASSUME NEW d \in Commands, d # c PROVE Place(d)'
  <2>1. /\ at'[d] = at[d] /\ todo'[d] = todo[d] /\ signal'[d] = signal[d]
        /\ UNCHANGED <<worker, server>>
    BY <1>3 DEF Placed, TypeOK, Leave
  <2> QED BY <2>1 DEF Placed, Place, Using, WorkerLives, ServerLives, Speaks
<1> QED BY <1>1, <1>2, <1>3 DEF Placed

\* A Python process that is no more, and has killed what it leaves if it ended
\* by itself.
LEMMA VanishStep ==
    ASSUME Placed, NEW c \in Commands, NEW how \in {"ended", "killed"},
           Vanish(c, how),
           UNCHANGED signal \/ signal' = [signal EXCEPT ![c] = Asked(c)],
           how = "ended" => signal[c] = "kill"
    PROVE  Placed'
<1>1. Asked(c) \in {"none", "term", "kill"}
  BY DEF Placed, TypeOK, Asked
<1>2. signal' \in [Commands -> {"none", "term", "kill"}]
  BY <1>1 DEF Placed, TypeOK
<1>3. how = "ended" => signal'[c] = "kill"
  BY <1>2 DEF Placed, TypeOK, Asked
<1>4. \A d \in Commands : d # c => signal'[d] = signal[d]
  BY DEF Placed, TypeOK
<1>5. TypeOK'
  <2>1. probes' \in [Commands -> 0 .. MaxProbes]
    BY ModelsAssumption DEF Placed, Vanish, TypeOK
  <2> QED BY <1>2, <2>1 DEF Placed, Vanish, TypeOK, Places, NoTag
<1>6. Place(c)'
  <2>1. at'[c] = how /\ UNCHANGED <<worker, server>>
    BY DEF Placed, TypeOK, Vanish
  <2>2. ~(WorkerLives(c) /\ ServerLives(c))'
    BY <2>1 DEF Placed, Place, WorkerLives, ServerLives, Speaks
  <2> QED BY <1>3, <2>1, <2>2 DEF Place
<1>7. ASSUME NEW d \in Commands, d # c PROVE Place(d)'
  <2>1. /\ at'[d] = at[d] /\ todo'[d] = todo[d] /\ signal'[d] = signal[d]
        /\ UNCHANGED <<worker, server>>
    BY <1>4, <1>7 DEF Placed, TypeOK, Vanish
  <2> QED BY <2>1 DEF Placed, Place, Using, WorkerLives, ServerLives, Speaks
<1> QED BY <1>5, <1>6, <1>7 DEF Placed

\* What a command reads from its worker changes nothing of this.
LEMMA TakeStep ==
    ASSUME Placed, NEW c \in Commands, NEW failed \in BOOLEAN, NEW of \in Nat,
           at[c] \in {"starting", "asked", "idle"}, Take(c, failed, of),
           replies' \in [Commands -> Seq(Answer)]
    PROVE  Placed'
<1>1. TypeOK'
  <2>1. at' \in [Commands -> Places]
    BY DEF Placed, Take, TypeOK, Places
  <2>2. broken' \in [Commands -> BOOLEAN]
    BY DEF Placed, Take, TypeOK
  <2>3. hit' \in [Commands -> Nat] /\ tag' \in [Commands -> Nat]
    <3>1. CASE at[c] = "starting"
      BY <3>1 DEF Placed, Take, TypeOK
    <3>2. CASE at[c] # "starting"
      <4>1. hit' = [hit EXCEPT ![c] = @ + 1] /\ tag' = [tag EXCEPT ![c] = of]
        BY <3>2 DEF Take
      <4> QED BY <4>1 DEF Placed, TypeOK
    <3> QED BY <3>1, <3>2
  <2>4. UNCHANGED <<todo, served, met, unit, worker, requests, now, server,
                    probes, signal>>
    BY DEF Take, serverVars
  <2> QED BY <2>1, <2>2, <2>3, <2>4 DEF Placed, TypeOK
<1>2. ASSUME NEW d \in Commands PROVE Place(d)'
  BY DEF Placed, Place, Take, TypeOK, Using, WorkerLives, Speaks, ServerLives,
         serverVars
<1> QED BY <1>1, <1>2 DEF Placed

\* Nor does the end of a server's use, which has still to be stopped.
LEMMA EndUseStep ==
    ASSUME Placed, NEW c \in Commands, NEW failed \in BOOLEAN,
           NEW by \in Commands \cup {Nobody},
           at[c] \in {"polling", "asking"}, EndUse(c, failed, by)
    PROVE  Placed'
<1>1. TypeOK'
  BY DEF Placed, EndUse, TypeOK, Places, workerVars, serverVars
<1>2. ASSUME NEW d \in Commands PROVE Place(d)'
  BY DEF Placed, Place, EndUse, TypeOK, Using, WorkerLives, Speaks,
         ServerLives, workerVars, serverVars
<1> QED BY <1>1, <1>2 DEF Placed

\* The steps of a command that start or use a model.
LEMMA UseStep ==
    ASSUME Placed, NEW c \in Commands,
           \/ StartWorker(c) \/ Ask(c) \/ ReadAnswer(c) \/ NoAnswer(c)
           \/ AskFails(c) \/ CheckPort(c) \/ StartServer(c) \/ Poll(c)
           \/ Healthy(c) \/ NotHealthy(c) \/ StartTimesOut(c) \/ Drafts(c)
           \/ DraftFails(c)
    PROVE  Placed'
<1> USE DEF Placed, Move, workerVars, serverVars
<1>1. CASE StartWorker(c)
  <2>1. TypeOK' BY <1>1 DEF StartWorker, TypeOK, Places
  <2>2. ASSUME NEW d \in Commands PROVE Place(d)'
    BY <1>1 DEF StartWorker, Place, TypeOK, Using, WorkerLives,
                Speaks, ServerLives
  <2> QED BY <2>1, <2>2
<1>2. CASE Ask(c)
  <2>1. TypeOK' BY <1>2 DEF Ask, TypeOK, Places
  <2>2. ASSUME NEW d \in Commands PROVE Place(d)'
    BY <1>2 DEF Ask, Place, TypeOK, Using, WorkerLives, Speaks, ServerLives
  <2> QED BY <2>1, <2>2
<1>3. CASE ReadAnswer(c)
  <2>1. Head(replies[c]) \in Answer /\ Tail(replies[c]) \in Seq(Answer)
    BY <1>3 DEF ReadAnswer, TypeOK
  <2>2. replies' \in [Commands -> Seq(Answer)]
    BY <1>3, <2>1 DEF ReadAnswer, TypeOK
  <2>3. \E failed \in BOOLEAN, of \in Nat : Take(c, failed, of)
    BY <1>3, <2>1 DEF ReadAnswer, Answer, NoTag
  <2> QED BY <1>3, <2>2, <2>3, TakeStep DEF ReadAnswer
<1>4. CASE NoAnswer(c) \/ AskFails(c)
  <2>1. replies' \in [Commands -> Seq(Answer)]
    BY <1>4 DEF NoAnswer, AskFails, TypeOK
  <2> QED BY <1>4, <2>1, TakeStep DEF NoAnswer, AskFails, NoTag
<1>5. CASE CheckPort(c)
  <2>1. TypeOK'
    <3>1. met' \in [Commands -> SUBSET Commands]
      BY <1>5 DEF CheckPort, TypeOK, Unseen
    <3>2. at' \in [Commands -> Places]
      BY <1>5 DEF CheckPort, TypeOK, Places
    <3> QED BY <1>5, <3>1, <3>2 DEF CheckPort, TypeOK
  <2>2. ASSUME NEW d \in Commands PROVE Place(d)'
    BY <1>5 DEF CheckPort, Place, TypeOK, Using, WorkerLives,
                Speaks, ServerLives
  <2> QED BY <2>1, <2>2
<1>6. CASE StartServer(c)
  <2>1. TypeOK' BY <1>6 DEF StartServer, TypeOK, Places
  <2>2. ASSUME NEW d \in Commands PROVE Place(d)'
    BY <1>6 DEF StartServer, Place, TypeOK, Using, WorkerLives,
                Speaks, ServerLives
  <2> QED BY <2>1, <2>2
<1>7. CASE Poll(c)
  <2>1. TypeOK'
    <3>1. at' \in [Commands -> Places]
      BY <1>7 DEF Poll, TypeOK, Places
    <3>2. probes' \in [Commands -> 0 .. MaxProbes]
      BY <1>7, ModelsAssumption DEF Poll, TypeOK
    <3> QED BY <1>7, <3>1, <3>2 DEF Poll, TypeOK
  <2>2. ASSUME NEW d \in Commands PROVE Place(d)'
    BY <1>7 DEF Poll, Place, TypeOK, Using, WorkerLives, Speaks, ServerLives
  <2> QED BY <2>1, <2>2
<1>8. CASE Healthy(c) \/ NotHealthy(c)
  <2>1. PICK to \in {"asking", "polling"} : at' = [at EXCEPT ![c] = to]
    BY <1>8 DEF Healthy, NotHealthy
  <2>2. /\ at[c] = "probing"
        /\ UNCHANGED <<todo, broken, hit, tag, served, met, unit, worker,
                       requests, replies, now, server, probes, signal>>
    BY <1>8 DEF Healthy, NotHealthy
  <2>3. at' \in [Commands -> Places]
    BY <2>1 DEF TypeOK, Places
  <2>4. TypeOK'
    BY <2>2, <2>3 DEF TypeOK
  <2>5. Place(c)'
    BY <2>1, <2>2 DEF Place, TypeOK, Using, WorkerLives, Speaks, ServerLives
  <2>6. ASSUME NEW d \in Commands, d # c PROVE Place(d)'
    <3>1. at'[d] = at[d]
      BY <2>1, <2>6 DEF TypeOK
    <3> QED BY <2>2, <3>1 DEF Place, Using, WorkerLives, Speaks, ServerLives
  <2> QED BY <2>4, <2>5, <2>6
<1>9. CASE StartTimesOut(c) \/ DraftFails(c) \/ Drafts(c)
  BY <1>9, EndUseStep DEF StartTimesOut, DraftFails, Drafts
<1> QED BY <1>1, <1>2, <1>3, <1>4, <1>5, <1>6, <1>7, <1>8, <1>9

\* The steps that end the use of a model, or the command.
LEMMA StopStep ==
    ASSUME Placed, NEW c \in Commands,
           \/ CannotStart(c) \/ Finish(c) \/ SeesExit(c) \/ Terminate(c)
           \/ Gone(c) \/ Kill(c) \/ KillTimesOut(c) \/ Die(c) \/ KillAlone(c)
           \/ Interrupt(c) \/ KillGroup(c) \/ Begin(c)
    PROVE  Placed'
<1> USE DEF Placed, Move, clientVars, workerVars, serverVars
<1>0. broken[c] \in BOOLEAN
  BY DEF TypeOK
<1>1. CASE CannotStart(c)
  BY <1>1, LeaveStep DEF CannotStart, Place
<1>2. CASE Finish(c)
  <2>1. TypeOK' BY <1>2 DEF Finish, TypeOK, Places
  <2>2. ASSUME NEW d \in Commands PROVE Place(d)'
    BY <1>2 DEF Finish, Place, TypeOK, Using, WorkerLives, Speaks, ServerLives
  <2> QED BY <2>1, <2>2
<1>3. CASE SeesExit(c)
  BY <1>3, LeaveStep DEF SeesExit, Place, Using
<1>4. CASE Terminate(c)
  <2>0. todo[c] # <<>> /\ at[c] \notin {"ended", "killed"}
    BY <1>4 DEF Terminate, StopDue, Place, Using
  <2>1. TypeOK' BY <1>4 DEF Terminate, TypeOK, Places
  <2>2. ASSUME NEW d \in Commands PROVE Place(d)'
    BY <1>4, <2>0 DEF Terminate, Place, TypeOK, Using, WorkerLives,
                      Speaks, ServerLives
  <2> QED BY <2>1, <2>2
<1>5. CASE Gone(c)
  <2>1. todo[c] # <<>> /\ at[c] \notin {"ended", "killed"}
    BY <1>5 DEF Gone, StopDue, Place, Using
  <2>2. Head(todo[c]) \in {"worker", "server"}
    BY <2>1, TodoTail DEF Models
  <2>3. ~WorkerLives(c) /\ ~ServerLives(c)
    BY <1>5, <2>1, <2>2 DEF Gone, Place, Lives, Using
  <2> QED BY <1>0, <1>5, <2>1, <2>3, LeaveStep DEF Gone
<1>6. CASE Kill(c)
  <2>1. TypeOK' BY <1>6 DEF Kill, TypeOK, Places
  <2>2. ASSUME NEW d \in Commands PROVE Place(d)'
    BY <1>6 DEF Kill, Place, TypeOK, Using, WorkerLives, Speaks, ServerLives
  <2> QED BY <2>1, <2>2
<1>7. CASE KillTimesOut(c)
  BY <1>7, VanishStep DEF KillTimesOut, Place
<1>10. CASE Die(c) \/ KillAlone(c)
  BY <1>10, VanishStep DEF Die, KillAlone
<1>11. CASE Interrupt(c)
  <2>1. CASE ~InBody(c)
    BY <1>11, <2>1, VanishStep DEF Interrupt
  <2>2. CASE InBody(c)
    <3>1. /\ at[c] \in {"idle", "asked", "asking"} /\ todo[c] # <<>>
          /\ Using(c, "worker") \/ Using(c, "server")
      BY <2>2 DEF InBody, Place, Using
    <3>2. Head(todo[c]) \in Models /\ <<Head(todo[c])>> \in Seq(Models)
      BY <3>1, TodoTail
    <3>3. Asked(c) \in {"none", "term", "kill"}
      BY DEF TypeOK, Asked
    <3>4. /\ at' = [at EXCEPT ![c] = "stopping"]
          /\ broken' = [broken EXCEPT ![c] = TRUE]
          /\ todo' = [todo EXCEPT ![c] = <<Head(todo[c])>>]
          /\ signal' = [signal EXCEPT ![c] = Asked(c)]
          /\ UNCHANGED <<hit, tag, served, met, unit, worker, requests,
                         replies, now, server, probes>>
      BY <1>11, <2>2 DEF Interrupt
    <3>5. TypeOK'
      BY <3>2, <3>3, <3>4 DEF TypeOK, Places
    <3>6. Place(c)'
      <4>1. /\ at'[c] = "stopping" /\ todo'[c] = <<Head(todo[c])>>
            /\ todo'[c] # <<>> /\ Head(todo'[c]) = Head(todo[c])
        BY <3>2, <3>4 DEF TypeOK
      <4>2. /\ WorkerLives(c)' = WorkerLives(c)
            /\ ServerLives(c)' = ServerLives(c)
        BY <3>4 DEF WorkerLives, Speaks, ServerLives
      <4> QED BY <3>1, <4>1, <4>2 DEF Place, Using
    <3>7. ASSUME NEW d \in Commands, d # c PROVE Place(d)'
      <4>1. /\ at'[d] = at[d] /\ todo'[d] = todo[d] /\ signal'[d] = signal[d]
            /\ UNCHANGED <<worker, server>>
        BY <3>4, <3>7 DEF TypeOK
      <4> QED BY <4>1 DEF Place, Using, WorkerLives, Speaks, ServerLives
    <3> QED BY <3>5, <3>6, <3>7
  <2> QED BY <2>1, <2>2
<1>8. CASE KillGroup(c)
  <2>1. TypeOK' BY <1>8 DEF KillGroup, TypeOK, Places
  <2>2. ASSUME NEW d \in Commands PROVE Place(d)'
    BY <1>8 DEF KillGroup, Place, TypeOK, Using, WorkerLives,
                Speaks, ServerLives
  <2> QED BY <2>1, <2>2
<1>9. CASE Begin(c)
  <2>1. TypeOK' BY <1>9 DEF Begin, TypeOK, Places
  <2>2. ASSUME NEW d \in Commands PROVE Place(d)'
    BY <1>9 DEF Begin, Place, TypeOK, Using, WorkerLives, Speaks, ServerLives
  <2> QED BY <2>1, <2>2
<1> QED
  BY <1>1, <1>2, <1>3, <1>4, <1>5, <1>6, <1>7, <1>8, <1>9, <1>10, <1>11

\* The steps of a worker and of a server that have been started.
LEMMA ProcessStep ==
    ASSUME Placed, NEW c \in Commands, WorkerStep(c) \/ ServerStep(c)
    PROVE  Placed'
<1> USE DEF Placed, clientVars, workerVars, serverVars
<1>0. WorkerLives(c) \/ ServerLives(c)
  BY DEF WorkerStep, ServerStep, Opens, TakesRequest, Replies, Fails,
         HangsInLine, WorkerDies, Binds, Loads, ServerDies, Running,
         WorkerLives, ServerLives
<1>1. CASE WorkerStep(c)
  <2>1. /\ worker' \in [Commands -> {"none", "opening", "ready", "busy",
                                     "hung", "gone"}]
        /\ \A d \in Commands : WorkerLives(d)' => WorkerLives(d)
        /\ UNCHANGED <<clientVars, serverVars, signal>>
    <3>1. \E to \in {"ready", "busy", "hung", "gone"} :
              WorkerLives(c) /\ worker' = [worker EXCEPT ![c] = to]
      BY <1>1 DEF WorkerStep, Opens, TakesRequest, Replies, Fails, HangsInLine,
                  WorkerDies, Running, WorkerLives
    <3>2. UNCHANGED <<clientVars, serverVars, signal>>
      BY <1>1 DEF WorkerStep, Opens, TakesRequest, Replies, Fails, HangsInLine,
                  WorkerDies
    <3> QED BY <3>1, <3>2 DEF WorkerLives, Speaks, TypeOK
  <2>2. now' \in [Commands -> Nat] /\ requests' \in [Commands -> Seq(Nat)]
    <3>1. CASE TakesRequest(c)
      <4>1. Head(requests[c]) \in Nat /\ Tail(requests[c]) \in Seq(Nat)
        BY <3>1 DEF TakesRequest, TypeOK
      <4> QED BY <3>1, <4>1 DEF TakesRequest, TypeOK
    <3>2. CASE \/ Opens(c) \/ Replies(c) \/ Fails(c) \/ HangsInLine(c)
               \/ WorkerDies(c)
      <4>1. requests' = requests
        BY <3>2 DEF Opens, Replies, Fails, HangsInLine, WorkerDies
      <4>2. now' = now \/ now' = [now EXCEPT ![c] = 0]
        BY <3>2 DEF Opens, Replies, Fails, HangsInLine, WorkerDies
      <4> QED BY <4>1, <4>2 DEF TypeOK
    <3> QED BY <1>1, <3>1, <3>2 DEF WorkerStep
  <2>3. replies' \in [Commands -> Seq(Answer)]
    <3>1. ASSUME NEW kind \in {"ready", "tag", "error"}, NEW of \in Nat,
                 Emit(c, kind, of)
          PROVE  replies' \in [Commands -> Seq(Answer)]
      <4>1. [kind |-> kind, of |-> of] \in Answer
        BY DEF Answer
      <4>2. Append(replies[c], [kind |-> kind, of |-> of]) \in Seq(Answer)
        BY <4>1 DEF TypeOK
      <4> QED BY <3>1, <4>2 DEF Emit, TypeOK
    <3>2. CASE TakesRequest(c) \/ WorkerDies(c)
      BY <3>2 DEF TakesRequest, WorkerDies, TypeOK
    <3>3. CASE Opens(c) \/ Replies(c) \/ Fails(c) \/ HangsInLine(c)
      BY <3>1, <3>3 DEF Opens, Replies, Fails, HangsInLine, TypeOK
    <3> QED BY <1>1, <3>2, <3>3 DEF WorkerStep
  <2>4. TypeOK'
    BY <2>1, <2>2, <2>3 DEF TypeOK
  <2>5. ASSUME NEW d \in Commands PROVE Place(d)'
    BY <2>1 DEF Place, Using, ServerLives
  <2> QED BY <2>4, <2>5
<1>2. CASE ServerStep(c)
  <2>1. /\ server' \in [Commands -> {"none", "starting", "loading", "serving",
                                     "gone"}]
        /\ \A d \in Commands : ServerLives(d)' => ServerLives(d)
        /\ UNCHANGED <<clientVars, workerVars, probes, signal>>
    <3>1. \E to \in {"loading", "serving", "gone"} :
              ServerLives(c) /\ server' = [server EXCEPT ![c] = to]
      BY <1>2 DEF ServerStep, Binds, Loads, ServerDies, ServerLives
    <3>2. UNCHANGED <<clientVars, workerVars, probes, signal>>
      BY <1>2 DEF ServerStep, Binds, Loads, ServerDies
    <3> QED BY <3>1, <3>2 DEF ServerLives, TypeOK
  <2>2. TypeOK'
    BY <2>1 DEF TypeOK
  <2>3. ASSUME NEW d \in Commands PROVE Place(d)'
    <3>1. WorkerLives(d)' = WorkerLives(d)
      BY <2>1 DEF WorkerLives, Speaks
    <3> QED BY <2>1, <3>1 DEF Place, Using
  <2> QED BY <2>2, <2>3
<1> QED BY <1>1, <1>2

\* Every step keeps every command in its place.
LEMMA PlacedStep == Placed /\ [Next]_vars => Placed'
<1> SUFFICES ASSUME Placed, [Next]_vars PROVE Placed'
  OBVIOUS
<1>1. CASE Next
  BY <1>1, UseStep, StopStep, ProcessStep DEF Next, CommandStep
<1>2. CASE UNCHANGED vars
  BY <1>2 DEF vars, clientVars, workerVars, serverVars, Placed, Place, TypeOK,
              Using, WorkerLives, Speaks, ServerLives
<1> QED BY <1>1, <1>2

-----------------------------------------------------------------------------

\* The types of the variables.
THEOREM TypeCorrect == Spec => []TypeOK
<1>1. Placed => TypeOK
  BY DEF Placed
<1> QED BY <1>1, PlacedInit, PlacedStep, PTL DEF Spec

\* A command never has both models in memory.
THEOREM OneModel == Spec => []OneModelAtATime
<1>1. Placed => OneModelAtATime
  BY DEF Placed, Place, OneModelAtATime
<1> QED BY <1>1, PlacedInit, PlacedStep, PTL DEF Spec

\* A command that has ended by itself has left nothing behind that it has not
\* killed.
THEOREM NoneLeft == Spec => []NothingLeft
<1>1. Placed => NothingLeft
  BY DEF Placed, Place, NothingLeft
<1> QED BY <1>1, PlacedInit, PlacedStep, PTL DEF Spec

-----------------------------------------------------------------------------
(* Whose server answers.                                                     *)

AtServer(c) == at[c] \in {"checked", "polling", "probing", "asking"}

\* Commands at work at the same time have met; whoever has a server while a
\* command is at its own is that command, or one that it has met, or has ended
\* by itself and then has killed it.
Acquainted ==
    /\ \A c, d \in Commands : AtWork(c) /\ AtWork(d) /\ c # d => d \in met[c]
    /\ \A c, d \in Commands :
           AtServer(c) /\ ServerLives(d) =>
               d \in {c} \cup met[c] \/ at[d] = "ended"
    /\ \A c \in Commands : at[c] = "unstarted" => served[c] = Nobody
    /\ ServedByOwn

\* At first nobody is at work.
LEMMA AcquaintedInit == Init => Acquainted
BY DEF Init, Acquainted, AtWork, AtServer, ServedByOwn

\* A step after which nobody is at work, at a server or has one who was not.
LEMMA NobodyNew ==
    ASSUME Acquainted,
           \A c \in Commands :
               /\ AtWork(c)' => AtWork(c)
               /\ AtServer(c)' => AtServer(c)
               /\ ServerLives(c)' => ServerLives(c)
               /\ (at[c] = "unstarted")' => at[c] = "unstarted"
               /\ at[c] = "ended" => (at[c] = "ended")'
               /\ served'[c] \in {served[c], Nobody},
           met' = met
    PROVE  Acquainted'
BY DEF Acquainted, ServedByOwn

\* Every step keeps it.
LEMMA AcquaintedStep == Placed /\ Acquainted /\ [Next]_vars => Acquainted'
<1> SUFFICES ASSUME Placed, Acquainted, [Next]_vars PROVE Acquainted'
  OBVIOUS
<1> USE DEF Move, clientVars, workerVars, serverVars
<1>1. ASSUME NEW c \in Commands, Begin(c) PROVE Acquainted'
  <2>1. /\ at[c] = "unstarted" /\ at' = [at EXCEPT ![c] = "next"]
        /\ UNCHANGED <<served, server>>
        /\ \A d \in Commands :
               met'[d] = IF d = c THEN {e \in Commands : AtWork(e)}
                         ELSE IF AtWork(d) THEN met[d] \cup {c}
                         ELSE met[d]
    BY <1>1 DEF Begin
  <2>2. \A d \in Commands : d # c => at'[d] = at[d]
    BY <2>1 DEF Placed, TypeOK
  <2>3. at'[c] = "next" /\ served[c] = Nobody
    BY <2>1 DEF Placed, TypeOK, Acquainted
  <2>4. ASSUME NEW d \in Commands, NEW e \in Commands,
               AtWork(d)', AtWork(e)', d # e
        PROVE  e \in met'[d]
    BY <2>1, <2>2, <2>3, <2>4 DEF Acquainted, AtWork
  <2>5. ASSUME NEW d \in Commands, NEW e \in Commands,
               AtServer(d)', ServerLives(e)'
        PROVE  e \in {d} \cup met'[d] \/ at'[e] = "ended"
    BY <2>1, <2>2, <2>3, <2>5 DEF Acquainted, AtServer, ServerLives
  <2>6. ASSUME NEW d \in Commands
        PROVE  /\ at'[d] = "unstarted" => served'[d] = Nobody
               /\ served'[d] \in {d, Nobody} \cup met'[d]
    <3>1. CASE d = c
      BY <2>1, <2>3, <3>1
    <3>2. CASE d # c
      <4>1. /\ at'[d] = at[d] /\ served'[d] = served[d]
            /\ met[d] \subseteq met'[d]
        BY <2>1, <2>2, <3>2
      <4> QED BY <4>1 DEF Acquainted, ServedByOwn
    <3> QED BY <3>1, <3>2
  <2>7. ServedByOwn'
    BY <2>6 DEF ServedByOwn
  <2> QED BY <2>4, <2>5, <2>6, <2>7 DEF Acquainted
<1>2. ASSUME NEW c \in Commands, CheckPort(c) PROVE Acquainted'
  <2>1. /\ at[c] = "next" /\ at' = [at EXCEPT ![c] = "checked"]
        /\ \A d \in Commands : ~Listening(d)
        /\ met' = [met EXCEPT ![c] = @ \cup Unseen]
        /\ UNCHANGED <<served, server>>
    BY <1>2 DEF CheckPort, PortFree
  <2>2. \A d \in Commands : d # c => at'[d] = at[d] /\ met'[d] = met[d]
    BY <2>1 DEF Placed, TypeOK
  <2>3. at'[c] = "checked" /\ met'[c] = met[c] \cup Unseen
    BY <2>1 DEF Placed, TypeOK
  <2>4. ASSUME NEW e \in Commands, ServerLives(e), e # c
        PROVE  e \in met'[c] \/ at'[e] = "ended"
    <3>1. server[e] = "starting"
      BY <2>1, <2>4 DEF ServerLives, Listening
    <3>2. CASE AtWork(e)
      BY <2>1, <2>3, <2>4, <3>2 DEF Acquainted, AtWork
    <3>3. CASE at[e] = "killed"
      BY <2>3, <3>1, <3>3 DEF Unseen
    <3>4. CASE at[e] \in {"unstarted", "ended"}
      BY <2>2, <2>4, <3>4 DEF Placed, Place
    <3> QED BY <3>2, <3>3, <3>4 DEF AtWork
  <2>5. ASSUME NEW d \in Commands, NEW e \in Commands,
               AtServer(d)', ServerLives(e)'
        PROVE  e \in {d} \cup met'[d] \/ at'[e] = "ended"
    <3>1. ServerLives(e)
      BY <2>1, <2>5 DEF ServerLives
    <3>2. CASE d = c
      BY <2>4, <3>1, <3>2
    <3>3. CASE d # c
      <4>1. AtServer(d) /\ met'[d] = met[d]
        BY <2>2, <2>5, <3>3 DEF AtServer
      <4>2. at[e] = "ended" => at'[e] = "ended"
        BY <2>1, <2>2
      <4> QED BY <3>1, <4>1, <4>2 DEF Acquainted
    <3> QED BY <3>2, <3>3
  <2>6. \A d \in Commands : met[d] \subseteq met'[d]
    BY <2>2, <2>3
  <2>7. \A d \in Commands : AtWork(d)' => AtWork(d)
    BY <2>1, <2>2 DEF AtWork
  <2>8. \A d \in Commands : at'[d] = "unstarted" => at[d] = "unstarted"
    BY <2>2, <2>3
  <2> QED BY <2>1, <2>5, <2>6, <2>7, <2>8 DEF Acquainted, ServedByOwn
<1>3. ASSUME NEW c \in Commands, Drafts(c) PROVE Acquainted'
  <2>1. PICK d \in Commands :
            /\ Answers(d)
            /\ at' = [at EXCEPT ![c] = "stopping"]
            /\ served' = [served EXCEPT ![c] = d]
            /\ UNCHANGED <<met, server>>
    BY <1>3 DEF Drafts, EndUse
  <2>2. ServerLives(d) /\ at[d] # "ended"
    BY <2>1 DEF Answers, ServerLives, Placed, Place
  <2>3. at[c] = "asking" /\ d \in {c} \cup met[c]
    BY <1>3, <2>2 DEF Drafts, AtServer, Acquainted
  <2>4. /\ served'[c] = d
        /\ \A e \in Commands : e # c => served'[e] = served[e]
        /\ \A e \in Commands : at[e] = "ended" => at'[e] = "ended"
    BY <2>1, <2>3 DEF Placed, TypeOK
  <2>5. ServedByOwn'
    BY <2>1, <2>3, <2>4 DEF Acquainted, ServedByOwn
  <2>6. ASSUME NEW e \in Commands
        PROVE  /\ AtWork(e)' => AtWork(e)
               /\ AtServer(e)' => AtServer(e)
               /\ ServerLives(e)' = ServerLives(e)
               /\ at'[e] = "unstarted" => at[e] = "unstarted" /\ e # c
    BY <2>1, <2>3 DEF Placed, TypeOK, AtWork, AtServer, ServerLives
  <2> QED BY <2>1, <2>4, <2>5, <2>6 DEF Acquainted
<1>4. ASSUME NEW c \in Commands, Binds(c) PROVE Acquainted'
  <2>1. /\ server[c] = "starting"
        /\ UNCHANGED <<at, met, served>>
        /\ \A d \in Commands : d # c => server'[d] = server[d]
    BY <1>4 DEF Binds, Placed, TypeOK
  <2>2. \A d \in Commands : ServerLives(d)' => ServerLives(d)
    BY <2>1 DEF ServerLives
  <2> QED BY <2>1, <2>2, NobodyNew DEF AtWork, AtServer
<1>5. ASSUME NEW c \in Commands,
             \/ StartServer(c) \/ Poll(c) \/ Healthy(c) \/ NotHealthy(c)
      PROVE  Acquainted'
  <2>1. /\ \E to \in {"polling", "probing", "asking"} :
               at' = [at EXCEPT ![c] = to]
        /\ AtServer(c)
        /\ UNCHANGED <<met, served>>
    BY <1>5 DEF StartServer, Poll, Healthy, NotHealthy, AtServer
  <2>2. server' = server \/ server' = [server EXCEPT ![c] = "starting"]
    BY <1>5 DEF StartServer, Poll, Healthy, NotHealthy
  <2>3. ASSUME NEW d \in Commands
        PROVE  /\ d # c => (ServerLives(d)' => ServerLives(d))
               /\ AtWork(d)' => AtWork(d)
               /\ AtServer(d)' => AtServer(d)
               /\ AtServer(d)' => AtWork(d)
               /\ (at[d] = "unstarted")' => at[d] = "unstarted"
               /\ at[d] = "ended" => (at[d] = "ended")'
    BY <2>1, <2>2 DEF Placed, TypeOK, ServerLives, AtWork, AtServer
  <2>4. AtWork(c)
    BY <2>1 DEF AtServer, AtWork
  <2> QED BY <2>1, <2>3, <2>4 DEF Acquainted, ServedByOwn
<1>6. ASSUME NEW c \in Commands, WorkerStep(c) \/ Loads(c) \/ ServerDies(c)
      PROVE  Acquainted'
  <2>1. UNCHANGED <<at, met, served>>
    BY <1>6 DEF WorkerStep, Opens, TakesRequest, Replies, Fails, HangsInLine,
                WorkerDies, Loads, ServerDies
  <2>2. \A d \in Commands : ServerLives(d)' => ServerLives(d)
    BY <1>6 DEF WorkerStep, Opens, TakesRequest, Replies, Fails, HangsInLine,
                WorkerDies, Loads, ServerDies, ServerLives, Placed, TypeOK
  <2> QED BY <2>1, <2>2, NobodyNew DEF AtWork, AtServer
<1>7. ASSUME NEW c \in Commands,
             \/ CannotStart(c) \/ Finish(c) \/ StartWorker(c) \/ Ask(c)
             \/ ReadAnswer(c) \/ NoAnswer(c) \/ AskFails(c) \/ SeesExit(c)
             \/ StartTimesOut(c) \/ DraftFails(c) \/ Terminate(c) \/ Gone(c)
             \/ Kill(c) \/ KillTimesOut(c) \/ Die(c) \/ KillAlone(c)
             \/ Interrupt(c) \/ KillGroup(c)
      PROVE  Acquainted'
  <2> USE DEF CannotStart, Finish, StartWorker, Ask, ReadAnswer, NoAnswer,
              AskFails, SeesExit, StartTimesOut, DraftFails, Terminate, Gone,
              Kill, KillTimesOut, Die, KillAlone, Interrupt, KillGroup, Leave,
              Take, EndUse, Vanish
  <2>1. UNCHANGED <<met, server>>
    BY <1>7
  <2>2. \/ at' = at
        \/ /\ at[c] \notin {"unstarted", "ended", "killed"}
           /\ \E to \in {"next", "starting", "idle", "asked", "stopping",
                         "closing", "killing", "ended", "killed"} :
                  at' = [at EXCEPT ![c] = to]
    BY <1>7 DEF StopDue, AtWork
  <2>4. served' = served \/ served' = [served EXCEPT ![c] = Nobody]
    BY <1>7
  <2>5. \A d \in Commands : served'[d] \in {served[d], Nobody}
    BY <2>4 DEF Placed, TypeOK
  <2> HIDE DEF CannotStart, Finish, StartWorker, Ask, ReadAnswer, NoAnswer,
              AskFails, SeesExit, StartTimesOut, DraftFails, Terminate, Gone,
              Kill, KillTimesOut, Die, KillAlone, Interrupt, KillGroup, Leave,
              Take, EndUse, Vanish
  <2> QED BY <2>1, <2>2, <2>5, NobodyNew
      DEF Placed, TypeOK, AtWork, AtServer, ServerLives
<1>8. CASE UNCHANGED vars
  BY <1>8 DEF vars, Acquainted, ServedByOwn, AtWork, AtServer, ServerLives
<1> QED
  <2>1. CASE Next
    BY <2>1, <1>1, <1>2, <1>3, <1>4, <1>5, <1>6, <1>7
    DEF Next, CommandStep, ServerStep
  <2> QED BY <1>8, <2>1

\* A draft is the own server's, or that of a command that was at work
\* meanwhile, or of one whose Python process was ended from outside and whose
\* server did not listen when the port was looked at.
THEOREM ServedByOwnOrMet == Spec => []ServedByOwn
<1>1. Acquainted => ServedByOwn
  BY DEF Acquainted
<1> QED BY <1>1, PlacedInit, PlacedStep, AcquaintedInit, AcquaintedStep, PTL
    DEF Spec

-----------------------------------------------------------------------------
(* What is in the pipes.                                                     *)

OnlyErrors(c) == \A i \in DOMAIN replies[c] : replies[c][i].kind = "error"

\* No answer is under way, and a worker that lives has said nothing more.
Silent(c) ==
    /\ OnlyErrors(c)
    /\ Speaks(c) => worker[c] # "opening" /\ replies[c] = <<>>

\* One line has been written, and after it at most the last words of a worker
\* that is gone.
OneLine(c) ==
    /\ \A i \in DOMAIN replies[c] : i > 1 => replies[c][i].kind = "error"
    /\ Len(replies[c]) > 1 => ~Speaks(c)

\* The request is in the pipe, with the worker, or has been answered.
Underway(c) ==
    \/ requests[c] = <<hit[c]>> /\ worker[c] # "busy" /\ Silent(c)
    \/ /\ requests[c] = <<>> /\ worker[c] = "busy" /\ now[c] = hit[c]
       /\ Silent(c)
    \/ /\ requests[c] = <<>> /\ worker[c] # "busy"
       /\ OneLine(c)
       /\ Speaks(c) => worker[c] # "opening"
       /\ \A i \in DOMAIN replies[c] :
              /\ replies[c][i].kind # "ready"
              /\ replies[c][i].kind = "tag" => replies[c][i].of = hit[c]

Pipes(c) ==
    /\ at[c] \in {"unstarted", "next"} =>
           requests[c] = <<>> /\ replies[c] = <<>>
    /\ at[c] = "starting" =>
           /\ requests[c] = <<>> /\ worker[c] # "busy"
           /\ OneLine(c)
           /\ worker[c] = "opening" => replies[c] = <<>>
           /\ \A i \in DOMAIN replies[c] : replies[c][i].kind # "tag"
    /\ at[c] = "idle" /\ ~broken[c] =>
           requests[c] = <<>> /\ worker[c] # "busy" /\ Silent(c)
    /\ at[c] = "asked" => Underway(c)
    /\ tag[c] \in {hit[c] - 1, NoTag}

Answered == \A c \in Commands : Pipes(c)

\* The pipes are empty at first.
LEMMA AnsweredInit == Init => Answered
<1> SUFFICES ASSUME Init, NEW c \in Commands PROVE Pipes(c)
  BY DEF Answered
<1>1. /\ at[c] = "unstarted" /\ requests[c] = <<>> /\ replies[c] = <<>>
      /\ tag[c] = NoTag
  BY DEF Init
<1> QED BY <1>1 DEF Pipes

\* What is said of a command's pipes is about its own state only.
LEMMA PipesFrame ==
    ASSUME NEW d \in Commands, Pipes(d),
           at'[d] = at[d], broken'[d] = broken[d], hit'[d] = hit[d],
           tag'[d] = tag[d], worker'[d] = worker[d], now'[d] = now[d],
           requests'[d] = requests[d], replies'[d] = replies[d]
    PROVE  Pipes(d)'
<1>1. Silent(d)' = Silent(d)
  BY DEF Silent, OnlyErrors, Speaks
<1>2. OneLine(d)' = OneLine(d)
  BY DEF OneLine, Speaks
<1>3. Underway(d) => Underway(d)'
  BY <1>1, <1>2 DEF Underway, Speaks
<1> QED BY <1>1, <1>2, <1>3 DEF Pipes

\* What a line leaves behind when it is read.
LEMMA ReadLine ==
    ASSUME TypeOK, NEW c \in Commands, replies[c] # <<>>
    PROVE  /\ 1 \in DOMAIN replies[c]
           /\ Len(replies[c]) \in Nat /\ Len(replies[c]) >= 1
           /\ Head(replies[c]) = replies[c][1]
           /\ Head(replies[c]) \in Answer
           /\ \A i \in DOMAIN Tail(replies[c]) :
                  /\ i + 1 \in DOMAIN replies[c] /\ i + 1 > 1
                  /\ Tail(replies[c])[i] = replies[c][i + 1]
           /\ Len(replies[c]) = 1 => Tail(replies[c]) = <<>>
<1>1. replies[c] \in Seq(Answer)
  BY DEF TypeOK
<1>2. /\ Len(replies[c]) \in Nat \ {0}
      /\ DOMAIN replies[c] = 1 .. Len(replies[c])
      /\ Head(replies[c]) = replies[c][1]
  BY <1>1
<1>3. Head(replies[c]) \in Answer
  BY <1>1
<1>4. /\ Tail(replies[c]) \in Seq(Answer)
      /\ Len(Tail(replies[c])) = Len(replies[c]) - 1
      /\ DOMAIN Tail(replies[c]) = 1 .. Len(Tail(replies[c]))
  BY <1>1, replies[c] # <<>>
<1>6. \A i \in 1 .. Len(replies[c]) - 1 :
          Tail(replies[c])[i] = replies[c][i + 1]
  BY <1>1, <1>2
<1>7. ASSUME NEW s \in Seq(Answer), Len(s) = 0 PROVE s = <<>>
  BY <1>7
<1>5. ASSUME Len(replies[c]) = 1 PROVE Tail(replies[c]) = <<>>
  <2>1. Tail(replies[c]) \in Seq(Answer) /\ Len(Tail(replies[c])) = 0
    BY <1>4, <1>5
  <2> QED BY <2>1, <1>7
<1> QED BY <1>2, <1>3, <1>4, <1>5, <1>6

\* What a line adds when it is written.
LEMMA WriteLine ==
    ASSUME TypeOK, NEW c \in Commands, NEW kind \in {"ready", "tag", "error"},
           NEW of \in Nat, Emit(c, kind, of)
    PROVE  /\ \A d \in Commands : d # c => replies'[d] = replies[d]
           /\ Len(replies'[c]) = Len(replies[c]) + 1
           /\ Len(replies[c]) \in Nat
           /\ \A i \in DOMAIN replies'[c] :
                  \/ i \in DOMAIN replies[c] /\ replies'[c][i] = replies[c][i]
                  \/ /\ i = Len(replies[c]) + 1
                     /\ replies'[c][i] = [kind |-> kind, of |-> of]
<1>1. [kind |-> kind, of |-> of] \in Answer
  BY DEF Answer
<1>2. /\ replies[c] \in Seq(Answer)
      /\ replies' = [replies EXCEPT ![c] =
                        Append(replies[c], [kind |-> kind, of |-> of])]
  BY DEF TypeOK, Emit
<1>3. replies'[c] = Append(replies[c], [kind |-> kind, of |-> of])
  BY <1>2 DEF TypeOK
<1>4. \A d \in Commands : d # c => replies'[d] = replies[d]
  BY <1>2 DEF TypeOK
<1>5. /\ Len(replies'[c]) = Len(replies[c]) + 1 /\ Len(replies[c]) \in Nat
      /\ DOMAIN replies[c] = 1 .. Len(replies[c])
      /\ DOMAIN replies'[c] = 1 .. Len(replies[c]) + 1
  BY <1>1, <1>2, <1>3
<1>6. /\ \A i \in 1 .. Len(replies[c]) : replies'[c][i] = replies[c][i]
      /\ replies'[c][Len(replies[c]) + 1] = [kind |-> kind, of |-> of]
  BY <1>1, <1>2, <1>3
<1> QED BY <1>4, <1>5, <1>6

\* The steps of the command in which it asks or reads.
LEMMA AskReadStep ==
    ASSUME Placed, Placed', Answered, NEW c \in Commands,
           \/ StartWorker(c) \/ Ask(c) \/ ReadAnswer(c) \/ NoAnswer(c)
           \/ AskFails(c)
    PROVE  Answered'
<1> USE DEF Answered, Move
<1>0. TypeOK /\ TypeOK'
  BY DEF Placed
<1>1. CASE StartWorker(c)
  <2>3. /\ at[c] = "next" /\ at' = [at EXCEPT ![c] = "starting"]
        /\ worker' = [worker EXCEPT ![c] = "opening"]
        /\ UNCHANGED <<broken, hit, tag, requests, replies, now>>
    BY <1>1 DEF StartWorker
  <2>4. Pipes(c)'
    <3>1. /\ at'[c] = "starting" /\ worker'[c] = "opening"
          /\ tag'[c] = tag[c] /\ hit'[c] = hit[c]
          /\ requests'[c] = <<>> /\ replies'[c] = <<>>
      BY <1>0, <2>3 DEF Pipes, TypeOK
    <3>2. OneLine(c)'
      BY <3>1 DEF OneLine
    <3> QED BY <3>1, <3>2 DEF Pipes
  <2>5. ASSUME NEW d \in Commands, d # c PROVE Pipes(d)'
    <3>1. at'[d] = at[d] /\ worker'[d] = worker[d]
      BY <1>0, <2>3, <2>5 DEF TypeOK
    <3> QED BY <2>3, <3>1, PipesFrame
  <2> QED BY <2>4, <2>5
<1>2. CASE Ask(c)
  <2>1. /\ at[c] = "idle" /\ ~broken[c]
        /\ at' = [at EXCEPT ![c] = "asked"]
        /\ requests' = [requests EXCEPT ![c] = Append(@, hit[c])]
        /\ UNCHANGED <<broken, hit, tag, worker, replies, now>>
    BY <1>2 DEF Ask, MayAsk
  <2>2. requests[c] = <<>> /\ worker[c] # "busy" /\ Silent(c)
    BY <2>1 DEF Pipes
  <2>3. requests'[c] = <<hit[c]>>
    BY <1>0, <2>1, <2>2 DEF TypeOK
  <2>4. Pipes(c)'
    <3>1. /\ at'[c] = "asked" /\ worker'[c] = worker[c]
          /\ tag'[c] = tag[c] /\ hit'[c] = hit[c]
      BY <1>0, <2>1 DEF TypeOK
    <3>2. Silent(c)'
      BY <2>1, <2>2, <3>1 DEF Silent, OnlyErrors, Speaks
    <3> QED BY <2>2, <2>3, <3>1, <3>2 DEF Pipes, Underway
  <2>5. ASSUME NEW d \in Commands, d # c PROVE Pipes(d)'
    <3>1. at'[d] = at[d] /\ requests'[d] = requests[d]
      BY <1>0, <2>1, <2>5 DEF TypeOK
    <3> QED BY <2>1, <3>1, PipesFrame
  <2> QED BY <2>4, <2>5
<1>3. CASE ReadAnswer(c)
  <2>1. /\ at[c] \in {"starting", "asked"} /\ replies[c] # <<>>
        /\ replies' = [replies EXCEPT ![c] = Tail(@)]
        /\ at' = [at EXCEPT ![c] = "idle"]
        /\ broken' = [broken EXCEPT ![c] = (Head(replies[c]).kind = "error")]
        /\ UNCHANGED <<worker, requests, now>>
    BY <1>3, <1>0, ReadLine DEF ReadAnswer, Take, Answer
  <2>2. replies'[c] = Tail(replies[c])
    BY <1>0, <2>1 DEF TypeOK
  <2>3. IF at[c] = "starting" THEN hit' = hit /\ tag' = tag
        ELSE /\ hit' = [hit EXCEPT ![c] = @ + 1]
             /\ tag' = [tag EXCEPT ![c] =
                           IF Head(replies[c]).kind = "error" THEN NoTag
                           ELSE Head(replies[c]).of]
    BY <1>3 DEF ReadAnswer, Take
  <2>4. ASSUME Head(replies[c]).kind # "error"
        PROVE  requests[c] = <<>> /\ worker[c] # "busy" /\ OneLine(c)
    <3>1. ~Silent(c)
      BY <1>0, <2>1, <2>4, ReadLine DEF Silent, OnlyErrors
    <3> QED BY <2>1, <3>1 DEF Pipes, Underway
  <2>5. ASSUME Head(replies[c]).kind # "error"
        PROVE  Silent(c)'
    <3>1. OnlyErrors(c)'
      BY <1>0, <2>2, <2>4, <2>5, <2>1, ReadLine DEF OneLine, OnlyErrors
    <3>2. Speaks(c) => replies'[c] = <<>>
      <4>1. Len(replies[c]) \in Nat /\ Len(replies[c]) >= 1
        BY <1>0, <2>1, ReadLine
      <4>2. OneLine(c)
        BY <2>4, <2>5
      <4>5. ASSUME NEW n \in Nat, n >= 1, ~(n > 1) PROVE n = 1
        BY <4>5
      <4>6. Speaks(c) => ~(Len(replies[c]) > 1)
        BY <4>2 DEF OneLine
      <4>3. Speaks(c) => Len(replies[c]) = 1
        BY <4>1, <4>5, <4>6, Zenon
      <4>4. Len(replies[c]) = 1 => Tail(replies[c]) = <<>>
        BY <1>0, <2>1, ReadLine
      <4> QED BY <2>2, <4>3, <4>4
    <3>3. Speaks(c) => worker[c] # "opening"
      BY <2>1, <2>4, <2>5, <1>0, ReadLine
      DEF Pipes, Underway, Silent, OnlyErrors
    <3> QED BY <2>1, <3>1, <3>2, <3>3 DEF Silent, Speaks
  <2>6. tag'[c] \in {hit'[c] - 1, NoTag}
    <3>1. CASE at[c] = "starting"
      BY <2>3, <3>1 DEF Pipes
    <3>2. CASE at[c] # "starting"
      <4>1. hit'[c] = hit[c] + 1 /\ hit[c] \in Nat
        BY <1>0, <2>3, <3>2 DEF TypeOK
      <4>2. Head(replies[c]).kind \in {"ready", "tag", "error"}
        BY <1>0, <2>1, ReadLine DEF Answer
      <4>3. Head(replies[c]).kind # "error" => Head(replies[c]).of = hit[c]
        BY <1>0, <2>1, <3>2, <4>2, ReadLine
        DEF Pipes, Underway, Silent, OnlyErrors
      <4>4. tag'[c] = IF Head(replies[c]).kind = "error" THEN NoTag
                      ELSE Head(replies[c]).of
        BY <1>0, <2>3, <3>2 DEF TypeOK
      <4> QED BY <4>1, <4>3, <4>4
    <3> QED BY <3>1, <3>2
  <2>7. Pipes(c)'
    <3>1. at'[c] = "idle" /\ broken'[c] = (Head(replies[c]).kind = "error")
      BY <1>0, <2>1 DEF TypeOK
    <3> QED BY <2>1, <2>4, <2>5, <2>6, <3>1 DEF Pipes
  <2>8. ASSUME NEW d \in Commands, d # c PROVE Pipes(d)'
    <3>1. at'[d] = at[d] /\ broken'[d] = broken[d]
      BY <1>0, <2>1, <2>8 DEF TypeOK
    <3>2. replies'[d] = replies[d]
      BY <1>0, <2>1, <2>8 DEF TypeOK
    <3>3. hit'[d] = hit[d] /\ tag'[d] = tag[d]
      <4>1. CASE at[c] = "starting"
        BY <2>3, <4>1
      <4>2. CASE at[c] # "starting"
        <5>1. hit'[d] = hit[d]
          BY <1>0, <2>3, <2>8, <4>2 DEF TypeOK
        <5>2. tag'[d] = tag[d]
          BY <1>0, <2>3, <2>8, <4>2 DEF TypeOK
        <5> QED BY <5>1, <5>2
      <4> QED BY <4>1, <4>2
    <3> QED BY <2>1, <3>1, <3>2, <3>3, PipesFrame
  <2> QED BY <2>7, <2>8
<1>4. CASE NoAnswer(c) \/ AskFails(c)
  <2>1. /\ at[c] \in {"starting", "asked", "idle"}
        /\ Take(c, TRUE, NoTag) /\ UNCHANGED replies
    BY <1>4 DEF NoAnswer, AskFails
  <2>2. /\ at'[c] = "idle" /\ broken'[c] = TRUE
        /\ UNCHANGED <<worker, requests, now, replies>>
    BY <1>0, <2>1 DEF Take, TypeOK
  <2>3. tag'[c] \in {hit'[c] - 1, NoTag}
    <3>1. CASE at[c] = "starting"
      BY <2>1, <3>1 DEF Take, Pipes
    <3>2. CASE at[c] # "starting"
      BY <1>0, <2>1, <3>2 DEF Take, TypeOK
    <3> QED BY <3>1, <3>2
  <2>4. Pipes(c)'
    BY <2>2, <2>3 DEF Pipes
  <2>5. ASSUME NEW d \in Commands, d # c PROVE Pipes(d)'
    <3>1. at'[d] = at[d] /\ broken'[d] = broken[d]
      BY <1>0, <2>1, <2>5 DEF Take, TypeOK
    <3>2. hit'[d] = hit[d] /\ tag'[d] = tag[d]
      <4>1. CASE at[c] = "starting"
        BY <2>1, <4>1 DEF Take
      <4>2. CASE at[c] # "starting"
        <5>1. /\ hit' = [hit EXCEPT ![c] = @ + 1]
              /\ tag' = [tag EXCEPT ![c] = NoTag]
          BY <2>1, <4>2 DEF Take
        <5> QED BY <1>0, <5>1, <2>5 DEF TypeOK
      <4> QED BY <4>1, <4>2
    <3> QED BY <2>2, <3>1, <3>2, PipesFrame
  <2> QED BY <2>4, <2>5
<1> QED BY <1>1, <1>2, <1>3, <1>4

\* A line is written into pipes that still tell which answer they carry.
LEMMA WorkerSpeaks ==
    ASSUME Placed, Answered, NEW c \in Commands,
           Opens(c) \/ Replies(c) \/ Fails(c) \/ HangsInLine(c)
    PROVE  Answered'
<1> USE DEF Answered
<1>0. TypeOK
  BY DEF Placed
<1>1. PICK kind \in {"ready", "tag", "error"}, of \in Nat : Emit(c, kind, of)
  BY <1>0 DEF Opens, Replies, Fails, HangsInLine, TypeOK
<1>2. /\ Speaks(c)
      /\ UNCHANGED <<at, broken, hit, tag, requests>>
  BY DEF Opens, Replies, Fails, HangsInLine, Running, clientVars
<1>3. ASSUME NEW d \in Commands, d # c PROVE Pipes(d)'
  <2>1. replies'[d] = replies[d]
    BY <1>0, <1>1, <1>3 DEF Emit, TypeOK
  <2>2. worker'[d] = worker[d] /\ now'[d] = now[d]
    BY <1>0, <1>3 DEF Opens, Replies, Fails, HangsInLine, TypeOK
  <2> QED BY <1>2, <1>3, <2>1, <2>2, PipesFrame
<1> SUFFICES Pipes(c)'
  BY <1>3
<1>4. CASE Opens(c)
  <2>1. /\ worker[c] = "opening" /\ worker'[c] = "ready" /\ now'[c] = now[c]
        /\ Emit(c, "ready", 0)
    BY <1>0, <1>4 DEF Opens, TypeOK
  <2>2. at[c] \notin {"unstarted", "next"}
    BY <1>2 DEF Placed, Place, WorkerLives
  <2>3. ~Silent(c)
    BY <1>2, <2>1 DEF Silent
  <2>4. CASE at[c] = "starting"
    <3>1. replies[c] = <<>> /\ requests[c] = <<>>
      BY <2>1, <2>4 DEF Pipes
    <3>2. replies'[c] = <<[kind |-> "ready", of |-> 0]>>
      BY <1>0, <2>1, <3>1 DEF Emit, TypeOK
    <3>3. OneLine(c)'
      BY <3>2 DEF OneLine
    <3>4. \A i \in DOMAIN replies'[c] : replies'[c][i].kind # "tag"
      BY <3>2
    <3> QED BY <1>2, <2>1, <2>4, <3>1, <3>3, <3>4 DEF Pipes
  <2>5. CASE at[c] # "starting"
    <3>0. Pipes(c)
      OBVIOUS
    <3>1. at[c] # "asked"
      BY <1>2, <2>1, <2>3, <3>0 DEF Pipes, Underway
    <3>2. ~(at[c] = "idle" /\ ~broken[c])
      BY <2>3, <3>0 DEF Pipes
    <3> QED BY <3>0, <1>2, <2>1, <2>2, <2>5, <3>1, <3>2 DEF Pipes
  <2> QED BY <2>4, <2>5
<1>5. CASE Replies(c)
  <2>1. /\ worker[c] = "busy" /\ worker'[c] = "ready"
        /\ \E k \in {"tag", "error"} : Emit(c, k, now[c])
    BY <1>0, <1>5 DEF Replies, TypeOK
  <2>2. at[c] \notin {"unstarted", "next"}
    BY <1>2 DEF Placed, Place, WorkerLives
  <2>3. PICK k \in {"tag", "error"} : Emit(c, k, now[c])
    BY <2>1
  <2>4. Pipes(c)
    OBVIOUS
  <2>5. CASE at[c] = "asked"
    <3>1. /\ requests[c] = <<>> /\ replies[c] = <<>> /\ now[c] = hit[c]
      BY <1>2, <2>1, <2>4, <2>5 DEF Pipes, Underway, Silent
    <3>2. replies'[c] = <<[kind |-> k, of |-> hit[c]]>>
      BY <1>0, <2>3, <3>1 DEF Emit, TypeOK
    <3>3. OneLine(c)'
      BY <3>2 DEF OneLine
    <3>4. Underway(c)'
      BY <1>2, <2>1, <3>1, <3>2, <3>3 DEF Underway
    <3> QED BY <1>2, <2>4, <2>5, <3>4 DEF Pipes
  <2>6. CASE at[c] # "asked"
    BY <1>2, <2>1, <2>2, <2>4, <2>6 DEF Pipes
  <2> QED BY <2>5, <2>6
<1>6. CASE Fails(c) \/ HangsInLine(c)
  <2>1. worker'[c] \in {"gone", "hung"} /\ Emit(c, "error", 0)
    BY <1>0, <1>6 DEF Fails, HangsInLine, TypeOK
  <2>2. /\ at[c] \notin {"unstarted", "next"}
        /\ ~Speaks(c)'
    BY <1>2, <2>1 DEF Placed, Place, WorkerLives, Speaks
  <2>3. Pipes(c)
    OBVIOUS
  <2>4. /\ Len(replies[c]) \in Nat
        /\ \A i \in DOMAIN replies'[c] :
               \/ i \in DOMAIN replies[c] /\ replies'[c][i] = replies[c][i]
               \/ /\ i = Len(replies[c]) + 1
                  /\ replies'[c][i] = [kind |-> "error", of |-> 0]
    BY <1>0, <2>1, WriteLine
  <2>5. Silent(c) => Silent(c)'
    BY <2>2, <2>4 DEF Silent, OnlyErrors
  <2>6. OneLine(c) => OneLine(c)'
    BY <2>2, <2>4 DEF OneLine
  <2>7. ASSUME Silent(c) PROVE OneLine(c)'
    BY <2>2, <2>4, <2>7 DEF OneLine, Silent, OnlyErrors
  <2>8. Underway(c) => Underway(c)'
    <3>1. CASE requests[c] = <<hit[c]>> /\ Silent(c)
      BY <1>2, <2>1, <2>5, <3>1 DEF Underway
    <3>2. CASE requests[c] = <<>> /\ Silent(c)
      BY <1>2, <2>1, <2>2, <2>4, <2>7, <3>2
      DEF Underway, Silent, OnlyErrors
    <3>3. CASE Underway(c) /\ ~Silent(c)
      BY <1>2, <2>1, <2>2, <2>4, <2>6, <3>3 DEF Underway
    <3> QED BY <3>1, <3>2, <3>3 DEF Underway
  <2> QED BY <1>2, <2>1, <2>2, <2>3, <2>4, <2>5, <2>6, <2>8 DEF Pipes
<1> QED BY <1>4, <1>5, <1>6

\* Without a line: a request is taken, the worker goes, or it is not about the
\* worker at all.
LEMMA WorkerSilent ==
    ASSUME Placed, Answered, NEW c \in Commands,
           TakesRequest(c) \/ WorkerDies(c)
    PROVE  Answered'
<1> USE DEF Answered
<1>0. TypeOK
  BY DEF Placed
<1>1. /\ WorkerLives(c)
      /\ UNCHANGED <<at, broken, hit, tag, replies>>
  BY DEF TakesRequest, WorkerDies, Running, WorkerLives, clientVars
<1>2. at[c] \notin {"unstarted", "next"}
  BY <1>1 DEF Placed, Place
<1>3. ASSUME NEW d \in Commands, d # c PROVE Pipes(d)'
  <2>1. worker'[d] = worker[d] /\ now'[d] = now[d]
    BY <1>0, <1>3 DEF TakesRequest, WorkerDies, TypeOK
  <2>2. requests'[d] = requests[d]
    BY <1>0, <1>3 DEF TakesRequest, WorkerDies, TypeOK
  <2> QED BY <1>1, <1>3, <2>1, <2>2, PipesFrame
<1>4. Pipes(c)
  OBVIOUS
<1> SUFFICES Pipes(c)'
  BY <1>3
<1>5. CASE TakesRequest(c)
  <2>1. /\ worker[c] = "ready" /\ worker'[c] = "busy"
        /\ requests[c] # <<>> /\ requests'[c] = Tail(requests[c])
        /\ now'[c] = Head(requests[c])
    BY <1>0, <1>5 DEF TakesRequest, TypeOK
  <2>2. CASE at[c] = "asked"
    <3>1. requests[c] = <<hit[c]>> /\ Silent(c)
      BY <1>4, <2>1, <2>2 DEF Pipes, Underway
    <3>2. now'[c] = hit[c] /\ requests'[c] = <<>>
      BY <1>0, <2>1, <3>1 DEF TypeOK
    <3>3. Silent(c)'
      BY <1>1, <2>1, <3>1 DEF Silent, OnlyErrors, Speaks
    <3> QED BY <1>1, <1>4, <2>1, <2>2, <3>2, <3>3 DEF Pipes, Underway
  <2>3. CASE at[c] # "asked"
    BY <1>1, <1>2, <1>4, <2>1, <2>3 DEF Pipes
  <2> QED BY <2>2, <2>3
<1>6. CASE WorkerDies(c)
  <2>1. worker'[c] = "gone" /\ requests' = requests /\ ~Speaks(c)'
    BY <1>0, <1>6 DEF WorkerDies, TypeOK, Speaks
  <2>2. Silent(c) => Silent(c)'
    BY <1>1, <2>1 DEF Silent, OnlyErrors
  <2>3. OneLine(c) => OneLine(c)'
    BY <1>1, <2>1 DEF OneLine
  <2>4. Underway(c) => Underway(c)'
    <3>1. CASE requests[c] = <<>> /\ worker[c] = "busy" /\ Silent(c)
      <4>1. replies[c] = <<>>
        BY <3>1 DEF Silent, Speaks
      <4> QED BY <1>1, <2>1, <3>1, <4>1 DEF Underway, OneLine
    <3> QED BY <1>1, <2>1, <2>2, <2>3, <3>1 DEF Underway
  <2> QED BY <1>1, <1>2, <1>4, <2>1, <2>2, <2>3, <2>4 DEF Pipes
<1> QED BY <1>5, <1>6

\* A command that is done with a model, or is no more, leaves empty pipes.
LEMMA EmptyPipes ==
    ASSUME TypeOK, Answered, NEW c \in Commands,
           \/ \E failed \in BOOLEAN : Leave(c, failed)
           \/ \E how \in {"ended", "killed"} : Vanish(c, how)
    PROVE  Answered'
<1> USE DEF Answered
<1>1. at'[c] \in {"ended", "next", "killed"} /\ broken'[c] = FALSE
  BY DEF Leave, Vanish, TypeOK
<1>2. requests'[c] = <<>> /\ replies'[c] = <<>> /\ tag'[c] = NoTag
  BY DEF Leave, Vanish, TypeOK
<1>3. ASSUME NEW d \in Commands, d # c PROVE Pipes(d)'
  <2>1. at'[d] = at[d] /\ broken'[d] = broken[d]
    BY <1>3 DEF Leave, Vanish, TypeOK
  <2>2. requests'[d] = requests[d] /\ replies'[d] = replies[d]
    BY <1>3 DEF Leave, Vanish, TypeOK
  <2>3. hit'[d] = hit[d] /\ tag'[d] = tag[d]
    BY <1>3 DEF Leave, Vanish, TypeOK
  <2>4. worker'[d] = worker[d] /\ now'[d] = now[d]
    BY DEF Leave, Vanish
  <2> QED BY <1>3, <2>1, <2>2, <2>3, <2>4, PipesFrame
<1>4. Pipes(c)'
  BY <1>1, <1>2 DEF Pipes
<1> QED BY <1>3, <1>4

\* Every other step leaves the pipes alone, and no command begins to use the
\* worker by it.
LEMMA ElsewhereStep ==
    ASSUME TypeOK, Answered, NEW c \in Commands,
           \/ Begin(c) \/ Finish(c) \/ CheckPort(c) \/ StartServer(c)
           \/ Poll(c) \/ Healthy(c) \/ NotHealthy(c) \/ StartTimesOut(c)
           \/ Drafts(c) \/ DraftFails(c) \/ Terminate(c) \/ Kill(c)
           \/ (InBody(c) /\ Interrupt(c)) \/ KillGroup(c) \/ ServerStep(c)
    PROVE  Answered'
<1> USE DEF Answered
<1>1. UNCHANGED <<hit, tag, worker, requests, replies, now>>
  BY DEF Begin, Finish, CheckPort, StartServer, Poll, Healthy, NotHealthy,
         StartTimesOut, Drafts, DraftFails, EndUse, Terminate, Kill,
         Interrupt, KillGroup, ServerStep, Binds, Loads, ServerDies,
         clientVars, workerVars
<1>2. \/ at' = at
      \/ /\ at[c] = "unstarted"
         /\ at' = [at EXCEPT ![c] = "next"]
      \/ \E to \in {"ended", "checked", "polling", "probing", "asking",
                    "stopping", "closing", "killing"} :
             at' = [at EXCEPT ![c] = to]
  BY DEF Begin, Finish, CheckPort, StartServer, Poll, Healthy, NotHealthy,
         StartTimesOut, Drafts, DraftFails, EndUse, Terminate, Kill,
         Interrupt, KillGroup, ServerStep, Binds, Loads, ServerDies,
         clientVars, Move
<1>3. \/ broken' = broken
      \/ /\ at' = [at EXCEPT ![c] = "stopping"]
         /\ \E failed \in BOOLEAN : broken' = [broken EXCEPT ![c] = failed]
  BY DEF Begin, Finish, CheckPort, StartServer, Poll, Healthy, NotHealthy,
         StartTimesOut, Drafts, DraftFails, EndUse, Terminate, Kill,
         Interrupt, KillGroup, ServerStep, Binds, Loads, ServerDies,
         clientVars
<1>4. ASSUME NEW d \in Commands, d # c PROVE Pipes(d)'
  <2>1. at'[d] = at[d]
    BY <1>2, <1>4 DEF TypeOK
  <2>2. broken'[d] = broken[d]
    BY <1>3, <1>4 DEF TypeOK
  <2> QED BY <1>1, <1>4, <2>1, <2>2, PipesFrame
<1>5. Pipes(c)'
  <2>1. Pipes(c)
    OBVIOUS
  <2>2. CASE at' = at /\ broken' = broken
    BY <1>1, <2>1, <2>2, PipesFrame
  <2>3. CASE at[c] = "unstarted" /\ at' = [at EXCEPT ![c] = "next"]
    <3>1. at'[c] = "next"
      BY <2>3 DEF TypeOK
    <3> QED BY <1>1, <2>1, <2>3, <3>1 DEF Pipes
  <2>4. CASE \E to \in {"ended", "checked", "polling", "probing", "asking",
                        "stopping", "closing", "killing"} :
                 at' = [at EXCEPT ![c] = to]
    <3>1. at'[c] \in {"ended", "checked", "polling", "probing", "asking",
                      "stopping", "closing", "killing"}
      BY <2>4 DEF TypeOK
    <3> QED BY <1>1, <2>1, <3>1 DEF Pipes
  <2> QED BY <1>2, <1>3, <2>2, <2>3, <2>4
<1> QED BY <1>4, <1>5

\* The pipes carry the answer to the request under way and nothing else.
LEMMA AnsweredStep ==
    ASSUME Placed, Placed', Answered, [Next]_vars
    PROVE  Answered'
<1>0. TypeOK
  BY DEF Placed
<1>1. CASE UNCHANGED vars
  <2>1. ASSUME NEW d \in Commands PROVE Pipes(d)'
    <3>1. Pipes(d)
      BY DEF Answered
    <3> QED BY <1>1, <3>1, PipesFrame
        DEF vars, clientVars, workerVars
  <2> QED BY <2>1 DEF Answered
<1>2. ASSUME NEW c \in Commands,
             \/ Begin(c) \/ CommandStep(c) \/ WorkerStep(c)
             \/ ServerStep(c) \/ Die(c) \/ KillAlone(c) \/ Interrupt(c)
             \/ KillGroup(c)
      PROVE  Answered'
  <2>1. CASE CannotStart(c) \/ SeesExit(c) \/ Gone(c)
    <3>1. broken[c] \in BOOLEAN
      BY <1>0 DEF TypeOK
    <3>2. \E failed \in BOOLEAN : Leave(c, failed)
      BY <2>1, <3>1 DEF CannotStart, SeesExit, Gone
    <3> QED BY <1>0, <3>2, EmptyPipes
  <2>4. CASE \/ KillTimesOut(c) \/ Die(c) \/ KillAlone(c)
             \/ ~InBody(c) /\ Interrupt(c)
    <3>1. \E how \in {"ended", "killed"} : Vanish(c, how)
      BY <2>4 DEF KillTimesOut, Die, KillAlone, Interrupt
    <3> QED BY <1>0, <3>1, EmptyPipes
  <2>2. CASE \/ StartWorker(c) \/ Ask(c) \/ ReadAnswer(c) \/ NoAnswer(c)
             \/ AskFails(c)
    BY <2>2, AskReadStep
  <2>3. CASE WorkerStep(c)
    BY <2>3, WorkerSpeaks, WorkerSilent DEF WorkerStep
  <2> QED BY <1>0, <1>2, <2>1, <2>2, <2>3, <2>4, ElsewhereStep DEF CommandStep
<1> QED BY <1>1, <1>2 DEF Next

\* A hit has the tag the worker gave that hit, whatever arrives late.
THEOREM OwnTags == Spec => []OwnTag
<1>1. Answered => OwnTag
  BY DEF Answered, Pipes, OwnTag
<1> QED BY <1>1, PlacedInit, PlacedStep, AnsweredInit, AnsweredStep, PTL
    DEF Spec

=============================================================================
