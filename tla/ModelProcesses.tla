--------------------------- MODULE ModelProcesses ---------------------------
(***************************************************************************)
(* The two local models of x402 Watch and the commands that start them: the *)
(* Hailo worker that tags hits (hailo.py, hailo_worker.py), a line protocol *)
(* over two pipes, and llama-server, which drafts the brief over HTTP on one *)
(* port (llm.py).                                                            *)
(*                                                                           *)
(* A command is one execution of "run", which uses first the worker and then *)
(* the server, or of "check-models", which uses them the other way round     *)
(* (cli.py).  check-models takes no lock: commands may be at work together.  *)
(***************************************************************************)
EXTENDS Naturals, Sequences

CONSTANTS
    Commands,
    Nobody,      \* answers nothing
    Order,       \* the models a command uses, in turn
    Optional,    \* the commands that go on without the worker
    Hits,        \* how many hits a command asks the worker about
    MaxProbes    \* bound: how often /health is asked within 120 seconds

Models == {"worker", "server"}

ASSUME ModelsAssumption ==
    /\ Nobody \notin Commands
    /\ Order \in [Commands -> Seq(Models)]
    /\ Optional \subseteq Commands
    /\ Hits \in [Commands -> Nat]
    /\ MaxProbes \in Nat

VARIABLES
    at,        \* where a command is
    todo,      \* the models it still has to use, the one in use first
    broken,    \* the model in use has failed it
    hit,       \* the hit it asks about
    tag,       \* whose tag the hit before was given
    served,    \* whose server answered its request
    met,       \* history: the commands that were at work when it was, or whose
               \* server it could not see when it looked at the port
    unit,      \* the runs that are starts of the systemd unit
    \* the processes it has started
    worker,
    requests,  \* the worker's stdin
    replies,   \* the worker's stdout
    now,       \* the hit the worker is at, or 0
    server,
    probes,
    signal     \* the signal the process has been sent

clientVars == <<at, todo, broken, hit, tag, served, met, unit>>
workerVars == <<worker, requests, replies, now>>
serverVars == <<server, probes>>
vars == <<clientVars, workerVars, serverVars, signal>>

Answer == [kind : {"ready", "tag", "error"}, of : Nat]
NoTag == 0

Init ==
    /\ at = [c \in Commands |-> "unstarted"]
    /\ todo = Order
    /\ broken = [c \in Commands |-> FALSE]
    /\ hit = [c \in Commands |-> 1]
    /\ tag = [c \in Commands |-> NoTag]
    /\ served = [c \in Commands |-> Nobody]
    /\ met = [c \in Commands |-> {}]
    /\ unit = {}
    /\ worker = [c \in Commands |-> "none"]
    /\ requests = [c \in Commands |-> <<>>]
    /\ replies = [c \in Commands |-> <<>>]
    /\ now = [c \in Commands |-> 0]
    /\ server = [c \in Commands |-> "none"]
    /\ probes = [c \in Commands |-> 0]
    /\ signal = [c \in Commands |-> "none"]

Speaks(c) == worker[c] \in {"opening", "ready", "busy"}
WorkerLives(c) == Speaks(c) \/ worker[c] = "hung"
ServerLives(c) == server[c] \in {"starting", "loading", "serving"}
Listening(c) == server[c] \in {"loading", "serving"}

\* A command ends by itself, or its Python process is ended from outside: it
\* is killed, and stops nothing more.
AtWork(c) == at[c] \notin {"unstarted", "ended", "killed"}

Move(c, from, to) == at[c] = from /\ at' = [at EXCEPT ![c] = to]

Using(c, model) == todo[c] # <<>> /\ Head(todo[c]) = model

\* The process of the model in use.
Lives(c) == IF Using(c, "worker") THEN WorkerLives(c) ELSE ServerLives(c)

\* By the unit's timer, or by hand.
Begin(c) ==
    /\ Move(c, "unstarted", "next")
    /\ unit' = unit \/ (c \in Optional /\ unit' = unit \cup {c})
    /\ met' = [d \in Commands |->
                 IF d = c THEN {e \in Commands : AtWork(e)}
                 ELSE IF AtWork(d) THEN met[d] \cup {c}
                 ELSE met[d]]
    /\ UNCHANGED <<todo, broken, hit, tag, served, workerVars, serverVars,
                   signal>>

\* The model in use is done with, and its pipes are closed.  A command that
\* cannot do without it ends.
Leave(c, failed) ==
    /\ at' = [at EXCEPT ![c] =
                IF failed /\ ~(Using(c, "worker") /\ c \in Optional)
                THEN "ended"
                ELSE "next"]
    /\ todo' = [todo EXCEPT ![c] = Tail(@)]
    /\ broken' = [broken EXCEPT ![c] = FALSE]
    /\ requests' = [requests EXCEPT ![c] = <<>>]
    /\ replies' = [replies EXCEPT ![c] = <<>>]
    /\ signal' = [signal EXCEPT ![c] = "none"]
    /\ hit' = [hit EXCEPT ![c] = 1]
    /\ tag' = [tag EXCEPT ![c] = NoTag]
    /\ served' = [served EXCEPT ![c] = Nobody]
    /\ probes' = [probes EXCEPT ![c] = 0]
    /\ UNCHANGED <<met, unit, worker, now, server>>

\* The Python process is no more: its memory is lost and its pipes are closed.
Vanish(c, how) ==
    /\ at' = [at EXCEPT ![c] = how]
    /\ todo' = [todo EXCEPT ![c] = <<>>]
    /\ broken' = [broken EXCEPT ![c] = FALSE]
    /\ requests' = [requests EXCEPT ![c] = <<>>]
    /\ replies' = [replies EXCEPT ![c] = <<>>]
    /\ hit' = [hit EXCEPT ![c] = 1]
    /\ tag' = [tag EXCEPT ![c] = NoTag]
    /\ served' = [served EXCEPT ![c] = Nobody]
    /\ probes' = [probes EXCEPT ![c] = 0]
    /\ UNCHANGED <<met, unit, worker, now, server>>

\* Binary, model or port unusable, before there is a process.
CannotStart(c) == at[c] = "next" /\ todo[c] # <<>> /\ Leave(c, TRUE)

Finish(c) ==
    /\ todo[c] = <<>>
    /\ Move(c, "next", "ended")
    /\ UNCHANGED <<todo, broken, hit, tag, served, met, unit, workerVars,
                   serverVars, signal>>

-----------------------------------------------------------------------------
(* The client of the worker.                                                 *)

StartWorker(c) ==
    /\ Using(c, "worker")
    /\ Move(c, "next", "starting")
    /\ worker' = [worker EXCEPT ![c] = "opening"]
    /\ UNCHANGED <<todo, broken, hit, tag, served, met, unit, requests,
                   replies, now, serverVars, signal>>

\* Slip: the pipeline asks again after a failure.
MayAskAgain(c) == hit[c] <= Hits[c]

\* tagger_failed, or every hit has been asked about.
MayAsk(c) == ~broken[c] /\ hit[c] <= Hits[c]

Ask(c) ==
    /\ MayAsk(c)
    /\ WorkerLives(c)
    /\ Move(c, "idle", "asked")
    /\ requests' = [requests EXCEPT ![c] = Append(@, hit[c])]
    /\ UNCHANGED <<todo, broken, hit, tag, served, met, unit, worker, replies,
                   now, serverVars, signal>>

\* What _read_response gives: the ready line, or a tag, or a failure.
Take(c, failed, of) ==
    /\ at' = [at EXCEPT ![c] = "idle"]
    /\ broken' = [broken EXCEPT ![c] = failed]
    /\ IF at[c] = "starting"
       THEN UNCHANGED <<hit, tag>>
       ELSE /\ hit' = [hit EXCEPT ![c] = @ + 1]
            /\ tag' = [tag EXCEPT ![c] = of]
    /\ UNCHANGED <<todo, served, met, unit, worker, requests, now, serverVars,
                   signal>>

\* select() has seen the beginning of a line that does not end: readline()
\* waits for the rest without a timeout.
HalfLine(c) == worker[c] = "hung" /\ Len(replies[c]) = 1

\* A line, or at the end of the pipe what there is of one.
ReadAnswer(c) ==
    /\ at[c] \in {"starting", "asked"}
    /\ replies[c] # <<>> /\ ~HalfLine(c)
    /\ LET answer == Head(replies[c])
       IN  IF answer.kind = "error" THEN Take(c, TRUE, NoTag)
           ELSE Take(c, FALSE, answer.of)
    /\ replies' = [replies EXCEPT ![c] = Tail(@)]

\* Slip: the read waits for a line or the end of the pipe.
NoTimeout(c) ==
    /\ at[c] \in {"starting", "asked"}
    /\ replies[c] = <<>> /\ ~WorkerLives(c)
    /\ Take(c, TRUE, NoTag)
    /\ UNCHANGED replies

\* Nothing at all to read in 45 seconds, or the pipe is closed.
NoAnswer(c) ==
    /\ at[c] \in {"starting", "asked"}
    /\ replies[c] = <<>>
    /\ Take(c, TRUE, NoTag)
    /\ UNCHANGED replies

\* The request meets a closed pipe.
AskFails(c) ==
    /\ at[c] = "idle"
    /\ MayAsk(c)
    /\ ~WorkerLives(c)
    /\ Take(c, TRUE, NoTag)
    /\ UNCHANGED replies

-----------------------------------------------------------------------------
(* The worker.  A process that has been sent SIGKILL does nothing more, and  *)
(* one whose pipes are closed can only end.                                  *)

Running(c) == Speaks(c) /\ signal[c] # "kill" /\ AtWork(c)

Emit(c, kind, of) ==
    replies' = [replies EXCEPT ![c] = Append(@, [kind |-> kind, of |-> of])]

Opens(c) ==
    /\ Running(c) /\ worker[c] = "opening"
    /\ worker' = [worker EXCEPT ![c] = "ready"]
    /\ Emit(c, "ready", 0)
    /\ UNCHANGED <<clientVars, requests, now, serverVars, signal>>

TakesRequest(c) ==
    /\ Running(c) /\ worker[c] = "ready"
    /\ requests[c] # <<>>
    /\ worker' = [worker EXCEPT ![c] = "busy"]
    /\ now' = [now EXCEPT ![c] = Head(requests[c])]
    /\ requests' = [requests EXCEPT ![c] = Tail(@)]
    /\ UNCHANGED <<clientVars, replies, serverVars, signal>>

\* A tag, or an error the worker goes on after: an unsupported tag.
Replies(c) ==
    /\ Running(c) /\ worker[c] = "busy"
    /\ worker' = [worker EXCEPT ![c] = "ready"]
    /\ \E kind \in {"tag", "error"} : Emit(c, kind, now[c])
    /\ now' = [now EXCEPT ![c] = 0]
    /\ UNCHANGED <<clientVars, requests, serverVars, signal>>

\* Any exception: an error line is the last thing it writes.
Fails(c) ==
    /\ Running(c)
    /\ worker' = [worker EXCEPT ![c] = "gone"]
    /\ Emit(c, "error", 0)
    /\ now' = [now EXCEPT ![c] = 0]
    /\ UNCHANGED <<clientVars, requests, serverVars, signal>>

\* It stops in the middle of a line, which is no JSON.
HangsInLine(c) ==
    /\ Running(c)
    /\ worker' = [worker EXCEPT ![c] = "hung"]
    /\ Emit(c, "error", 0)
    /\ now' = [now EXCEPT ![c] = 0]
    /\ UNCHANGED <<clientVars, requests, serverVars, signal>>

\* The end of stdin, a signal, a crash.
WorkerDies(c) ==
    /\ WorkerLives(c)
    /\ worker' = [worker EXCEPT ![c] = "gone"]
    /\ now' = [now EXCEPT ![c] = 0]
    /\ UNCHANGED <<clientVars, requests, replies, serverVars, signal>>

-----------------------------------------------------------------------------
(* The client of the server.                                                 *)

\* Slip: the port is not looked at.
PortNotChecked == TRUE

\* connect_ex finds nobody.
PortFree == \A d \in Commands : ~Listening(d)

\* The servers that have outlived their Python process and do not listen yet.
Unseen == {d \in Commands : at[d] = "killed" /\ server[d] = "starting"}

CheckPort(c) ==
    /\ Using(c, "server")
    /\ PortFree
    /\ Move(c, "next", "checked")
    /\ met' = [met EXCEPT ![c] = @ \cup Unseen]
    /\ UNCHANGED <<todo, broken, hit, tag, served, unit, workerVars,
                   serverVars, signal>>

StartServer(c) ==
    /\ Move(c, "checked", "polling")
    /\ server' = [server EXCEPT ![c] = "starting"]
    /\ UNCHANGED <<todo, broken, hit, tag, served, met, unit, workerVars,
                   probes, signal>>

\* Slip: the deadline is not looked at.
PollWithoutDeadline(c) ==
    /\ ServerLives(c)
    /\ Move(c, "polling", "probing")
    /\ probes' = [probes EXCEPT ![c] = @ + 1]
    /\ UNCHANGED <<todo, broken, hit, tag, served, met, unit, workerVars,
                   server, signal>>

\* The process has not ended: /health is asked.
Poll(c) ==
    /\ ServerLives(c)
    /\ probes[c] < MaxProbes
    /\ Move(c, "polling", "probing")
    /\ probes' = [probes EXCEPT ![c] = @ + 1]
    /\ UNCHANGED <<todo, broken, hit, tag, served, met, unit, workerVars,
                   server, signal>>

\* start() raises; there is nothing left to stop.
SeesExit(c) == at[c] = "polling" /\ ~ServerLives(c) /\ Leave(c, TRUE)

\* Whoever listens on the port may answer.
Answers(d) == server[d] = "serving" /\ signal[d] # "kill"

Healthy(c) ==
    /\ \E d \in Commands : Answers(d)
    /\ Move(c, "probing", "asking")
    /\ UNCHANGED <<todo, broken, hit, tag, served, met, unit, workerVars,
                   serverVars, signal>>

\* Refused, 503 while the model is loaded, or no answer in 2 seconds.
NotHealthy(c) ==
    /\ Move(c, "probing", "polling")
    /\ UNCHANGED <<todo, broken, hit, tag, served, met, unit, workerVars,
                   serverVars, signal>>

EndUse(c, failed, by) ==
    /\ at' = [at EXCEPT ![c] = "stopping"]
    /\ broken' = [broken EXCEPT ![c] = failed]
    /\ served' = [served EXCEPT ![c] = by]
    /\ UNCHANGED <<todo, hit, tag, met, unit, workerVars, serverVars, signal>>

\* Slip: the server is left to itself when it does not become healthy.
StartTimesOutUnstopped(c) == at[c] = "polling" /\ Leave(c, TRUE)

\* 120 seconds have passed.
StartTimesOut(c) == at[c] = "polling" /\ EndUse(c, TRUE, Nobody)

Drafts(c) ==
    /\ at[c] = "asking"
    /\ \E d \in Commands : Answers(d) /\ EndUse(c, FALSE, d)

\* Too much evidence, timeout, HTTP error, or an invalid structure.
DraftFails(c) == at[c] = "asking" /\ EndUse(c, TRUE, Nobody)

-----------------------------------------------------------------------------
(* The server.  Until it serves, any signal ends it at once.                 *)

\* Without the port it exits.
Binds(c) ==
    /\ server[c] = "starting" /\ signal[c] = "none"
    /\ server' = [server EXCEPT ![c] =
                    IF \E d \in Commands : Listening(d) THEN "gone"
                    ELSE "loading"]
    /\ UNCHANGED <<clientVars, workerVars, probes, signal>>

Loads(c) ==
    /\ server[c] = "loading" /\ signal[c] = "none"
    /\ server' = [server EXCEPT ![c] = "serving"]
    /\ UNCHANGED <<clientVars, workerVars, probes, signal>>

ServerDies(c) ==
    /\ ServerLives(c)
    /\ server' = [server EXCEPT ![c] = "gone"]
    /\ UNCHANGED <<clientVars, workerVars, probes, signal>>

-----------------------------------------------------------------------------
(* Stopping, the same for both.                                              *)

StopDue(c) == at[c] = "stopping" \/ (at[c] = "idle" /\ ~MayAsk(c))

\* Slip: the process is not stopped before the command goes on.
NotStopped(c) == StopDue(c) /\ Leave(c, broken[c])

Terminate(c) ==
    /\ StopDue(c)
    /\ Lives(c)
    /\ at' = [at EXCEPT ![c] = "closing"]
    /\ signal' = [signal EXCEPT ![c] = "term"]
    /\ UNCHANGED <<todo, broken, hit, tag, served, met, unit, workerVars,
                   serverVars>>

Gone(c) ==
    /\ StopDue(c) \/ at[c] \in {"closing", "killing"}
    /\ ~Lives(c)
    /\ Leave(c, broken[c])

\* The process has not ended in 10 seconds.
Kill(c) ==
    /\ Lives(c)
    /\ Move(c, "closing", "killing")
    /\ signal' = [signal EXCEPT ![c] = "kill"]
    /\ UNCHANGED <<todo, broken, hit, tag, served, met, unit, workerVars,
                   serverVars>>

\* Nor in 5 more: TimeoutExpired leaves stop(), and the command.
KillTimesOut(c) ==
    /\ at[c] = "killing" /\ Lives(c)
    /\ Vanish(c, "ended")
    /\ UNCHANGED signal

-----------------------------------------------------------------------------
(* Ended from outside.  A "with" body that an interrupt leaves stops its     *)
(* process; start() and stop() do not when one reaches them, and no handler  *)
(* is installed for any other signal.                                        *)

AnyLives(c) == WorkerLives(c) \/ ServerLives(c)
Asked(c) ==
    IF AnyLives(c) /\ signal[c] = "none" THEN "term" ELSE signal[c]

\* The unit takes longer than 45 minutes or is stopped, or the terminal is
\* closed: the whole group is asked to end.
Die(c) ==
    /\ AtWork(c)
    /\ Vanish(c, "killed")
    /\ signal' = [signal EXCEPT ![c] = Asked(c)]

\* SIGKILL, or the kernel is out of memory: the Python process alone.
KillAlone(c) == AtWork(c) /\ Vanish(c, "killed") /\ UNCHANGED signal

InBody(c) == at[c] \in {"asked", "asking"} \/ (at[c] = "idle" /\ MayAsk(c))

\* Ctrl-C at the terminal, to the whole group.
Interrupt(c) ==
    /\ AtWork(c) /\ c \notin unit
    /\ signal' = [signal EXCEPT ![c] = Asked(c)]
    /\ \/ /\ InBody(c)
          /\ at' = [at EXCEPT ![c] = "stopping"]
          /\ broken' = [broken EXCEPT ![c] = TRUE]
          /\ todo' = [todo EXCEPT ![c] = <<Head(@)>>]
          /\ UNCHANGED <<hit, tag, served, met, unit, workerVars, serverVars>>
       \/ ~InBody(c) /\ Vanish(c, "killed")

\* systemd ends what is left of the unit's group.
KillGroup(c) ==
    /\ c \in unit /\ at[c] = "killed"
    /\ AnyLives(c) /\ signal[c] # "kill"
    /\ signal' = [signal EXCEPT ![c] = IF @ = "none" THEN "term" ELSE "kill"]
    /\ UNCHANGED <<clientVars, workerVars, serverVars>>

CommandStep(c) ==
    \/ CannotStart(c) \/ Finish(c)
    \/ StartWorker(c) \/ Ask(c) \/ ReadAnswer(c) \/ NoAnswer(c) \/ AskFails(c)
    \/ CheckPort(c) \/ StartServer(c) \/ Poll(c) \/ SeesExit(c) \/ Healthy(c)
    \/ NotHealthy(c) \/ StartTimesOut(c) \/ Drafts(c) \/ DraftFails(c)
    \/ Terminate(c) \/ Gone(c) \/ Kill(c) \/ KillTimesOut(c)

WorkerStep(c) ==
    \/ Opens(c) \/ TakesRequest(c) \/ Replies(c) \/ Fails(c)
    \/ HangsInLine(c) \/ WorkerDies(c)

ServerStep(c) == Binds(c) \/ Loads(c) \/ ServerDies(c)

Next ==
    \E c \in Commands :
        \/ Begin(c) \/ CommandStep(c) \/ WorkerStep(c) \/ ServerStep(c)
        \/ Die(c) \/ KillAlone(c) \/ Interrupt(c) \/ KillGroup(c)

Spec == Init /\ [][Next]_vars

\* SIGKILL is obeyed, however late.
Obey(c) == signal[c] = "kill" /\ (WorkerDies(c) \/ ServerDies(c))

FairSpec ==
    /\ Spec
    /\ \A c \in Commands :
           /\ WF_vars(CommandStep(c))
           /\ WF_vars(c \in unit /\ Die(c))
           /\ WF_vars(KillGroup(c))
           /\ WF_vars(Obey(c))

-----------------------------------------------------------------------------
(* Properties.                                                               *)

Places == {"unstarted", "next", "starting", "idle", "asked", "checked",
           "polling", "probing", "asking", "stopping", "closing", "killing",
           "ended", "killed"}

\* Every variable holds values of its type.
TypeOK ==
    /\ at \in [Commands -> Places]
    /\ todo \in [Commands -> Seq(Models)]
    /\ broken \in [Commands -> BOOLEAN]
    /\ hit \in [Commands -> Nat]
    /\ tag \in [Commands -> Nat]
    /\ served \in [Commands -> Commands \cup {Nobody}]
    /\ met \in [Commands -> SUBSET Commands]
    /\ unit \subseteq Commands
    /\ worker \in [Commands -> {"none", "opening", "ready", "busy", "hung",
                                "gone"}]
    /\ requests \in [Commands -> Seq(Nat)]
    /\ replies \in [Commands -> Seq(Answer)]
    /\ now \in [Commands -> Nat]
    /\ server \in [Commands -> {"none", "starting", "loading", "serving",
                                "gone"}]
    /\ probes \in [Commands -> 0 .. MaxProbes]
    /\ signal \in [Commands -> {"none", "term", "kill"}]

\* A hit has the tag the worker gave that hit, or none: no answer that comes
\* after its 45 seconds is taken for the answer to a later hit.
OwnTag ==
    \A c \in Commands : tag[c] \in {hit[c] - 1, NoTag}

\* The worker has exited before the draft is begun, and the server before the
\* worker is started: a command never has both models in memory
\* (docs/x402-watch-design.md:271).
OneModelAtATime ==
    \A c \in Commands : ~(WorkerLives(c) /\ ServerLives(c))

\* A command that ends by itself, after a success, a failure, a timeout or an
\* interrupt of its use of a model, has left no process behind except one that
\* has been sent SIGKILL and has not obeyed yet.  (One whose Python process is
\* ended from outside stops nothing: see CommandsEnd.)
NothingLeft ==
    \A c \in Commands :
        at[c] = "ended" =>
            signal[c] = "kill" \/ (~WorkerLives(c) /\ ~ServerLives(c))

\* A draft is the own server's, or that of a command at work at the same time,
\* or of one whose Python process was ended from outside when its server did
\* not listen yet: never that of a server an earlier command has left by
\* itself, nor of one that had the port when it was looked at.
ServedByOwn ==
    \A c \in Commands : served[c] \in {c, Nobody} \cup met[c]

\* A run of the unit ends and its processes with it, whatever the models do and
\* whoever kills its Python process.  So does a command begun by hand, unless
\* its worker leaves it waiting for the end of a line or somebody ends its
\* Python process before it has stopped its models.
CommandsEnd ==
    \A c \in Commands :
        AtWork(c) ~>
            \/ /\ at[c] \in {"ended", "killed"}
               /\ ~WorkerLives(c) /\ ~ServerLives(c)
            \/ /\ c \notin unit
               /\ \/ at[c] \in {"starting", "asked"} /\ HalfLine(c)
                  \/ at[c] = "killed"

=============================================================================
