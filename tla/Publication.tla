----------------------------- MODULE Publication -----------------------------
(***************************************************************************)
(* The life of a daily brief in x402 Watch, from the start of a run to the   *)
(* file in the private GitHub repository: DailyPipeline.run under the flock  *)
(* of daily.lock (pipeline.py), the SQLite tables runs, briefs and           *)
(* publish_outbox (db.py), the command `retry-publish` (cli.py), which takes *)
(* no lock, and GitHubAppPublisher.publish (publisher.py), which reads the   *)
(* blob SHA of the existing file and then writes with it.                    *)
(*                                                                           *)
(* A run is named by its place in the order in which the lock is taken; its  *)
(* brief carries the run's id, so the same number stands for the brief's     *)
(* content and for the blob SHA GitHub computes from that content.           *)
(***************************************************************************)
EXTENDS Naturals

CONSTANTS
    MaxRuns,     \* bound: how many runs take the lock
    MaxDay,      \* bound: how many local dates go by
    Retriers,    \* the processes that may execute `retry-publish`
    RetryAlone   \* TRUE: the operator starts `retry-publish` only while no
                 \* other x402 Watch command is at work, and starts none until
                 \* it has ended.  The code does not enforce it: FALSE is the
                 \* code alone.

ASSUME PublicationAssumption ==
    /\ MaxRuns \in Nat \ {0}
    /\ MaxDay \in Nat \ {0}
    /\ Retriers \cap Nat = {}
    /\ RetryAlone \in BOOLEAN

Runs == 1 .. MaxRuns
Days == 1 .. MaxDay
Clients == Runs \cup Retriers    \* the processes that call publish()
NoRun == 0                       \* no run, no file, no blob SHA

VARIABLES
    today,        \* date.today()
    lock,         \* the run that holds the flock on daily.lock
    pc,           \* where each process is
    \* local variables of a run
    day,          \* target_date
    publish,      \* the flag --publish, an explicit approval
    baseline,     \* no complete run came before
    covered,      \* coverage_complete
    \* local variables of a publication, NoRun out of their scope
    job,          \* the run whose brief the client publishes
    sha,          \* the blob SHA the client has looked up
    \* local variables of a retry pass, {} and TRUE between passes
    todo,         \* the rest of the rows read by pending_outbox()
    clean,        \* no publication of this pass has failed
    \* the database
    runStatus,    \* runs.status
    briefStatus,  \* briefs.publish_status
    outboxStatus, \* publish_outbox.status
    \* files
    localFile,    \* outbox_dir/briefs/<date>.md
    remote,       \* briefs/<date>.md in the repository
    inflight,     \* writes the client gave up on that GitHub may still apply
    landed        \* history: the briefs that have been in the repository

runVars == <<day, publish, baseline, covered>>
retryVars == <<todo, clean>>
dbVars == <<runStatus, briefStatus, outboxStatus>>
githubVars == <<remote, inflight, landed>>
vars == <<today, lock, pc, runVars, job, sha, retryVars, dbVars, localFile,
          githubVars>>

Resting == {"idle", "ended", "killed"}
Publishing == {"lookup", "put", "confirmed", "refused"}
RunSteps == {"research", "outbox", "save", "finish", "finishFailed"}
Places == Resting \cup Publishing \cup RunSteps \cup {"next"}

RunStatuses ==
    {"none", "running", "rejected", "failed", "publish_failed",
     "complete", "incomplete"}
PublishStatuses ==
    {"none", "not_requested", "pending", "superseded", "failed", "published"}
OutboxStatuses == PublishStatuses \ {"failed"}

Write == [brief : Runs, sha : Runs \cup {NoRun}]

Goto(c, place) == pc' = [pc EXCEPT ![c] = place]

Saved(r) == outboxStatus[r] # "none"

\* Slip: every row that is not published counts as pending.
PendingUnlessPublished ==
    {r \in Runs : publish[r] /\ outboxStatus[r] \notin {"none", "published"}}

\* pending_outbox(); the passed validation it also asks for is what every
\* saved brief has.
Pending == {r \in Runs : outboxStatus[r] = "pending"}

Init ==
    /\ today = 1
    /\ lock = NoRun
    /\ pc = [c \in Clients |-> "idle"]
    /\ day = [r \in Runs |-> 1]
    /\ publish = [r \in Runs |-> FALSE]
    /\ baseline = [r \in Runs |-> FALSE]
    /\ covered = [r \in Runs |-> FALSE]
    /\ job = [c \in Clients |-> NoRun]
    /\ sha = [c \in Clients |-> NoRun]
    /\ todo = [t \in Retriers |-> {}]
    /\ clean = [t \in Retriers |-> TRUE]
    /\ runStatus = [r \in Runs |-> "none"]
    /\ briefStatus = [r \in Runs |-> "none"]
    /\ outboxStatus = [r \in Runs |-> "none"]
    /\ localFile = [d \in Days |-> NoRun]
    /\ remote = [d \in Days |-> NoRun]
    /\ inflight = {}
    /\ landed = {}

-----------------------------------------------------------------------------
(* A run, `x402-watch run [--publish]`.                                      *)

\* Slip: an earlier run of the same date is overlooked.
HasCompleteRunOnEarlierDate(r) ==
    \E s \in Runs \ {r} :
        day[s] < today /\ runStatus[s] = "complete" /\ covered[s]

HasPriorCompleteRun(r) ==
    \E s \in Runs \ {r} :
        day[s] <= today /\ runStatus[s] = "complete" /\ covered[s]

\* The lock is free; start_run records the run and has_prior_complete_run
\* decides whether this is a baseline.  A run that finds the lock taken, or a
\* date other than today, ends without a trace.
StartRun(r) ==
    /\ lock = NoRun
    /\ pc[r] = "idle"
    /\ \A s \in 1 .. r - 1 : pc[s] # "idle"
    /\ RetryAlone => \A t \in Retriers : pc[t] = "idle"
    /\ lock' = r
    /\ Goto(r, "research")
    /\ day' = [day EXCEPT ![r] = today]
    /\ \E wanted \in BOOLEAN : publish' = [publish EXCEPT ![r] = wanted]
    /\ runStatus' = [runStatus EXCEPT ![r] = "running"]
    /\ baseline' = [baseline EXCEPT ![r] = ~HasPriorCompleteRun(r)]
    /\ UNCHANGED <<today, covered, job, sha, retryVars, briefStatus,
                   outboxStatus, localFile, githubVars>>

\* Searching, fetching and tagging end with some coverage; the draft passes
\* the editorial checks.
AcceptDraft(r) ==
    /\ pc[r] = "research"
    /\ Goto(r, "outbox")
    /\ \E full \in BOOLEAN : covered' = [covered EXCEPT ![r] = full]
    /\ UNCHANGED <<today, lock, day, publish, baseline, job, sha, retryVars,
                   dbVars, localFile, githubVars>>

\* The draft fails the editorial checks ("rejected"), or the writer fails
\* ("failed"): finish_run records it and the exception releases the lock.
\* (The coverage it records as well is never read in such a row.)
RefuseDraft(r) ==
    /\ pc[r] = "research"
    /\ Goto(r, "ended")
    /\ lock' = NoRun
    /\ \E status \in {"rejected", "failed"} :
           runStatus' = [runStatus EXCEPT ![r] = status]
    /\ UNCHANGED <<today, runVars, job, sha, retryVars,
                   briefStatus, outboxStatus, localFile, githubVars>>

\* _write_outbox replaces the day's file in one step.
WriteOutbox(r) ==
    /\ pc[r] = "outbox"
    /\ Goto(r, "save")
    /\ localFile' = [localFile EXCEPT ![day[r]] = r]
    /\ UNCHANGED <<today, lock, runVars, job, sha, retryVars, dbVars,
                   githubVars>>

\* Slip: the OSError is logged and the run goes on.
WriteOutboxFailsSilently(r) ==
    /\ pc[r] = "outbox"
    /\ Goto(r, "save")
    /\ UNCHANGED <<today, lock, runVars, job, sha, retryVars, dbVars,
                   localFile, githubVars>>

\* _write_outbox meets an OSError, before os.replace or (in chmod) after it.
\* The PipelineError leaves the method: no finish_run.
WriteOutboxFails(r) ==
    /\ pc[r] = "outbox"
    /\ Goto(r, "ended")
    /\ lock' = NoRun
    /\ \/ localFile' = [localFile EXCEPT ![day[r]] = r]
       \/ UNCHANGED localFile
    /\ UNCHANGED <<today, runVars, job, sha, retryVars, dbVars, githubVars>>

\* Slip: the two UPDATE statements of save_brief are forgotten.
SupersedesNothing(r) == {}

\* The rows save_brief supersedes: pending, of the same path.
Supersedes(r) == {s \in Pending \ {r} : day[s] = day[r]}

\* Slip: publish_requested is ignored.
AlwaysPending(r) == "pending"

NewRowStatus(r) == IF publish[r] THEN "pending" ELSE "not_requested"

\* save_brief, one transaction over both tables.
SaveBrief(r) ==
    LET Update(table) ==
            [s \in Runs |-> IF s = r THEN NewRowStatus(r)
                            ELSE IF s \in Supersedes(r) THEN "superseded"
                            ELSE table[s]]
    IN  /\ pc[r] = "save"
        /\ Goto(r, IF publish[r] THEN "lookup" ELSE "finish")
        /\ job' = IF publish[r] THEN [job EXCEPT ![r] = r] ELSE job
        /\ briefStatus' = Update(briefStatus)
        /\ outboxStatus' = Update(outboxStatus)
        /\ UNCHANGED <<today, lock, runVars, sha, retryVars, runStatus,
                       localFile, githubVars>>

\* Slip: the failed publication does not end the method.
FinalStatusByCoverage(r) == IF covered[r] THEN "complete" ELSE "incomplete"

FinalStatus(r) ==
    IF pc[r] = "finishFailed" THEN "publish_failed"
    ELSE IF covered[r] THEN "complete" ELSE "incomplete"

\* The last finish_run, after the publication if there was one.
FinishRun(r) ==
    /\ pc[r] \in {"finish", "finishFailed"}
    /\ runStatus' = [runStatus EXCEPT ![r] = FinalStatus(r)]
    /\ Goto(r, "ended")
    /\ lock' = NoRun
    /\ UNCHANGED <<today, runVars, job, sha, retryVars, briefStatus,
                   outboxStatus, localFile, githubVars>>

-----------------------------------------------------------------------------
(* A retry pass, `x402-watch retry-publish --confirm-publish`.               *)

\* pending_outbox() is read once, at the start of the pass.
StartRetry(t) ==
    /\ pc[t] = "idle"
    /\ RetryAlone => lock = NoRun /\ \A u \in Retriers : pc[u] = "idle"
    /\ Goto(t, "next")
    /\ todo' = [todo EXCEPT ![t] = Pending]
    /\ UNCHANGED <<today, lock, runVars, job, sha, clean, dbVars, localFile,
                   githubVars>>

\* The rows come by date; rows of one date by run id, which is random.
NextRow(t) ==
    /\ pc[t] = "next"
    /\ \E r \in todo[t] :
           /\ \A s \in todo[t] : day[r] <= day[s]
           /\ job' = [job EXCEPT ![t] = r]
           /\ todo' = [todo EXCEPT ![t] = @ \ {r}]
    /\ Goto(t, "lookup")
    /\ UNCHANGED <<today, lock, runVars, sha, clean, dbVars, localFile,
                   githubVars>>

EndRetry(t) ==
    /\ pc[t] = "next"
    /\ todo[t] = {}
    /\ Goto(t, "idle")
    /\ clean' = [clean EXCEPT ![t] = TRUE]
    /\ UNCHANGED <<today, lock, runVars, job, sha, todo, dbVars, localFile,
                   githubVars>>

-----------------------------------------------------------------------------
(* publish(), called by a run and by a retry pass.                           *)

\* Token, visibility and content lookup succeed.
LookUp(c) ==
    /\ pc[c] = "lookup"
    /\ Goto(c, "put")
    /\ sha' = [sha EXCEPT ![c] = remote[day[job[c]]]]
    /\ UNCHANGED <<today, lock, runVars, job, retryVars, dbVars, localFile,
                   githubVars>>

\* Slip: the failed lookup is not raised.
LookUpFailsSilently(c) ==
    /\ pc[c] = "lookup"
    /\ Goto(c, "confirmed")
    /\ UNCHANGED <<today, lock, runVars, job, sha, retryVars, dbVars,
                   localFile, githubVars>>

\* One of the requests before the write fails: GitHubPublishError.
LookUpFails(c) ==
    /\ pc[c] = "lookup"
    /\ Goto(c, "refused")
    /\ UNCHANGED <<today, lock, runVars, job, sha, retryVars, dbVars,
                   localFile, githubVars>>

\* GitHub applies a write only to the blob it names (external).
Apply(w) ==
    IF remote[day[w.brief]] = w.sha
    THEN /\ remote' = [remote EXCEPT ![day[w.brief]] = w.brief]
         /\ landed' = landed \cup {w.brief}
    ELSE UNCHANGED <<remote, landed>>

WriteOf(c) == [brief |-> job[c], sha |-> sha[c]]

\* The write is applied and its answer read.
Put(c) ==
    /\ pc[c] = "put"
    /\ remote[day[job[c]]] = sha[c]
    /\ Apply(WriteOf(c))
    /\ Goto(c, "confirmed")
    /\ sha' = [sha EXCEPT ![c] = NoRun]
    /\ UNCHANGED <<today, lock, runVars, job, retryVars, dbVars,
                   localFile, inflight>>

\* The write is refused, never arrives, or loses its answer; in the last case
\* GitHub applies it before or after the client goes on.
PutFails(c) ==
    /\ pc[c] = "put"
    /\ Goto(c, "refused")
    /\ \/ inflight' = inflight \cup {WriteOf(c)}
       \/ UNCHANGED inflight
    /\ sha' = [sha EXCEPT ![c] = NoRun]
    /\ UNCHANGED <<today, lock, runVars, job, retryVars, dbVars,
                   localFile, remote, landed>>

\* update_publish_status(..., "published", commit)
RecordPublished(c) ==
    /\ pc[c] = "confirmed"
    /\ Goto(c, IF c \in Runs THEN "finish" ELSE "next")
    /\ briefStatus' = [briefStatus EXCEPT ![job[c]] = "published"]
    /\ outboxStatus' = [outboxStatus EXCEPT ![job[c]] = "published"]
    /\ job' = [job EXCEPT ![c] = NoRun]
    /\ UNCHANGED <<today, lock, runVars, sha, retryVars, runStatus,
                   localFile, githubVars>>

\* Slip: outbox_status is left out of the call.
RowFailedOutright == "failed"

\* The outbox status a failed publication leaves behind.
RowAfterFailure == "pending"

\* Slip: the failure is not counted.
StillClean(c) == clean

\* failures += 1
NoLongerClean(c) == [t \in Retriers |-> clean[t] /\ t # c]

\* update_publish_status(..., "failed", outbox_status="pending")
RecordFailed(c) ==
    /\ pc[c] = "refused"
    /\ Goto(c, IF c \in Runs THEN "finishFailed" ELSE "next")
    /\ briefStatus' = [briefStatus EXCEPT ![job[c]] = "failed"]
    /\ outboxStatus' = [outboxStatus EXCEPT ![job[c]] = RowAfterFailure]
    /\ clean' = NoLongerClean(c)
    /\ job' = [job EXCEPT ![c] = NoRun]
    /\ UNCHANGED <<today, lock, runVars, sha, todo, runStatus,
                   localFile, githubVars>>

-----------------------------------------------------------------------------
(* The environment.                                                          *)

\* The process ends without another database write: killed (systemd's
\* TimeoutStartSec, power loss) or by an exception nothing handles.  The
\* kernel drops its flock.  A write it has sent may still be applied.
Die(c) ==
    /\ pc[c] \notin Resting
    /\ Goto(c, IF c \in Runs THEN "killed" ELSE "idle")
    /\ lock' = IF lock = c THEN NoRun ELSE lock
    /\ \/ pc[c] = "put" /\ inflight' = inflight \cup {WriteOf(c)}
       \/ UNCHANGED inflight
    /\ job' = [job EXCEPT ![c] = NoRun]
    /\ sha' = [sha EXCEPT ![c] = NoRun]
    /\ todo' = [t \in Retriers |-> IF t = c THEN {} ELSE todo[t]]
    /\ clean' = [t \in Retriers |-> clean[t] \/ t = c]
    /\ UNCHANGED <<today, runVars, dbVars, localFile,
                   remote, landed>>

\* GitHub gets to a write whose client no longer waits for the answer.
ApplyLate ==
    /\ \E w \in inflight : Apply(w) /\ inflight' = inflight \ {w}
    /\ UNCHANGED <<today, lock, pc, runVars, job, sha, retryVars, dbVars,
                   localFile>>

Midnight ==
    /\ today < MaxDay
    /\ today' = today + 1
    /\ UNCHANGED <<lock, pc, runVars, job, sha, retryVars, dbVars, localFile,
                   githubVars>>

-----------------------------------------------------------------------------
PublishStep(c) ==
    \/ LookUp(c)
    \/ LookUpFails(c)
    \/ Put(c)
    \/ PutFails(c)
    \/ RecordPublished(c)
    \/ RecordFailed(c)

RunStep(r) ==
    \/ AcceptDraft(r)
    \/ RefuseDraft(r)
    \/ WriteOutbox(r)
    \/ WriteOutboxFails(r)
    \/ SaveBrief(r)
    \/ FinishRun(r)

RetryStep(t) == StartRetry(t) \/ NextRow(t) \/ EndRetry(t)

Next ==
    \/ \E r \in Runs : StartRun(r) \/ RunStep(r)
    \/ \E t \in Retriers : RetryStep(t)
    \/ \E c \in Clients : PublishStep(c) \/ Die(c)
    \/ ApplyLate
    \/ Midnight

Spec == Init /\ [][Next]_vars

\* The operator's side of liveness, which the code does not provide: passes of
\* `retry-publish` are started again and again, they are not all cut short at
\* the same step, and GitHub is not out of reach for ever.  A run that was
\* started is scheduled by the operating system (or dies).
Fairness ==
    /\ \A r \in Runs :
           WF_vars(RunStep(r)) /\ WF_vars(PublishStep(r))
    /\ \A t \in Retriers :
           /\ SF_vars(StartRetry(t))
           /\ SF_vars(NextRow(t))
           /\ SF_vars(EndRetry(t))
           /\ SF_vars(LookUp(t))
           /\ SF_vars(Put(t))
           /\ SF_vars(RecordPublished(t))
           /\ WF_vars(PublishStep(t))

FairSpec == Spec /\ Fairness

-----------------------------------------------------------------------------
(* Properties.                                                               *)

\* Every variable holds values of its type; in particular publish_outbox.status
\* is never "failed", a status pending_outbox() would not find again.
TypeOK ==
    /\ today \in Days
    /\ lock \in Runs \cup {NoRun}
    /\ pc \in [Clients -> Places]
    /\ day \in [Runs -> Days]
    /\ publish \in [Runs -> BOOLEAN]
    /\ baseline \in [Runs -> BOOLEAN]
    /\ covered \in [Runs -> BOOLEAN]
    /\ job \in [Clients -> Runs \cup {NoRun}]
    /\ sha \in [Clients -> Runs \cup {NoRun}]
    /\ todo \in [Retriers -> SUBSET Runs]
    /\ clean \in [Retriers -> BOOLEAN]
    /\ runStatus \in [Runs -> RunStatuses]
    /\ briefStatus \in [Runs -> PublishStatuses]
    /\ outboxStatus \in [Runs -> OutboxStatuses]
    /\ localFile \in [Days -> Runs \cup {NoRun}]
    /\ remote \in [Days -> Runs \cup {NoRun}]
    /\ inflight \subseteq Write
    /\ landed \subseteq Runs

\* What is in the repository under a date is a saved brief of that date whose
\* run was given --publish: no crash, retry or late write lets the brief of a
\* dry run out (the explicit approval of cli.py and db.py).
OnlyApprovedPublished ==
    \A d \in Days :
        remote[d] # NoRun =>
            /\ publish[remote[d]]
            /\ day[remote[d]] = d
            /\ Saved(remote[d])

\* A brief the database calls published has been in the repository: no success
\* is recorded without an answer from the API.
PublishedWasConfirmed ==
    \A r \in Runs :
        briefStatus[r] = "published" \/ outboxStatus[r] = "published"
            => r \in landed

\* At most one complete run was told it is the baseline, across crashes, dates
\* and runs of one date: the flock keeps has_prior_complete_run and finish_run
\* of two runs apart.
OneBaseline ==
    \A r, s \in Runs :
        /\ runStatus[r] = "complete" /\ baseline[r]
        /\ runStatus[s] = "complete" /\ baseline[s]
        => r = s

\* The local file of a date is never older than a brief the database has for
\* it, wherever a run was cut off: the file is replaced before the row exists.
LocalFileCurrent ==
    \A r \in Runs : Saved(r) => r <= localFile[day[r]]

Forward == \A d \in Days : remote[d] <= remote'[d]

\* Publication of a date never goes back to an older brief, although writes
\* may be applied long after the client gave up on them.
NoStaleOverwrite ==
    [][Forward]_remote

\* At most one brief of a date waits for publication, and it is the newest
\* saved one.
PendingIsNewest ==
    \A r \in Pending : \A s \in Runs : Saved(s) /\ day[s] = day[r] => s <= r

\* A run with --publish that is recorded as complete or incomplete has its
\* brief in the repository's history and its row published.
FinishedMeansPublished ==
    \A r \in Runs :
        publish[r] /\ runStatus[r] \in {"complete", "incomplete"}
            => outboxStatus[r] = "published" /\ r \in landed

\* A retry pass about to exit with status 0 has left nothing pending.
CleanPassDrains ==
    \A t \in Retriers :
        pc[t] = "next" /\ todo[t] = {} /\ clean[t] => Pending = {}

\* A brief approved and saved is in the end published, or superseded by a
\* newer brief of its date; a crash anywhere in between does not lose it.
ApprovedSettles ==
    \A r \in Runs :
        (publish[r] /\ Saved(r))
            ~> (outboxStatus[r] \in {"published", "superseded"})

ApprovedFor(d) == {r \in Runs : Saved(r) /\ publish[r] /\ day[r] = d}

\* What the readers of the repository are promised.
Register == INSTANCE BriefRegister WITH
    Briefs <- Runs,
    approvedFor <- [d \in Days |-> ApprovedFor(d)],
    published <- remote

\* Runs, retries, crashes and late writes together behave as the register of
\* approved briefs does.
RegisterSpec == Register!Spec

=============================================================================
