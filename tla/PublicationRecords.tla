-------------------------- MODULE PublicationRecords --------------------------
(***************************************************************************)
(* Theorems about what Publication leaves on record: the rows of runs,       *)
(* briefs and publish_outbox and the local file, each against what really    *)
(* happened.  They rest on the invariants of PublicationProofs.  The last    *)
(* two take RetryAlone as an assumption; the others hold for the code alone. *)
(***************************************************************************)
EXTENDS PublicationProofs

\* A client that has an answer from GitHub has its brief in the repository.
Confirmed ==
    /\ PublishedWasConfirmed
    /\ \A c \in Clients : pc[c] = "confirmed" => job[c] \in landed

\* A run about to save its brief has written the file of its date.
LocalFirst ==
    /\ LocalFileCurrent
    /\ \A r \in Runs : pc[r] = "save" => localFile[day[r]] = r

\* A run at work is recorded as running; a complete one had full coverage and
\* a date that has come; and no run is complete beside a baseline at work.
BaselineRuns ==
    /\ OneBaseline
    /\ \A r \in Runs : pc[r] \notin Resting => runStatus[r] = "running"
    /\ \A r \in Runs : pc[r] = "idle" => runStatus[r] = "none"
    /\ \A r \in Runs : runStatus[r] = "complete" => covered[r]
    /\ \A r \in Runs : day[r] <= today
    /\ \A r, s \in Runs :
           pc[r] \notin Resting /\ baseline[r] => runStatus[s] # "complete"

-----------------------------------------------------------------------------
(* Whatever runs, retries and deaths come together.                          *)

LEMMA LandedGrows == Inv /\ [Next]_vars => landed \subseteq landed'
<1> SUFFICES ASSUME Inv, [Next]_vars PROVE landed \subseteq landed'
  OBVIOUS
<1>1. ASSUME NEW c \in Clients, Put(c) PROVE landed \subseteq landed'
  BY <1>1, ApplyEffect, WriteOfJob DEF Put, Inv
<1>2. ASSUME ApplyLate PROVE landed \subseteq landed'
  BY <1>2, ApplyEffect DEF ApplyLate, Inv, TypeOK
<1>3. ASSUME ~ApplyLate, \A c \in Clients : ~Put(c) PROVE landed' = landed
  BY <1>3 DEF Next, RunStep, RetryStep, PublishStep, StartRun, AcceptDraft,
     RefuseDraft, WriteOutbox, WriteOutboxFails, SaveBrief, FinishRun,
     StartRetry, NextRow, EndRetry, LookUp, LookUpFails, PutFails,
     RecordPublished, RecordFailed, Die, Midnight, vars, githubVars
<1>4. QED
  BY <1>1, <1>2, <1>3

LEMMA ConfirmedStep == Inv /\ Confirmed /\ [Next]_vars => Confirmed'
<1> SUFFICES ASSUME Inv, Confirmed, [Next]_vars PROVE Confirmed'
  OBVIOUS
<1>0. landed \subseteq landed'
  BY LandedGrows
<1>a. TypeOK /\ JobApproved
  BY DEF Inv
<1> USE <1>0, <1>a, ConstantTypes
    DEF TypeOK, Confirmed, PublishedWasConfirmed, Goto, Publishing, Clients
<1>1. ASSUME NEW r \in Runs, StartRun(r) \/ RunStep(r) PROVE Confirmed'
  <2>1. ASSUME StartRun(r) PROVE Confirmed'
    BY <2>1 DEF StartRun, retryVars, githubVars
  <2>2. ASSUME AcceptDraft(r) PROVE Confirmed'
    BY <2>2 DEF AcceptDraft, retryVars, dbVars, githubVars
  <2>3. ASSUME RefuseDraft(r) PROVE Confirmed'
    BY <2>3 DEF RefuseDraft, runVars, retryVars, githubVars
  <2>4. ASSUME WriteOutbox(r) PROVE Confirmed'
    BY <2>4 DEF WriteOutbox, runVars, retryVars, dbVars, githubVars
  <2>5. ASSUME WriteOutboxFails(r) PROVE Confirmed'
    BY <2>5 DEF WriteOutboxFails, runVars, retryVars, dbVars, githubVars
  <2>6. ASSUME SaveBrief(r) PROVE Confirmed'
    BY <2>6 DEF SaveBrief, NewRowStatus, runVars, retryVars, githubVars
  <2>7. ASSUME FinishRun(r) PROVE Confirmed'
    BY <2>7 DEF FinishRun, runVars, retryVars, githubVars
  <2>8. QED
    BY <1>1, <2>1, <2>2, <2>3, <2>4, <2>5, <2>6, <2>7 DEF RunStep
<1>2. ASSUME NEW t \in Retriers, RetryStep(t) PROVE Confirmed'
  BY <1>2 DEF RetryStep, StartRetry, NextRow, EndRetry, runVars, dbVars,
              githubVars
<1>3. ASSUME NEW c \in Clients, LookUp(c) \/ LookUpFails(c) \/ PutFails(c)
      PROVE  Confirmed'
  BY <1>3 DEF LookUp, LookUpFails, PutFails, runVars, retryVars, dbVars,
              githubVars
<1>4. ASSUME NEW c \in Clients, Put(c) PROVE Confirmed'
  <2>1. job[c] \in landed'
    BY <1>4 DEF Put, Apply, WriteOf
  <2>2. QED
    BY <1>4, <2>1 DEF Put, runVars, retryVars, dbVars
<1>5. ASSUME NEW c \in Clients, RecordPublished(c) PROVE Confirmed'
  BY <1>5 DEF RecordPublished, JobApproved, runVars, retryVars, githubVars
<1>6. ASSUME NEW c \in Clients, RecordFailed(c) PROVE Confirmed'
  BY <1>6 DEF RecordFailed, RowAfterFailure, JobApproved, runVars, githubVars
<1>7. ASSUME NEW c \in Clients, Die(c) PROVE Confirmed'
  BY <1>7 DEF Die, Resting, runVars, dbVars
<1>8. CASE ApplyLate \/ Midnight \/ UNCHANGED vars
  BY <1>8 DEF ApplyLate, Midnight, vars, runVars, retryVars, dbVars,
              githubVars
<1>9. QED
  BY <1>1, <1>2, <1>3, <1>4, <1>5, <1>6, <1>7, <1>8 DEF Next, PublishStep

\* A success recorded in the database had an answer from the API behind it,
\* for any number of runs and retry passes side by side (publisher.py,
\* update_publish_status).
THEOREM SuccessIsReal == Spec => []PublishedWasConfirmed
<1>1. Init => Confirmed
  BY DEF Init, Confirmed, PublishedWasConfirmed
<1>2. Confirmed => PublishedWasConfirmed
  BY DEF Confirmed
<1>3. QED
  BY Invariance, ConfirmedStep, <1>1, <1>2, PTL DEF Spec

LEMMA LocalStep == Inv /\ LocalFirst /\ [Next]_vars => LocalFirst'
<1> SUFFICES ASSUME Inv, LocalFirst, [Next]_vars PROVE LocalFirst'
  OBVIOUS
<1>a. TypeOK /\ JobApproved /\ LockOrder /\ RowsApproved
  BY DEF Inv
<1> USE <1>a, ConstantTypes
    DEF TypeOK, LocalFirst, LocalFileCurrent, Goto, Publishing, Saved,
        Clients
<1>1. ASSUME NEW r \in Runs, StartRun(r) PROVE LocalFirst'
  BY <1>1 DEF StartRun, RowsApproved, LockOrder, Resting, retryVars,
              githubVars
<1>2. ASSUME NEW r \in Runs, AcceptDraft(r) \/ RefuseDraft(r) \/ FinishRun(r)
      PROVE  LocalFirst'
  BY <1>2 DEF AcceptDraft, RefuseDraft, FinishRun, runVars, retryVars, dbVars,
              githubVars
<1>3. ASSUME NEW r \in Runs, WriteOutbox(r) \/ WriteOutboxFails(r)
      PROVE  LocalFirst'
  <2>1. ASSUME NEW s \in Runs, Saved(s) PROVE s <= r
    <3>1. pc[r] = "outbox" /\ pc[s] # "idle"
      BY <1>3, <2>1 DEF WriteOutbox, WriteOutboxFails, RowsApproved
    <3>2. ~(r < s)
      BY <3>1 DEF LockOrder
    <3>3. QED
      BY <3>2
  <2>2. \A s \in Runs \ {r} : pc[s] # "save"
    BY <1>3 DEF WriteOutbox, WriteOutboxFails, LockOrder, Resting
  <2>3. /\ UNCHANGED <<day, outboxStatus>>
        /\ localFile' = [localFile EXCEPT ![day[r]] = r] \/ localFile' = localFile
        /\ pc'[r] = "save" => localFile'[day[r]] = r
        /\ \A s \in Runs \ {r} : pc'[s] = pc[s]
    BY <1>3 DEF WriteOutbox, WriteOutboxFails, runVars, dbVars
  <2>4. LocalFileCurrent'
    <3>1. ASSUME NEW s \in Runs, Saved(s) PROVE s <= localFile'[day[s]]
      <4>1. day[s] \in Days /\ s <= localFile[day[s]]
        BY <3>1
      <4>2. CASE localFile' = localFile
        BY <4>1, <4>2
      <4>3. CASE localFile' = [localFile EXCEPT ![day[r]] = r]
        BY <2>1, <3>1, <4>1, <4>3
      <4>4. QED
        BY <2>3, <4>2, <4>3
    <3>2. QED
      BY <2>3, <3>1
  <2>5. QED
    BY <2>2, <2>3, <2>4
<1>4. ASSUME NEW r \in Runs, SaveBrief(r) PROVE LocalFirst'
  <2>1. /\ pc[r] = "save"
        /\ pc' = [pc EXCEPT ![r] = IF publish[r] THEN "lookup" ELSE "finish"]
        /\ UNCHANGED <<day, localFile>>
    BY <1>4 DEF SaveBrief, runVars
  <2>2. \A s \in Runs \ {r} : Saved(s)' => Saved(s)
    BY <1>4, SaveBriefRows
  <2>3. r <= localFile[day[r]]
    BY <2>1
  <2>4. QED
    BY <2>1, <2>2, <2>3
<1>5. ASSUME NEW t \in Retriers, RetryStep(t) PROVE LocalFirst'
  BY <1>5 DEF RetryStep, StartRetry, NextRow, EndRetry, runVars, dbVars,
              githubVars
<1>6. ASSUME NEW c \in Clients,
             LookUp(c) \/ LookUpFails(c) \/ Put(c) \/ PutFails(c)
      PROVE  LocalFirst'
  BY <1>6 DEF LookUp, LookUpFails, Put, PutFails, runVars, retryVars, dbVars
<1>7. ASSUME NEW c \in Clients, RecordPublished(c) \/ RecordFailed(c)
      PROVE  LocalFirst'
  BY <1>7 DEF RecordPublished, RecordFailed, RowAfterFailure, JobApproved,
              runVars
<1>8. ASSUME NEW c \in Clients, Die(c) PROVE LocalFirst'
  BY <1>8 DEF Die, runVars, dbVars
<1>9. CASE ApplyLate \/ Midnight \/ UNCHANGED vars
  BY <1>9 DEF ApplyLate, Midnight, vars, runVars, retryVars, dbVars
<1>10. QED
  BY <1>1, <1>2, <1>3, <1>4, <1>5, <1>6, <1>7, <1>8, <1>9
     DEF Next, RunStep, PublishStep

\* Wherever a run is cut off, the local file of a date is never older than a
\* brief the database has for it (pipeline.py: _write_outbox, then save_brief).
THEOREM LocalFileNotOlder == Spec => []LocalFileCurrent
<1>1. Init => LocalFirst
  BY DEF Init, LocalFirst, LocalFileCurrent, Saved, Clients
<1>2. LocalFirst => LocalFileCurrent
  BY DEF LocalFirst
<1>3. QED
  BY Invariance, LocalStep, <1>1, <1>2, PTL DEF Spec

LEMMA BaselineStep == Inv /\ BaselineRuns /\ [Next]_vars => BaselineRuns'
<1> SUFFICES ASSUME Inv, BaselineRuns, [Next]_vars PROVE BaselineRuns'
  OBVIOUS
<1>a. TypeOK /\ LockOrder
  BY DEF Inv
<1>b. today \in Nat /\ \A r \in Runs : day[r] \in Nat
  BY <1>a, ConstantTypes DEF TypeOK
<1> USE <1>a, <1>b, ConstantTypes
    DEF TypeOK, BaselineRuns, OneBaseline, Goto, Resting, Clients
<1>1. ASSUME NEW r \in Runs, StartRun(r) PROVE BaselineRuns'
  <2>1. /\ pc[r] = "idle" /\ lock = NoRun
        /\ pc' = [pc EXCEPT ![r] = "research"]
        /\ day' = [day EXCEPT ![r] = today]
        /\ runStatus' = [runStatus EXCEPT ![r] = "running"]
        /\ baseline' = [baseline EXCEPT ![r] = ~HasPriorCompleteRun(r)]
        /\ UNCHANGED <<today, covered>>
    BY <1>1 DEF StartRun
  <2>2. \A s \in Runs : pc[s] \in Resting
    BY <2>1 DEF LockOrder
  <2>3. ASSUME baseline'[r], NEW s \in Runs PROVE runStatus'[s] # "complete"
    BY <2>1, <2>3 DEF HasPriorCompleteRun
  <2>4. \A s \in Runs \ {r} :
            /\ runStatus'[s] = runStatus[s] /\ baseline'[s] = baseline[s]
            /\ pc'[s] = pc[s] /\ day'[s] = day[s]
    BY <2>1
  <2>5. runStatus'[r] = "running" /\ day'[r] = today /\ pc'[r] = "research"
    BY <2>1
  <2>6. OneBaseline'
    BY <2>4, <2>5
  <2>7. QED
    BY <2>1, <2>2, <2>3, <2>4, <2>5, <2>6
<1>2. ASSUME NEW r \in Runs, AcceptDraft(r) PROVE BaselineRuns'
  BY <1>2 DEF AcceptDraft, dbVars
<1>3. ASSUME NEW r \in Runs, RefuseDraft(r) PROVE BaselineRuns'
  BY <1>3 DEF RefuseDraft, runVars
<1>4. ASSUME NEW r \in Runs, WriteOutbox(r) \/ WriteOutboxFails(r)
      PROVE  BaselineRuns'
  BY <1>4 DEF WriteOutbox, WriteOutboxFails, runVars, dbVars
<1>5. ASSUME NEW r \in Runs, SaveBrief(r) PROVE BaselineRuns'
  BY <1>5 DEF SaveBrief, runVars
<1>6. ASSUME NEW r \in Runs, FinishRun(r) PROVE BaselineRuns'
  <2>1. /\ pc[r] \notin Resting
        /\ pc' = [pc EXCEPT ![r] = "ended"]
        /\ runStatus' = [runStatus EXCEPT ![r] = FinalStatus(r)]
        /\ UNCHANGED <<today, day, baseline, covered>>
    BY <1>6 DEF FinishRun, runVars
  <2>2. \A s \in Runs \ {r} : pc[s] \in Resting
    BY <2>1 DEF LockOrder
  <2>3. /\ FinalStatus(r) = "complete" => covered[r]
        /\ FinalStatus(r) # "none"
    BY DEF FinalStatus
  <2>4. baseline[r] => \A s \in Runs \ {r} : runStatus[s] # "complete"
    BY <2>1
  <2>5. \A s \in Runs \ {r} :
            runStatus'[s] = runStatus[s] /\ pc'[s] = pc[s]
    BY <2>1
  <2>6. pc'[r] = "ended" /\ runStatus'[r] = FinalStatus(r)
    BY <2>1
  <2>7. OneBaseline'
    BY <2>1, <2>4, <2>5
  <2>8. QED
    BY <2>1, <2>2, <2>3, <2>5, <2>6, <2>7
<1>7. ASSUME NEW t \in Retriers, RetryStep(t) PROVE BaselineRuns'
  BY <1>7 DEF RetryStep, StartRetry, NextRow, EndRetry, runVars, dbVars
<1>8. ASSUME NEW c \in Clients, PublishStep(c) PROVE BaselineRuns'
  <2>1. /\ UNCHANGED <<today, day, baseline, covered, runStatus>>
        /\ \A s \in Runs : pc'[s] = pc[s] \/ pc[s] \notin Resting
        /\ \A s \in Runs : pc'[s] \in Resting => pc'[s] = pc[s]
    BY <1>8 DEF PublishStep, LookUp, LookUpFails, Put, PutFails,
       RecordPublished, RecordFailed, runVars, dbVars
  <2>2. QED
    BY <2>1
<1>9. ASSUME NEW c \in Clients, Die(c) PROVE BaselineRuns'
  BY <1>9 DEF Die, runVars, dbVars
<1>10. ASSUME Midnight PROVE BaselineRuns'
  BY <1>10 DEF Midnight, runVars, dbVars
<1>11. CASE ApplyLate \/ UNCHANGED vars
  BY <1>11 DEF ApplyLate, vars, runVars, dbVars
<1>12. QED
  BY <1>1, <1>2, <1>3, <1>4, <1>5, <1>6, <1>7, <1>8, <1>9, <1>10, <1>11
     DEF Next, RunStep

\* Readers are told of one baseline only: crashes, refused drafts, other dates
\* and reruns of a date never make a second complete run a baseline (db.py:
\* has_prior_complete_run, under the flock of pipeline.py).
THEOREM BaselineOnce == Spec => []OneBaseline
<1>1. Init => BaselineRuns
  BY ConstantTypes DEF Init, BaselineRuns, OneBaseline, Resting, Clients
<1>2. BaselineRuns => OneBaseline
  BY DEF BaselineRuns
<1>3. QED
  BY Invariance, BaselineStep, <1>1, <1>2, PTL DEF Spec

-----------------------------------------------------------------------------
(* With one command at work at a time.                                       *)

\* A run past its publication has it on record.
Finished ==
    \A r \in Runs :
        /\ publish[r]
        /\ pc[r] = "finish" \/ runStatus[r] \in {"complete", "incomplete"}
        => outboxStatus[r] = "published"

\* What a pass without a failure has yet to publish is in its hands.
Drained ==
    \A t \in Retriers :
        pc[t] # "idle" /\ clean[t] =>
            Pending \subseteq
                todo[t] \cup (IF pc[t] = "next" THEN {} ELSE {job[t]})

\* What is recorded as published stays so: a second attempt at a row would be
\* the retry pass of another process.
LEMMA PublishedStays ==
    ASSUME InvAlone, [Next]_vars, NEW r \in Runs, outboxStatus[r] = "published"
    PROVE  outboxStatus'[r] = "published"
<1>a. TypeOK /\ JobApproved /\ RowsApproved /\ Queue
  BY DEF InvAlone, Inv
<1>1. ASSUME NEW s \in Runs, SaveBrief(s)
      PROVE  outboxStatus'[r] = "published"
  <2>1. s # r
    BY <1>a, <1>1 DEF SaveBrief, RowsApproved, Saved
  <2>2. QED
    BY <1>a, <1>1, <2>1, SaveBriefRows
<1>2. ASSUME NEW c \in Clients, RecordPublished(c)
      PROVE  outboxStatus'[r] = "published"
  BY <1>a, <1>2 DEF RecordPublished, TypeOK
<1>3. ASSUME NEW c \in Clients, RecordFailed(c)
      PROVE  outboxStatus'[r] = "published"
  <2>1. job[c] # r
    BY <1>a, <1>3 DEF RecordFailed, Queue, Publishing
  <2>2. QED
    BY <1>a, <1>3, <2>1 DEF RecordFailed, TypeOK
<1>4. ASSUME \A s \in Runs : ~SaveBrief(s),
             \A c \in Clients : ~RecordPublished(c) /\ ~RecordFailed(c)
      PROVE  outboxStatus' = outboxStatus
  BY <1>4 DEF Next, RunStep, RetryStep, PublishStep, StartRun, AcceptDraft,
     RefuseDraft, WriteOutbox, WriteOutboxFails, FinishRun, StartRetry,
     NextRow, EndRetry, LookUp, LookUpFails, Put, PutFails, Die, ApplyLate,
     Midnight, vars, dbVars
<1>5. QED
  BY <1>1, <1>2, <1>3, <1>4

LEMMA FinishedStep ==
    InvAlone /\ Finished /\ [Next]_vars => Finished'
<1> SUFFICES ASSUME InvAlone, Finished, [Next]_vars PROVE Finished'
  OBVIOUS
<1>a. TypeOK /\ JobApproved
  BY DEF InvAlone, Inv
<1>b. \A r \in Runs :
          outboxStatus[r] = "published" => outboxStatus'[r] = "published"
  BY PublishedStays
<1> USE <1>a, <1>b, ConstantTypes
    DEF TypeOK, Finished, Goto, Clients
<1>1. ASSUME NEW r \in Runs, StartRun(r) PROVE Finished'
  BY <1>1 DEF StartRun
<1>2. ASSUME NEW r \in Runs, AcceptDraft(r) \/ WriteOutbox(r)
                                \/ WriteOutboxFails(r)
      PROVE  Finished'
  BY <1>2 DEF AcceptDraft, WriteOutbox, WriteOutboxFails, runVars, dbVars
<1>3. ASSUME NEW r \in Runs, RefuseDraft(r) PROVE Finished'
  BY <1>3 DEF RefuseDraft, runVars
<1>4. ASSUME NEW r \in Runs, SaveBrief(r) PROVE Finished'
  <2>1. /\ pc' = [pc EXCEPT ![r] = IF publish[r] THEN "lookup" ELSE "finish"]
        /\ pc[r] = "save"
        /\ UNCHANGED <<publish, runStatus>>
    BY <1>4 DEF SaveBrief, runVars
  <2>2. QED
    BY <2>1
<1>5. ASSUME NEW r \in Runs, FinishRun(r) PROVE Finished'
  BY <1>5 DEF FinishRun, FinalStatus, runVars
<1>6. ASSUME NEW t \in Retriers, RetryStep(t) PROVE Finished'
  BY <1>6 DEF RetryStep, StartRetry, NextRow, EndRetry, runVars, dbVars
<1>7. ASSUME NEW c \in Clients,
             LookUp(c) \/ LookUpFails(c) \/ Put(c) \/ PutFails(c)
      PROVE  Finished'
  BY <1>7 DEF LookUp, LookUpFails, Put, PutFails, runVars, dbVars
<1>8. ASSUME NEW c \in Clients, RecordPublished(c) PROVE Finished'
  BY <1>8 DEF RecordPublished, JobApproved, Publishing, runVars
<1>9. ASSUME NEW c \in Clients, RecordFailed(c) PROVE Finished'
  BY <1>9 DEF RecordFailed, runVars
<1>10. ASSUME NEW c \in Clients, Die(c) PROVE Finished'
  BY <1>10 DEF Die, Resting, runVars, dbVars
<1>11. CASE ApplyLate \/ Midnight \/ UNCHANGED vars
  BY <1>11 DEF ApplyLate, Midnight, vars, runVars, dbVars
<1>12. QED
  BY <1>1, <1>2, <1>3, <1>4, <1>5, <1>6, <1>7, <1>8, <1>9, <1>10, <1>11
     DEF Next, RunStep, PublishStep

\* A run with --publish that reports complete or incomplete has published its
\* brief (pipeline.py: the last finish_run).
THEOREM FinishedIsPublished ==
    ASSUME RetryAlone PROVE Spec => []FinishedMeansPublished
<1>1. Init => Finished /\ Confirmed
  BY ConstantTypes
     DEF Init, Finished, Confirmed, PublishedWasConfirmed, Clients
<1>2. Finished /\ Confirmed => FinishedMeansPublished
  BY DEF Finished, Confirmed, PublishedWasConfirmed, FinishedMeansPublished
<1>3. InvAlone => Inv
  BY DEF InvAlone
<1>4. QED
  BY AloneInvariance, ConfirmedStep, FinishedStep, <1>1, <1>2, <1>3, PTL
     DEF Spec

\* A process moves itself only.
LEMMA OthersStay ==
    ASSUME TypeOK, NEW c \in Clients, NEW d \in Clients \ {c},
           \/ c \in Runs /\ (StartRun(c) \/ RunStep(c))
           \/ PublishStep(c)
    PROVE  pc'[d] = pc[d]
<1> USE DEF Goto, TypeOK
<1>1. CASE StartRun(c)
  BY <1>1 DEF StartRun
<1>2. CASE AcceptDraft(c) \/ RefuseDraft(c)
  BY <1>2 DEF AcceptDraft, RefuseDraft
<1>3. CASE WriteOutbox(c) \/ WriteOutboxFails(c)
  BY <1>3 DEF WriteOutbox, WriteOutboxFails
<1>4. CASE SaveBrief(c)
  BY <1>4 DEF SaveBrief
<1>5. CASE FinishRun(c)
  BY <1>5 DEF FinishRun
<1>6. CASE LookUp(c) \/ LookUpFails(c)
  BY <1>6 DEF LookUp, LookUpFails
<1>7. CASE Put(c) \/ PutFails(c)
  BY <1>7 DEF Put, PutFails
<1>8. CASE RecordPublished(c)
  BY <1>8 DEF RecordPublished
<1>9. CASE RecordFailed(c)
  BY <1>9 DEF RecordFailed
<1>10. QED
  BY <1>1, <1>2, <1>3, <1>4, <1>5, <1>6, <1>7, <1>8, <1>9
     DEF RunStep, PublishStep

LEMMA DrainedStep ==
    ASSUME RetryAlone
    PROVE  InvAlone /\ Drained /\ [Next]_vars => Drained'
<1> SUFFICES ASSUME InvAlone, Drained, [Next]_vars PROVE Drained'
  OBVIOUS
<1>a. TypeOK /\ JobApproved /\ LockOrder /\ OneAtWork /\ Queue
  BY DEF InvAlone, Inv
<1> USE <1>a, ConstantTypes DEF TypeOK, Drained, Goto, Pending, Clients
<1>1. ASSUME NEW r \in Runs, StartRun(r) \/ RunStep(r) PROVE Drained'
  <2>1. \A t \in Retriers : pc[t] = "idle"
    BY <1>1 DEF StartRun, RunStep, AcceptDraft, RefuseDraft, WriteOutbox,
       WriteOutboxFails, SaveBrief, FinishRun, LockOrder, Resting, OneAtWork
  <2>2. \A t \in Retriers : t \in Clients \ {r}
    OBVIOUS
  <2>3. \A t \in Retriers : pc'[t] = pc[t]
    BY <1>1, <2>2, OthersStay
  <2>4. QED
    BY <2>1, <2>3
<1>2. ASSUME NEW t \in Retriers, StartRetry(t) PROVE Drained'
  BY <1>2 DEF StartRetry, OneAtWork, dbVars
<1>3. ASSUME NEW t \in Retriers, NextRow(t) PROVE Drained'
  BY <1>3 DEF NextRow, OneAtWork, dbVars
<1>4. ASSUME NEW t \in Retriers, EndRetry(t) PROVE Drained'
  BY <1>4 DEF EndRetry, OneAtWork, dbVars
<1>5. ASSUME NEW c \in Clients, PublishStep(c) PROVE Drained'
  <2>1. CASE c \in Runs
    <3>1. \A t \in Retriers : pc[t] = "idle"
      BY <1>5, <2>1 DEF PublishStep, LookUp, LookUpFails, Put, PutFails,
         RecordPublished, RecordFailed, LockOrder, Resting, OneAtWork
    <3>2. \A t \in Retriers : t \in Clients \ {c}
      BY <2>1
    <3>3. \A t \in Retriers : pc'[t] = pc[t]
      BY <1>5, <3>2, OthersStay
    <3>4. QED
      BY <3>1, <3>3
  <2>2. CASE c \in Retriers
    <3>1. \A t \in Retriers \ {c} : pc[t] = "idle" /\ pc'[t] = "idle"
      BY <1>5, <2>2 DEF PublishStep, LookUp, LookUpFails, Put, PutFails,
         RecordPublished, RecordFailed, OneAtWork
    <3>2. ASSUME LookUp(c) \/ LookUpFails(c) \/ Put(c) \/ PutFails(c)
          PROVE  Drained'
      BY <2>2, <3>1, <3>2 DEF LookUp, LookUpFails, Put, PutFails, retryVars,
         dbVars
    <3>3. ASSUME RecordPublished(c) PROVE Drained'
      BY <2>2, <3>1, <3>3 DEF RecordPublished, Publishing, retryVars
    <3>4. ASSUME RecordFailed(c) PROVE Drained'
      <4>1. ~clean'[c]
        BY <2>2, <3>4 DEF RecordFailed, NoLongerClean
      <4>2. QED
        BY <3>1, <4>1
    <3>5. QED
      BY <1>5, <3>2, <3>3, <3>4 DEF PublishStep
  <2>3. QED
    BY <2>1, <2>2
<1>6. ASSUME NEW c \in Clients, Die(c) PROVE Drained'
  <2>1. \A t \in Retriers : pc'[t] = "idle" \/ (pc'[t] = pc[t] /\ t # c)
    BY <1>6 DEF Die
  <2>2. \A t \in Retriers \ {c} :
            /\ todo'[t] = todo[t] /\ clean'[t] = clean[t]
            /\ job'[t] = job[t]
    BY <1>6 DEF Die
  <2>3. outboxStatus' = outboxStatus
    BY <1>6 DEF Die, dbVars
  <2>4. QED
    BY <2>1, <2>2, <2>3
<1>7. CASE ApplyLate \/ Midnight \/ UNCHANGED vars
  BY <1>7 DEF ApplyLate, Midnight, vars, retryVars, dbVars
<1>8. QED
  BY <1>1, <1>2, <1>3, <1>4, <1>5, <1>6, <1>7 DEF Next, RetryStep

\* Exit status 0 of `retry-publish` means that the outbox is empty (cli.py:
\* the count of failures).
THEOREM CleanMeansDrained ==
    ASSUME RetryAlone PROVE Spec => []CleanPassDrains
<1>1. Init => Drained
  BY ConstantTypes DEF Init, Drained, Clients
<1>2. Drained => CleanPassDrains
  BY DEF Drained, CleanPassDrains
<1>3. QED
  BY AloneInvariance, DrainedStep, <1>1, <1>2, PTL DEF Spec
=============================================================================
