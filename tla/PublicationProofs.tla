-------------------------- MODULE PublicationProofs --------------------------
(***************************************************************************)
(* Theorems about Publication, for every number of runs, dates and retry     *)
(* processes.  The first part holds for the code alone, whatever RetryAlone  *)
(* is; the second part, from OneAtWork on, takes RetryAlone as an            *)
(* assumption, because the code alone does not have those properties.        *)
(***************************************************************************)
EXTENDS Publication, TLAPS

\* A client that publishes holds a saved row that was approved, and a run
\* publishes its own brief.
JobApproved ==
    /\ \A c \in Clients :
           pc[c] \in Publishing =>
               job[c] \in Runs /\ Saved(job[c]) /\ publish[job[c]]
    /\ \A r \in Runs : pc[r] \in Publishing => job[r] = r

\* Only the holder of the lock is at work, and the runs before a started one
\* are over.
LockOrder ==
    /\ \A r \in Runs : pc[r] \notin Resting => lock = r
    /\ \A r, s \in Runs :
           r < s /\ pc[s] # "idle" => pc[r] \in {"ended", "killed"}

\* No row exists before save_brief, and a row that waits for publication or
\* has left the queue was approved.
RowsApproved ==
    /\ \A r \in Runs :
           Saved(r) => pc[r] \notin {"idle", "research", "outbox", "save"}
    /\ \A r \in Runs :
           outboxStatus[r] \notin {"none", "not_requested"} => publish[r]
    /\ \A t \in Retriers : \A r \in todo[t] : Saved(r) /\ publish[r]

\* So is whatever is on its way to GitHub.
WritesApproved ==
    \A w \in inflight : Saved(w.brief) /\ publish[w.brief]

\* The inductive invariant of the code alone.
Inv ==
    /\ TypeOK
    /\ JobApproved
    /\ LockOrder
    /\ RowsApproved
    /\ WritesApproved
    /\ OnlyApprovedPublished

-----------------------------------------------------------------------------
LEMMA ConstantTypes ==
    /\ Runs \subseteq Nat \ {0}
    /\ NoRun = 0
    /\ NoRun \notin Runs
    /\ 1 \in Days
    /\ Days \subseteq Nat
    /\ Runs \cap Retriers = {}
BY PublicationAssumption DEF Runs, Days, NoRun

LEMMA RunNumbers ==
    ASSUME NEW r \in Runs \cup {NoRun}
    PROVE  r \in Nat /\ NoRun <= r
BY ConstantTypes

LEMMA InvInit == Init => Inv
BY ConstantTypes DEF Init, Inv, TypeOK, JobApproved, LockOrder, RowsApproved,
   WritesApproved, OnlyApprovedPublished, Saved, Places, Resting, Publishing,
   RunSteps, Clients, RunStatuses, PublishStatuses, OutboxStatuses, Write

\* What GitHub does to one write.
LEMMA ApplyEffect ==
    ASSUME TypeOK, NEW w \in Write, Apply(w)
    PROVE  /\ remote' \in [Days -> Runs \cup {NoRun}]
           /\ landed' \subseteq Runs
           /\ landed \subseteq landed'
           /\ \A d \in Days :
                  remote'[d] # remote[d] =>
                      /\ d = day[w.brief]
                      /\ remote'[d] = w.brief
                      /\ remote[d] = w.sha
                      /\ w.brief \in landed'
<1>1. w.brief \in Runs /\ w.sha \in Runs \cup {NoRun}
  BY DEF Write
<1>2. CASE remote[day[w.brief]] = w.sha
  BY <1>1, <1>2 DEF TypeOK, Apply
<1>3. CASE remote[day[w.brief]] # w.sha
  BY <1>3 DEF TypeOK, Apply
<1>4. QED
  BY <1>2, <1>3

LEMMA WriteOfJob ==
    ASSUME TypeOK, JobApproved, NEW c \in Clients, pc[c] = "put"
    PROVE  WriteOf(c) \in Write
BY DEF TypeOK, JobApproved, Publishing, WriteOf, Write

\* Every action keeps the variables in their types.
LEMMA TypeStep == Inv /\ [Next]_vars => TypeOK'
<1> SUFFICES ASSUME TypeOK, JobApproved, [Next]_vars PROVE TypeOK'
  BY DEF Inv
<1> USE ConstantTypes
    DEF TypeOK, Goto, Places, Resting, Publishing, RunSteps, Clients,
        RunStatuses, PublishStatuses, OutboxStatuses
<1>1. ASSUME NEW r \in Runs, StartRun(r) PROVE TypeOK'
  BY <1>1 DEF StartRun, retryVars, githubVars
<1>2. ASSUME NEW r \in Runs, AcceptDraft(r) PROVE TypeOK'
  BY <1>2 DEF AcceptDraft, retryVars, dbVars, githubVars
<1>3. ASSUME NEW r \in Runs, RefuseDraft(r) PROVE TypeOK'
  BY <1>3 DEF RefuseDraft, runVars, retryVars, githubVars
<1>4. ASSUME NEW r \in Runs, WriteOutbox(r) PROVE TypeOK'
  BY <1>4 DEF WriteOutbox, runVars, retryVars, dbVars, githubVars
<1>5. ASSUME NEW r \in Runs, WriteOutboxFails(r) PROVE TypeOK'
  BY <1>5 DEF WriteOutboxFails, runVars, retryVars, dbVars, githubVars
<1>6. ASSUME NEW r \in Runs, SaveBrief(r) PROVE TypeOK'
  BY <1>6 DEF SaveBrief, NewRowStatus, runVars, retryVars, githubVars
<1>7. ASSUME NEW r \in Runs, FinishRun(r) PROVE TypeOK'
  BY <1>7 DEF FinishRun, FinalStatus, runVars, retryVars, githubVars
<1>8. ASSUME NEW t \in Retriers, StartRetry(t) PROVE TypeOK'
  BY <1>8 DEF StartRetry, Pending, runVars, dbVars, githubVars
<1>9. ASSUME NEW t \in Retriers, NextRow(t) PROVE TypeOK'
  BY <1>9 DEF NextRow, runVars, dbVars, githubVars
<1>10. ASSUME NEW t \in Retriers, EndRetry(t) PROVE TypeOK'
  BY <1>10 DEF EndRetry, runVars, dbVars, githubVars
<1>11. ASSUME NEW c \in Clients, LookUp(c) PROVE TypeOK'
  BY <1>11 DEF LookUp, runVars, retryVars, dbVars, githubVars, JobApproved
<1>12. ASSUME NEW c \in Clients, LookUpFails(c) PROVE TypeOK'
  BY <1>12 DEF LookUpFails, runVars, retryVars, dbVars, githubVars
<1>13. ASSUME NEW c \in Clients, Put(c) PROVE TypeOK'
  <2>1. /\ remote' \in [Days -> Runs \cup {NoRun}]
        /\ landed' \subseteq Runs
    BY <1>13, ApplyEffect, WriteOfJob DEF Put
  <2>2. QED
    BY <1>13, <2>1 DEF Put, runVars, retryVars, dbVars
<1>14. ASSUME NEW c \in Clients, PutFails(c) PROVE TypeOK'
  BY <1>14, WriteOfJob DEF PutFails, runVars, retryVars, dbVars
<1>15. ASSUME NEW c \in Clients, RecordPublished(c) PROVE TypeOK'
  BY <1>15 DEF RecordPublished, runVars, retryVars, githubVars
<1>16. ASSUME NEW c \in Clients, RecordFailed(c) PROVE TypeOK'
  BY <1>16 DEF RecordFailed, RowAfterFailure, NoLongerClean, runVars,
               githubVars
<1>17. ASSUME NEW c \in Clients, Die(c) PROVE TypeOK'
  BY <1>17, WriteOfJob DEF Die, runVars, dbVars
<1>18. ASSUME ApplyLate PROVE TypeOK'
  <2>1. /\ remote' \in [Days -> Runs \cup {NoRun}]
        /\ landed' \subseteq Runs
        /\ inflight' \subseteq inflight
    BY <1>18, ApplyEffect DEF ApplyLate
  <2>2. QED
    BY <1>18, <2>1 DEF ApplyLate, runVars, retryVars, dbVars
<1>19. ASSUME Midnight PROVE TypeOK'
  BY <1>19, PublicationAssumption
     DEF Midnight, Days, runVars, retryVars, dbVars, githubVars
<1>20. CASE UNCHANGED vars
  BY <1>20 DEF vars, runVars, retryVars, dbVars, githubVars
<1>21. QED
  BY <1>1, <1>2, <1>3, <1>4, <1>5, <1>6, <1>7, <1>8, <1>9, <1>10, <1>11,
     <1>12, <1>13, <1>14, <1>15, <1>16, <1>17, <1>18, <1>19, <1>20
     DEF Next, RunStep, RetryStep, PublishStep

\* save_brief brings one row into being, and what it does to others is to
\* supersede rows that were pending.
LEMMA SaveBriefRows ==
    ASSUME TypeOK, NEW r \in Runs, SaveBrief(r)
    PROVE  /\ outboxStatus'[r] = NewRowStatus(r)
           /\ \A s \in Runs \ {r} :
                  \/ /\ outboxStatus'[s] = outboxStatus[s]
                     /\ s \notin Supersedes(r)
                  \/ /\ outboxStatus[s] = "pending"
                     /\ outboxStatus'[s] = "superseded"
                     /\ day[s] = day[r]
<1>1. outboxStatus' = [s \in Runs |-> IF s = r THEN NewRowStatus(r)
                          ELSE IF s \in Supersedes(r) THEN "superseded"
                          ELSE outboxStatus[s]]
  BY DEF SaveBrief
<1>2. QED
  BY <1>1 DEF Supersedes, Pending

\* Every action keeps the rest of the invariant.
LEMMA RestStep == Inv /\ [Next]_vars /\ TypeOK' =>
    /\ JobApproved' /\ LockOrder' /\ RowsApproved'
    /\ WritesApproved' /\ OnlyApprovedPublished'
<1> DEFINE Rest == /\ JobApproved /\ LockOrder /\ RowsApproved
                   /\ WritesApproved /\ OnlyApprovedPublished
<1> SUFFICES ASSUME TypeOK, Rest, [Next]_vars, TypeOK' PROVE Rest'
  BY DEF Inv
<1> USE ConstantTypes
    DEF TypeOK, JobApproved, LockOrder, RowsApproved, WritesApproved,
        OnlyApprovedPublished, Saved, Goto, Resting, Publishing, Clients
<1>1. ASSUME NEW r \in Runs, StartRun(r) PROVE Rest'
  BY <1>1 DEF StartRun, retryVars, githubVars
<1>2. ASSUME NEW r \in Runs, AcceptDraft(r) PROVE Rest'
  BY <1>2 DEF AcceptDraft, retryVars, dbVars, githubVars
<1>3. ASSUME NEW r \in Runs, RefuseDraft(r) PROVE Rest'
  BY <1>3 DEF RefuseDraft, runVars, retryVars, githubVars
<1>4. ASSUME NEW r \in Runs, WriteOutbox(r) PROVE Rest'
  BY <1>4 DEF WriteOutbox, runVars, retryVars, dbVars, githubVars
<1>5. ASSUME NEW r \in Runs, WriteOutboxFails(r) PROVE Rest'
  BY <1>5 DEF WriteOutboxFails, runVars, retryVars, dbVars, githubVars
<1>6. ASSUME NEW r \in Runs, SaveBrief(r) PROVE Rest'
  <2>1. /\ pc[r] = "save"
        /\ pc' = [pc EXCEPT ![r] = IF publish[r] THEN "lookup" ELSE "finish"]
        /\ job' = IF publish[r] THEN [job EXCEPT ![r] = r] ELSE job
        /\ UNCHANGED <<lock, day, publish, todo, remote, inflight>>
    BY <1>6 DEF SaveBrief, runVars, retryVars, githubVars
  <2>2. /\ Saved(r)'
        /\ outboxStatus'[r] \notin {"none", "not_requested"} => publish[r]
    BY <1>6, SaveBriefRows DEF NewRowStatus
  <2>3. \A s \in Runs : Saved(s) => Saved(s)'
    BY <1>6, <2>2, SaveBriefRows
  <2>4. \A s \in Runs \ {r} : Saved(s)' => Saved(s)
    BY <1>6, SaveBriefRows
  <2>5. JobApproved'
    <3>1. CASE publish[r]
      <4>1. \A c \in Clients \ {r} : pc'[c] = pc[c] /\ job'[c] = job[c]
        BY <2>1, <3>1
      <4>2. job'[r] = r
        BY <2>1, <3>1
      <4>3. ASSUME NEW c \in Clients, pc'[c] \in Publishing
            PROVE  job'[c] \in Runs /\ Saved(job[c])' /\ publish'[job'[c]]
        <5>1. CASE c = r
          BY <2>1, <2>2, <3>1, <4>2, <5>1
        <5>2. CASE c # r
          <6>1. job[c] \in Runs /\ Saved(job[c]) /\ publish[job[c]]
            BY <4>1, <4>3, <5>2
          <6>2. QED
            BY <2>1, <2>3, <4>1, <5>2, <6>1
        <5>3. QED
          BY <5>1, <5>2
      <4>4. \A s \in Runs : pc'[s] \in Publishing => job'[s] = s
        BY <4>1, <4>2
      <4>5. QED
        BY <4>3, <4>4
    <3>2. CASE ~publish[r]
      BY <2>1, <2>3, <3>2
    <3>3. QED
      BY <3>1, <3>2
  <2>6. LockOrder'
    BY <2>1
  <2>7. RowsApproved'
    <3>1. \A s \in Runs :
              Saved(s)' => pc'[s] \notin {"idle", "research", "outbox", "save"}
      BY <2>1, <2>4
    <3>2. \A s \in Runs :
              outboxStatus'[s] \notin {"none", "not_requested"} => publish'[s]
      BY <1>6, <2>1, <2>2, SaveBriefRows
    <3>3. \A t \in Retriers : \A s \in todo'[t] : Saved(s)' /\ publish'[s]
      BY <2>1, <2>3
    <3>4. QED
      BY <3>1, <3>2, <3>3
  <2>8. WritesApproved'
    <3>1. \A w \in inflight : w.brief \in Runs
      BY DEF Write
    <3>2. QED
      BY <2>1, <2>3, <3>1
  <2>9. OnlyApprovedPublished'
    <3>1. ASSUME NEW d \in Days, remote[d] # NoRun
          PROVE  publish[remote[d]] /\ day[remote[d]] = d /\ Saved(remote[d])'
      <4>1. /\ remote[d] \in Runs
            /\ publish[remote[d]] /\ day[remote[d]] = d /\ Saved(remote[d])
        BY <3>1
      <4>2. QED
        BY <2>1, <2>3, <4>1
    <3>2. QED
      BY <2>1, <3>1
  <2>10. QED
    BY <2>5, <2>6, <2>7, <2>8, <2>9
<1>7. ASSUME NEW r \in Runs, FinishRun(r) PROVE Rest'
  BY <1>7 DEF FinishRun, runVars, retryVars, githubVars
<1>8. ASSUME NEW t \in Retriers, StartRetry(t) PROVE Rest'
  BY <1>8 DEF StartRetry, Pending, runVars, dbVars, githubVars
<1>9. ASSUME NEW t \in Retriers, NextRow(t) PROVE Rest'
  BY <1>9 DEF NextRow, runVars, dbVars, githubVars
<1>10. ASSUME NEW t \in Retriers, EndRetry(t) PROVE Rest'
  BY <1>10 DEF EndRetry, runVars, dbVars, githubVars
<1>11. ASSUME NEW c \in Clients, LookUp(c) PROVE Rest'
  BY <1>11 DEF LookUp, runVars, retryVars, dbVars, githubVars
<1>12. ASSUME NEW c \in Clients, LookUpFails(c) PROVE Rest'
  BY <1>12 DEF LookUpFails, runVars, retryVars, dbVars, githubVars
<1>13. ASSUME NEW c \in Clients, Put(c) PROVE Rest'
  BY <1>13, ApplyEffect, WriteOfJob DEF Put, WriteOf, runVars, retryVars, dbVars
<1>14. ASSUME NEW c \in Clients, PutFails(c) PROVE Rest'
  BY <1>14 DEF PutFails, WriteOf, runVars, retryVars, dbVars
<1>15. ASSUME NEW c \in Clients, RecordPublished(c) PROVE Rest'
  BY <1>15 DEF RecordPublished, runVars, retryVars, githubVars
<1>16. ASSUME NEW c \in Clients, RecordFailed(c) PROVE Rest'
  BY <1>16 DEF RecordFailed, RowAfterFailure, NoLongerClean, runVars, githubVars
<1>17. ASSUME NEW c \in Clients, Die(c) PROVE Rest'
  BY <1>17 DEF Die, WriteOf, runVars, dbVars
<1>18. ASSUME ApplyLate PROVE Rest'
  BY <1>18, ApplyEffect DEF ApplyLate, runVars, retryVars, dbVars
<1>19. ASSUME Midnight PROVE Rest'
  BY <1>19 DEF Midnight, runVars, retryVars, dbVars, githubVars
<1>20. CASE UNCHANGED vars
  BY <1>20 DEF vars, runVars, retryVars, dbVars, githubVars
<1>21. QED
  BY <1>1, <1>2, <1>3, <1>4, <1>5, <1>6, <1>7, <1>8, <1>9,
     <1>10, <1>11, <1>12, <1>13, <1>14, <1>15, <1>16, <1>17, <1>18, <1>19, <1>20
     DEF Next, RunStep, RetryStep, PublishStep

LEMMA InvStep == Inv /\ [Next]_vars => Inv'
BY TypeStep, RestStep DEF Inv

LEMMA Invariance == Spec => []Inv
<1>1. QED
  BY InvInit, InvStep, PTL DEF Spec

\* Whatever runs, retry passes and crashes come together, every variable of
\* Publication keeps its type.
THEOREM TypeCorrect == Spec => []TypeOK
<1>1. Inv => TypeOK
  BY DEF Inv
<1>2. QED
  BY Invariance, <1>1, PTL

\* Nothing reaches the repository that no operator approved, even when
\* `retry-publish` runs beside a run (cli.py, db.py: publish_requested).
THEOREM ApprovedOnly == Spec => []OnlyApprovedPublished
<1>1. Inv => OnlyApprovedPublished
  BY DEF Inv
<1>2. QED
  BY Invariance, <1>1, PTL

-----------------------------------------------------------------------------
(* What exclusion of retry passes adds.                                      *)

\* A retry pass is alone at work.
OneAtWork ==
    \A t \in Retriers :
        pc[t] # "idle" =>
            lock = NoRun /\ \A u \in Retriers \ {t} : pc[u] = "idle"

\* The rows that processes hold in memory are still pending in the database,
\* and no row is held twice.
Queue ==
    /\ PendingIsNewest
    /\ \A c \in Clients :
           pc[c] \in Publishing => outboxStatus[job[c]] = "pending"
    /\ \A t \in Retriers :
           /\ todo[t] \subseteq Pending
           /\ pc[t] = "idle" => todo[t] = {}
           /\ pc[t] \in Publishing => job[t] \notin todo[t]

\* Every write, sent or about to be sent, goes forward.
WritesForward ==
    /\ \A c \in Clients : pc[c] = "put" => sha[c] <= job[c]
    /\ \A w \in inflight : w.sha <= w.brief

\* The inductive invariant under exclusion.
InvAlone ==
    /\ Inv
    /\ OneAtWork
    /\ Queue
    /\ WritesForward

LEMMA InvAloneInit == Init => InvAlone
BY InvInit, ConstantTypes DEF Init, InvAlone, OneAtWork, Queue, WritesForward,
   PendingIsNewest, Pending, Publishing, Clients, Saved

LEMMA AloneStep ==
    ASSUME RetryAlone, Inv, OneAtWork, [Next]_vars
    PROVE  OneAtWork'
<1> USE ConstantTypes
    DEF Inv, TypeOK, OneAtWork, LockOrder, Resting, Clients, Goto
<1>1. ASSUME NEW r \in Runs, StartRun(r) PROVE OneAtWork'
  BY <1>1
     DEF StartRun, retryVars, githubVars
<1>2. ASSUME NEW r \in Runs, AcceptDraft(r) PROVE OneAtWork'
  BY <1>2
     DEF AcceptDraft, retryVars, dbVars, githubVars
<1>3. ASSUME NEW r \in Runs, RefuseDraft(r) PROVE OneAtWork'
  BY <1>3
     DEF RefuseDraft, runVars, retryVars, githubVars
<1>4. ASSUME NEW r \in Runs, WriteOutbox(r) PROVE OneAtWork'
  BY <1>4
     DEF WriteOutbox, runVars, retryVars, dbVars,
     githubVars
<1>5. ASSUME NEW r \in Runs, WriteOutboxFails(r) PROVE OneAtWork'
  BY <1>5
     DEF WriteOutboxFails, runVars, retryVars, dbVars,
     githubVars
<1>6. ASSUME NEW r \in Runs, SaveBrief(r) PROVE OneAtWork'
  BY <1>6
     DEF SaveBrief, NewRowStatus, runVars, retryVars, githubVars
<1>7. ASSUME NEW r \in Runs, FinishRun(r) PROVE OneAtWork'
  BY <1>7
     DEF FinishRun, runVars, retryVars, githubVars
<1>8. ASSUME NEW t \in Retriers, StartRetry(t) PROVE OneAtWork'
  BY <1>8
     DEF StartRetry, Pending, runVars, dbVars, githubVars
<1>9. ASSUME NEW t \in Retriers, NextRow(t) PROVE OneAtWork'
  BY <1>9
     DEF NextRow, runVars, dbVars, githubVars
<1>10. ASSUME NEW t \in Retriers, EndRetry(t) PROVE OneAtWork'
  BY <1>10
     DEF EndRetry, runVars, dbVars, githubVars
<1>11. ASSUME NEW c \in Clients, LookUp(c) PROVE OneAtWork'
  BY <1>11
     DEF LookUp, runVars, retryVars, dbVars, githubVars
<1>12. ASSUME NEW c \in Clients, LookUpFails(c) PROVE OneAtWork'
  BY <1>12
     DEF LookUpFails, runVars, retryVars, dbVars, githubVars
<1>13. ASSUME NEW c \in Clients, Put(c) PROVE OneAtWork'
  BY <1>13
     DEF Put, runVars, retryVars, dbVars
<1>14. ASSUME NEW c \in Clients, PutFails(c) PROVE OneAtWork'
  BY <1>14
     DEF PutFails, WriteOf, runVars, retryVars, dbVars
<1>15. ASSUME NEW c \in Clients, RecordPublished(c) PROVE OneAtWork'
  BY <1>15
     DEF RecordPublished, runVars, retryVars, githubVars
<1>16. ASSUME NEW c \in Clients, RecordFailed(c) PROVE OneAtWork'
  BY <1>16
     DEF RecordFailed, RowAfterFailure, NoLongerClean, runVars,
     githubVars
<1>17. ASSUME NEW c \in Clients, Die(c) PROVE OneAtWork'
  BY <1>17
     DEF Die, WriteOf, runVars, dbVars
<1>18. ASSUME ApplyLate PROVE OneAtWork'
  BY <1>18
     DEF ApplyLate, runVars, retryVars, dbVars
<1>19. ASSUME Midnight PROVE OneAtWork'
  BY <1>19
     DEF Midnight, runVars, retryVars, dbVars, githubVars
<1>20. CASE UNCHANGED vars
  BY <1>20 DEF vars, runVars, retryVars, dbVars, githubVars
<1>21. QED
  BY <1>1, <1>2, <1>3, <1>4, <1>5, <1>6, <1>7, <1>8, <1>9, <1>10, <1>11,
     <1>12, <1>13, <1>14, <1>15, <1>16, <1>17, <1>18, <1>19, <1>20
     DEF Next, RunStep, RetryStep, PublishStep

LEMMA QueueStep ==
    ASSUME RetryAlone, InvAlone, [Next]_vars
    PROVE  Queue'
<1> SUFFICES ASSUME TypeOK, JobApproved, LockOrder, RowsApproved, OneAtWork,
                    Queue
             PROVE  Queue'
  BY DEF InvAlone, Inv
<1> USE ConstantTypes
    DEF TypeOK, Queue, PendingIsNewest, Pending, Saved, JobApproved, LockOrder,
        RowsApproved, OneAtWork, Resting, Publishing, Clients, Goto
<1>1. ASSUME NEW r \in Runs, StartRun(r) PROVE Queue'
  BY <1>1
     DEF StartRun, retryVars, githubVars
<1>2. ASSUME NEW r \in Runs, AcceptDraft(r) PROVE Queue'
  BY <1>2
     DEF AcceptDraft, retryVars, dbVars, githubVars
<1>3. ASSUME NEW r \in Runs, RefuseDraft(r) PROVE Queue'
  BY <1>3
     DEF RefuseDraft, runVars, retryVars, githubVars
<1>4. ASSUME NEW r \in Runs, WriteOutbox(r) PROVE Queue'
  BY <1>4
     DEF WriteOutbox, runVars, retryVars, dbVars,
     githubVars
<1>5. ASSUME NEW r \in Runs, WriteOutboxFails(r) PROVE Queue'
  BY <1>5
     DEF WriteOutboxFails, runVars, retryVars, dbVars,
     githubVars
<1>6. ASSUME NEW r \in Runs, SaveBrief(r) PROVE Queue'
  <2>1. /\ pc[r] = "save"
        /\ pc' = [pc EXCEPT ![r] = IF publish[r] THEN "lookup" ELSE "finish"]
        /\ job' = IF publish[r] THEN [job EXCEPT ![r] = r] ELSE job
        /\ UNCHANGED <<lock, day, publish, todo>>
    BY <1>6 DEF SaveBrief, runVars, retryVars, githubVars
  <2>2. lock = r /\ lock # NoRun /\ \A t \in Retriers : pc[t] = "idle"
    BY <2>1
  <2>3. \A s \in Runs : Saved(s) => s < r \/ s = r
    BY <2>1
  <2>4. \A s \in Runs \ {r} : Saved(s)' => s < r
    BY <1>6, <2>3, SaveBriefRows
  <2>5. \A s \in Runs \ {r} : s \in Pending' => s \in Pending /\ day[s] # day[r]
    BY <1>6, SaveBriefRows DEF Supersedes
  <2>6. PendingIsNewest'
    <3>1. ASSUME NEW p \in Runs, p \in Pending',
                 NEW s \in Runs, Saved(s)', day[s] = day[p]
          PROVE  s <= p
      <4>1. CASE p = r
        BY <2>4, <3>1, <4>1
      <4>2. CASE p # r /\ s # r
        BY <1>6, <2>5, <3>1, <4>2, SaveBriefRows
      <4>3. CASE p # r /\ s = r
        BY <2>5, <3>1, <4>3
      <4>4. QED
        BY <4>1, <4>2, <4>3
    <3>2. QED
      BY <2>1, <3>1
  <2>7. ASSUME NEW c \in Clients, pc'[c] \in Publishing
        PROVE  outboxStatus'[job'[c]] = "pending"
    <3>1. c = r
      BY <2>1, <2>2, <2>7
    <3>2. publish[r] /\ job'[r] = r
      BY <2>1, <2>7, <3>1
    <3>3. QED
      BY <1>6, <3>1, <3>2, SaveBriefRows DEF NewRowStatus
  <2>8. \A t \in Retriers : todo'[t] = {} /\ pc'[t] = "idle"
    BY <2>1, <2>2
  <2>9. QED
    BY <2>6, <2>7, <2>8
<1>7. ASSUME NEW r \in Runs, FinishRun(r) PROVE Queue'
  BY <1>7
     DEF FinishRun, runVars, retryVars, githubVars
<1>8. ASSUME NEW t \in Retriers, StartRetry(t) PROVE Queue'
  BY <1>8
     DEF StartRetry, Pending, runVars, dbVars, githubVars
<1>9. ASSUME NEW t \in Retriers, NextRow(t) PROVE Queue'
  BY <1>9
     DEF NextRow, runVars, dbVars, githubVars
<1>10. ASSUME NEW t \in Retriers, EndRetry(t) PROVE Queue'
  BY <1>10
     DEF EndRetry, runVars, dbVars, githubVars
<1>11. ASSUME NEW c \in Clients, LookUp(c) PROVE Queue'
  BY <1>11
     DEF LookUp, runVars, retryVars, dbVars, githubVars
<1>12. ASSUME NEW c \in Clients, LookUpFails(c) PROVE Queue'
  BY <1>12
     DEF LookUpFails, runVars, retryVars, dbVars, githubVars
<1>13. ASSUME NEW c \in Clients, Put(c) PROVE Queue'
  BY <1>13
     DEF Put, runVars, retryVars, dbVars
<1>14. ASSUME NEW c \in Clients, PutFails(c) PROVE Queue'
  BY <1>14
     DEF PutFails, WriteOf, runVars, retryVars, dbVars
<1>15. ASSUME NEW c \in Clients, RecordPublished(c) PROVE Queue'
  BY <1>15
     DEF RecordPublished, runVars, retryVars, githubVars
<1>16. ASSUME NEW c \in Clients, RecordFailed(c) PROVE Queue'
  BY <1>16
     DEF RecordFailed, RowAfterFailure, NoLongerClean, runVars,
     githubVars
<1>17. ASSUME NEW c \in Clients, Die(c) PROVE Queue'
  BY <1>17
     DEF Die, WriteOf, runVars, dbVars
<1>18. ASSUME ApplyLate PROVE Queue'
  BY <1>18
     DEF ApplyLate, runVars, retryVars, dbVars
<1>19. ASSUME Midnight PROVE Queue'
  BY <1>19
     DEF Midnight, runVars, retryVars, dbVars, githubVars
<1>20. CASE UNCHANGED vars
  BY <1>20 DEF vars, runVars, retryVars, dbVars, githubVars
<1>21. QED
  BY <1>1, <1>2, <1>3, <1>4, <1>5, <1>6, <1>7, <1>8, <1>9, <1>10, <1>11,
     <1>12, <1>13, <1>14, <1>15, <1>16, <1>17, <1>18, <1>19, <1>20
     DEF Next, RunStep, RetryStep, PublishStep

LEMMA ForwardStep ==
    ASSUME RetryAlone, InvAlone, [Next]_vars
    PROVE  WritesForward'
<1> SUFFICES ASSUME TypeOK, JobApproved, OnlyApprovedPublished, Queue,
                    WritesForward
             PROVE  WritesForward'
  BY DEF InvAlone, Inv
<1> USE ConstantTypes
    DEF TypeOK, WritesForward, JobApproved, Publishing, Clients, Goto
<1>1. ASSUME NEW r \in Runs, StartRun(r) PROVE WritesForward'
  BY <1>1
     DEF StartRun, retryVars, githubVars
<1>2. ASSUME NEW r \in Runs, AcceptDraft(r) PROVE WritesForward'
  BY <1>2
     DEF AcceptDraft, retryVars, dbVars, githubVars
<1>3. ASSUME NEW r \in Runs, RefuseDraft(r) PROVE WritesForward'
  BY <1>3
     DEF RefuseDraft, runVars, retryVars, githubVars
<1>4. ASSUME NEW r \in Runs, WriteOutbox(r) PROVE WritesForward'
  BY <1>4
     DEF WriteOutbox, runVars, retryVars, dbVars,
     githubVars
<1>5. ASSUME NEW r \in Runs, WriteOutboxFails(r) PROVE WritesForward'
  BY <1>5
     DEF WriteOutboxFails, runVars, retryVars, dbVars,
     githubVars
<1>6. ASSUME NEW r \in Runs, SaveBrief(r) PROVE WritesForward'
  BY <1>6
     DEF SaveBrief, NewRowStatus, runVars, retryVars, githubVars
<1>7. ASSUME NEW r \in Runs, FinishRun(r) PROVE WritesForward'
  BY <1>7
     DEF FinishRun, runVars, retryVars, githubVars
<1>8. ASSUME NEW t \in Retriers, StartRetry(t) PROVE WritesForward'
  BY <1>8
     DEF StartRetry, Pending, runVars, dbVars, githubVars
<1>9. ASSUME NEW t \in Retriers, NextRow(t) PROVE WritesForward'
  BY <1>9
     DEF NextRow, runVars, dbVars, githubVars
<1>10. ASSUME NEW t \in Retriers, EndRetry(t) PROVE WritesForward'
  BY <1>10
     DEF EndRetry, runVars, dbVars, githubVars
<1>11. ASSUME NEW c \in Clients, LookUp(c) PROVE WritesForward'
  <2>1. /\ job[c] \in Runs
        /\ outboxStatus[job[c]] = "pending"
        /\ remote[day[job[c]]] \in Runs \cup {NoRun}
    BY <1>11 DEF LookUp, Queue
  <2>2. remote[day[job[c]]] <= job[c]
    <3>1. CASE remote[day[job[c]]] = NoRun
      <4>1. NoRun <= job[c]
        BY <2>1, RunNumbers
      <4>2. QED
        BY <3>1, <4>1
    <3>2. CASE remote[day[job[c]]] # NoRun
      <4>1. /\ remote[day[job[c]]] \in Runs
            /\ Saved(remote[day[job[c]]])
            /\ day[remote[day[job[c]]]] = day[job[c]]
        BY <2>1, <3>2 DEF OnlyApprovedPublished
      <4>2. job[c] \in Pending
        BY <2>1 DEF Pending
      <4>3. QED
        BY <2>1, <4>1, <4>2 DEF Queue, PendingIsNewest
    <3>3. QED
      BY <3>1, <3>2
  <2>3. QED
    BY <1>11, <2>2 DEF LookUp, runVars, retryVars, dbVars, githubVars
<1>12. ASSUME NEW c \in Clients, LookUpFails(c) PROVE WritesForward'
  BY <1>12
     DEF LookUpFails, runVars, retryVars, dbVars, githubVars
<1>13. ASSUME NEW c \in Clients, Put(c) PROVE WritesForward'
  BY <1>13
     DEF Put, runVars, retryVars, dbVars
<1>14. ASSUME NEW c \in Clients, PutFails(c) PROVE WritesForward'
  BY <1>14
     DEF PutFails, WriteOf, runVars, retryVars, dbVars
<1>15. ASSUME NEW c \in Clients, RecordPublished(c) PROVE WritesForward'
  BY <1>15
     DEF RecordPublished, runVars, retryVars, githubVars
<1>16. ASSUME NEW c \in Clients, RecordFailed(c) PROVE WritesForward'
  BY <1>16
     DEF RecordFailed, RowAfterFailure, NoLongerClean, runVars,
     githubVars
<1>17. ASSUME NEW c \in Clients, Die(c) PROVE WritesForward'
  BY <1>17
     DEF Die, WriteOf, runVars, dbVars
<1>18. ASSUME ApplyLate PROVE WritesForward'
  BY <1>18
     DEF ApplyLate, runVars, retryVars, dbVars
<1>19. ASSUME Midnight PROVE WritesForward'
  BY <1>19
     DEF Midnight, runVars, retryVars, dbVars, githubVars
<1>20. CASE UNCHANGED vars
  BY <1>20 DEF vars, runVars, retryVars, dbVars, githubVars
<1>21. QED
  BY <1>1, <1>2, <1>3, <1>4, <1>5, <1>6, <1>7, <1>8, <1>9, <1>10, <1>11,
     <1>12, <1>13, <1>14, <1>15, <1>16, <1>17, <1>18, <1>19, <1>20
     DEF Next, RunStep, RetryStep, PublishStep

LEMMA AloneInvariance == ASSUME RetryAlone PROVE Spec => []InvAlone
<1>1. InvAlone /\ [Next]_vars => InvAlone'
  BY InvStep, AloneStep, QueueStep, ForwardStep DEF InvAlone
<1>2. QED
  BY InvAloneInit, <1>1, PTL DEF Spec

\* With retry passes kept apart, the repository changes by one write, and the
\* write goes forward.
LEMMA RemoteStep ==
    ASSUME InvAlone, [Next]_vars, remote' # remote
    PROVE  \E w \in Write :
               /\ Apply(w)
               /\ w.sha <= w.brief
               /\ Saved(w.brief) /\ publish[w.brief]
<1> USE DEF InvAlone, Inv
<1>1. \/ \E c \in Clients : Put(c)
      \/ ApplyLate
  BY DEF Next, StartRun, RunStep, AcceptDraft, RefuseDraft, WriteOutbox,
     WriteOutboxFails, SaveBrief, FinishRun, RetryStep, StartRetry, NextRow,
     EndRetry, PublishStep, LookUp, LookUpFails, PutFails, RecordPublished,
     RecordFailed, Die, Midnight, vars, githubVars
<1>2. ASSUME NEW c \in Clients, Put(c)
      PROVE  /\ WriteOf(c) \in Write
             /\ Apply(WriteOf(c))
             /\ WriteOf(c).sha <= WriteOf(c).brief
             /\ Saved(WriteOf(c).brief) /\ publish[WriteOf(c).brief]
  BY <1>2, WriteOfJob
     DEF Put, WriteOf, JobApproved, WritesForward, Publishing
<1>3. ASSUME NEW w \in inflight, Apply(w)
      PROVE  /\ w \in Write
             /\ w.sha <= w.brief
             /\ Saved(w.brief) /\ publish[w.brief]
  BY <1>3 DEF TypeOK, WritesApproved, WritesForward
<1>4. QED
  BY <1>1, <1>2, <1>3 DEF ApplyLate

LEMMA ForwardRemote ==
    ASSUME InvAlone, [Next]_vars, remote' # remote
    PROVE  \E d \in Days, r \in Runs :
               /\ r \in ApprovedFor(d)
               /\ remote[d] < r
               /\ remote' = [remote EXCEPT ![d] = r]
<1> USE DEF InvAlone, Inv
<1>1. PICK w \in Write :
          /\ Apply(w)
          /\ w.sha <= w.brief
          /\ Saved(w.brief) /\ publish[w.brief]
  BY RemoteStep
<1>2. w.brief \in Runs /\ w.sha \in Runs \cup {NoRun}
  BY DEF Write
<1>3. w.brief \in Nat /\ w.sha \in Nat
  BY <1>2, RunNumbers
<1>4. day[w.brief] \in Days /\ w.brief \in ApprovedFor(day[w.brief])
  BY <1>1, <1>2 DEF TypeOK, ApprovedFor
<1>5. /\ remote[day[w.brief]] = w.sha
      /\ remote' = [remote EXCEPT ![day[w.brief]] = w.brief]
  BY <1>1 DEF Apply
<1>6. w.sha # w.brief
  BY <1>4, <1>5 DEF TypeOK
<1>7. w.sha < w.brief
  BY <1>1, <1>3, <1>6
<1>8. QED
  BY <1>2, <1>4, <1>5, <1>7

\* A publication never overwrites a newer brief of its date with an older one,
\* provided retry passes are run alone: docs/x402-watch-uat.md:238 promises it
\* of the code, where a retry pass beside a run breaks it.
THEOREM NeverStale == ASSUME RetryAlone PROVE Spec => NoStaleOverwrite
<1>1. InvAlone /\ [Next]_vars => [Forward]_remote
  <2> SUFFICES ASSUME InvAlone, [Next]_vars, NEW d \in Days
               PROVE  remote[d] <= remote'[d]
    BY DEF Forward
  <2>1. remote \in [Days -> Runs \cup {NoRun}] /\ remote[d] \in Nat
    BY RunNumbers DEF InvAlone, Inv, TypeOK
  <2>2. CASE remote' = remote
    BY <2>1, <2>2
  <2>3. CASE remote' # remote
    <3>1. PICK e \in Days, r \in Runs :
              remote[e] < r /\ remote' = [remote EXCEPT ![e] = r]
      BY <2>3, ForwardRemote
    <3>2. CASE d = e
      <4>1. r \in Nat /\ remote'[d] = r
        BY <2>1, <3>1, <3>2, RunNumbers
      <4>2. QED
        BY <2>1, <3>1, <3>2, <4>1
    <3>3. CASE d # e
      BY <2>1, <3>1, <3>3
    <3>4. QED
      BY <3>2, <3>3
  <2>4. QED
    BY <2>2, <2>3
<1>2. QED
  BY AloneInvariance, <1>1, PTL DEF Spec, NoStaleOverwrite

\* The row that waits for publication is the newest brief of its date.
THEOREM QueueIsNewest == ASSUME RetryAlone PROVE Spec => []PendingIsNewest
<1>1. InvAlone => PendingIsNewest
  BY DEF InvAlone, Queue
<1>2. QED
  BY AloneInvariance, <1>1, PTL

-----------------------------------------------------------------------------
(* Publication implements the register of approved briefs.                   *)

LEMMA RegisterInit == Init => Register!Init
<1>1. Init => \A d \in Days : ApprovedFor(d) = {}
  BY DEF Init, ApprovedFor, Saved
<1>2. QED
  BY <1>1 DEF Init, Register!Init, NoRun

\* Only save_brief adds to the approved briefs, and only a write to GitHub
\* changes what is published.
LEMMA RegisterStep ==
    ASSUME InvAlone, [Next]_vars
    PROVE  [Register!Next]_(Register!vars)
<1> DEFINE approved == [d \in Days |-> ApprovedFor(d)]
<1> USE DEF InvAlone, Inv
<1>1. ASSUME NEW r \in Runs, SaveBrief(r)
      PROVE  [Register!Next]_(Register!vars)
  <2>1. /\ pc[r] = "save"
        /\ UNCHANGED <<day, publish, remote>>
    BY <1>1 DEF SaveBrief, runVars, githubVars
  <2>2. \A s \in Runs \ {r} : Saved(s)' <=> Saved(s)
    BY <1>1, SaveBriefRows DEF Saved
  <2>3. Saved(r)' /\ ~Saved(r)
    BY <1>1, <2>1, SaveBriefRows DEF Saved, NewRowStatus, RowsApproved
  <2>4. \A d \in Days :
            ApprovedFor(d)' = IF publish[r] /\ d = day[r]
                              THEN ApprovedFor(d) \cup {r}
                              ELSE ApprovedFor(d)
    BY <2>1, <2>2, <2>3 DEF ApprovedFor
  <2>5. CASE publish[r]
    <3>1. \A s \in ApprovedFor(day[r]) : s < r
      BY <1>1, <2>1, <2>3, ConstantTypes
         DEF ApprovedFor, LockOrder, RowsApproved, TypeOK, Resting
    <3>2. approved' = [approved EXCEPT ![day[r]] = @ \cup {r}]
      BY <2>4, <2>5 DEF TypeOK
    <3>3. Register!Approve(day[r], r)
      BY <2>1, <3>1, <3>2 DEF Register!Approve, TypeOK
    <3>4. QED
      BY <3>3 DEF Register!Next, TypeOK
  <2>6. CASE ~publish[r]
    BY <2>1, <2>4, <2>6 DEF Register!vars
  <2>7. QED
    BY <2>5, <2>6
<1>2. ASSUME NEW r \in Runs, StartRun(r)
      PROVE  approved' = approved /\ remote' = remote
  <2>1. ~Saved(r)
    BY <1>2 DEF StartRun, RowsApproved
  <2>2. /\ UNCHANGED <<outboxStatus, remote>>
        /\ \A s \in Runs \ {r} : day'[s] = day[s] /\ publish'[s] = publish[s]
    BY <1>2 DEF StartRun, githubVars, TypeOK
  <2>3. \A d \in Days : ApprovedFor(d)' = ApprovedFor(d)
    BY <2>1, <2>2 DEF ApprovedFor, Saved
  <2>4. QED
    BY <2>2, <2>3
<1>3. ASSUME NEW c \in Clients, RecordPublished(c) \/ RecordFailed(c)
      PROVE  approved' = approved /\ remote' = remote
  <2>1. /\ job[c] \in Runs /\ Saved(job[c])
        /\ UNCHANGED <<day, publish, remote>>
    BY <1>3 DEF RecordPublished, RecordFailed, JobApproved, Publishing,
                runVars, githubVars
  <2>2. \A s \in Runs : Saved(s)' <=> Saved(s)
    BY <1>3, <2>1 DEF RecordPublished, RecordFailed, RowAfterFailure, Saved,
                      TypeOK
  <2>3. \A d \in Days : ApprovedFor(d)' = ApprovedFor(d)
    BY <2>1, <2>2 DEF ApprovedFor
  <2>4. QED
    BY <2>1, <2>3
<1>4. ASSUME UNCHANGED <<day, publish, outboxStatus>>
      PROVE  approved' = approved
  BY <1>4 DEF ApprovedFor, Saved
<1>5. ASSUME approved' = approved PROVE [Register!Next]_(Register!vars)
  <2>1. CASE remote' = remote
    BY <1>5, <2>1 DEF Register!vars
  <2>2. CASE remote' # remote
    <3>1. PICK d \in Days, r \in Runs :
              /\ r \in ApprovedFor(d)
              /\ remote[d] < r
              /\ remote' = [remote EXCEPT ![d] = r]
      BY <2>2, ForwardRemote
    <3>2. Register!Publish(d, r)
      BY <1>5, <3>1 DEF Register!Publish
    <3>3. QED
      BY <3>2 DEF Register!Next
  <2>3. QED
    BY <2>1, <2>2
<1>6. \/ \E r \in Runs : SaveBrief(r) \/ StartRun(r)
      \/ \E c \in Clients : RecordPublished(c) \/ RecordFailed(c)
      \/ UNCHANGED <<day, publish, outboxStatus>>
  BY DEF Next, RunStep, AcceptDraft, RefuseDraft, WriteOutbox,
     WriteOutboxFails, FinishRun, RetryStep, StartRetry, NextRow,
     EndRetry, PublishStep, LookUp, LookUpFails, Put, PutFails, Die,
     ApplyLate, Midnight, vars, runVars, dbVars
<1>7. QED
  BY <1>1, <1>2, <1>3, <1>4, <1>5, <1>6

\* With retry passes kept apart, runs, retries, crashes, timeouts and late
\* writes together implement the register of approved briefs: each step is a
\* step of the register or leaves it unchanged.
THEOREM ImplementsRegister == ASSUME RetryAlone PROVE Spec => RegisterSpec
<1>1. InvAlone /\ [Next]_vars => [Register!Next]_(Register!vars)
  BY RegisterStep
<1>2. QED
  BY RegisterInit, AloneInvariance, <1>1, PTL
     DEF Spec, RegisterSpec, Register!Spec

=============================================================================
