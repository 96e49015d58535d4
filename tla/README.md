# Verification of mercury-node

TLA+ models of Mercury, a Bitcoin and Lightning node assistant: TLC checks
them on small instances, TLAPS proves the most important properties for every
value of the constants. `PROJECT.json` lists the components, runs, mutants,
hazards and theorems and maps every definition to the lines it stands for.
Source paths below are relative to `src/`.

## 1. The system and its parts

Mercury has three programs and an installer. They share the machine, the LND
node and nothing else: no two of them write the same file.

| Part | State it keeps | Operations | Talks to | Modelled |
|---|---|---|---|---|
| **x402 Watch** (`src/x402_watch`) | | | | |
| daily run, `pipeline.py` | `daily.lock`, local variables | `run`: lock, search, fetch, tag, draft, local file, row, publication, outcome | all parts below | `Collection`, `Publication` |
| database, `db.py` | tables `runs`, `queries`, `sources`, `briefs`, `publish_outbox` | one transaction per call | pipeline, CLI | both |
| publisher, `publisher.py` | none (reads the blob SHA, then writes with it) | `publish` | GitHub | `Publication` |
| `retry-publish`, `cli.py` | the rows it has read | one pass over the pending rows, no lock | database, publisher | `Publication` |
| Brave client `brave.py`, URL rules `urls.py` | none | `search`, `canonicalize_url` | Brave | in `Collection`, as outcomes |
| page fetcher `sources.py` | a browser per fetch | `fetch`, `extract_source` | the web | in `Collection`, as outcomes |
| Hailo worker `hailo.py`, `hailo_worker.py` | a child process, two pipes | `start`, `classify`, `stop` | pipeline, `check-models` | `ModelProcesses`; in `Collection` as outcomes |
| writer `llm.py` | a `llama-server` process on one port | `start`, `write`, `stop` | pipeline, `check-models` | `ModelProcesses`, `Drafting`; in `Publication` as outcomes |
| editorial rules `policy.py`, `render.py`, `models.py` | none | routing, validation, rendering | pipeline | `Drafting`; in `Publication` as accepted or refused |
| configuration, timer, unit | files | | systemd | a run may start at any time and die anywhere |
| **CLI** (`src/cli`) | | | | |
| `rebalance` | audit log | prepare, confirm, plan, up to *n* attempts | LND | `Rebalance` |
| `send`, `pay`, `channel`, `fees` | audit log | prepare, confirm, execute | LND | `WriteCommands` |
| `registry.py`, `lnd.py` | none | permission check; `lncli` with a timeout | LND | `WriteCommands`, `Rebalance` |
| `magma buy` | audit log | confirm, offers, POST to the agent | agent, Amboss | `Magma` |
| reports, AI, posts, shell | none | read and print | LND, a model | no |
| **Agent** (`src/agent/main.py`) | | | | |
| Magma routes | order file | buy, list orders | CLI, LND, Amboss | `Magma` |
| plan registry | plans in memory | prepare; execute always ends in an error | CLI | no |
| telemetry, backup | none | read and return | LND | no |
| **Installer** (`install.sh`) | the machine | idempotent phases | | no |

How they interact, where it is hard:

* A *run* holds an flock; `retry-publish` takes none. Both publish, from the
  same rows, to the same file, and GitHub decides by the blob SHA which write
  it takes. A write may be applied although its client was told nothing, or is
  dead.
* A run may die anywhere (`TimeoutStartSec`, power), between any two of: local
  file, row, publication, status. The next run and the next retry find what it
  has left.
* In a run a pool of up to four threads fetches pages while the main thread
  takes the results in any order, asks the Hailo worker about each, and
  compares with what earlier runs, also crashed ones, left in the database.
* The two models are processes of their own. They may be slow, fail, hang or be
  killed at any point; their answers come late; `check-models` starts the same
  two, takes no lock, and shares the port of `llama-server` with a run. The Python
  process may be interrupted, or die without them: only the systemd unit, not a
  command begun by hand, has somebody who then ends them.
* The title of a source is the hit's, its id the page's. What is offered to the
  model is decided per source, what a claim may cite per id.
* The CLI kills `lncli` after a timeout; LND does not notice. What the CLI
  then believes and what LND does are two things. The same holds of the CLI
  and the agent, and of the agent and Amboss, when a channel is bought.

What makes each part correct:

* *publication*: only approved briefs reach the repository; a date never goes
  back to an older brief; what the database calls published was published; an
  approved brief is never lost; exit and outcome say the truth; one baseline.
* *collection*: "complete" coverage means that nothing failed; tags lose
  nothing; whatever the order of threads, the packet has of each text a source of
  the highest priority (which one of several of equal priority does depend on that
  order); history is that of complete runs only; every source has its row.
* *rebalance*: nothing is paid that was not approved and logged; given-up
  attempts stay bounded; one success ends the command; the report is true; the
  command ends.
* *Magma*: an order is one the operator approved, of the offer chosen, and the
  only one of that approval; what he was told of stays in the order file; a
  listing is true.
* *model processes*: a tag is of its hit; never both models in memory; a command
  that ends by itself leaves no process behind; a draft is not that of a server
  another command has left; a run of the unit ends, and its processes with it.
* *editorial rules*: a brief cites only what the model was shown; every
  sensitive source is held; the stated result is true; a draft that obeys its
  prompt is not rejected for what the routing does to it.
* *write commands*: what LND does is what was approved and logged, once; the
  report is true, and a timeout is not a refusal.

## 2. The modules

### Publication (core)

`Publication.tla` composes the run from the lock to its outcome
(`pipeline.py:143-181, 318-423`), the rows (`db.py`), a retry pass
(`cli.py:218-262`) and the publisher (`publisher.py:50-127`).

* A run is a number, its place in the order in which the lock is taken. The
  same number stands for its brief and for the blob SHA GitHub computes from
  the brief, for the brief's text contains the run id.
* `pc[c]` says where a process is. `StartRun` is the lock, `start_run` and
  `has_prior_complete_run`; `AcceptDraft`/`RefuseDraft` stand for everything up
  to the editorial gates; `WriteOutbox`, `SaveBrief`, `FinishRun` are the
  calls of those names. A retry pass is `StartRetry` (the rows are read once),
  `NextRow`, `EndRetry`.
* `publish()` is two steps with a gap, `LookUp` (token, visibility, SHA) and
  `Put`. A write is applied when the SHA it names is that of the file
  (`Apply`, external). `PutFails` is an answer that is lost or an error: the
  write may stay in `inflight` and be applied later by `ApplyLate`.
  `RecordPublished` and `RecordFailed` are `update_publish_status`.
* `Die` cuts any process off; a PUT it has sent may still arrive.
* `RetryAlone` is a constant: TRUE restricts the *operator* to start
  `retry-publish` only while no other x402 Watch command is at work. The code
  does not enforce it. Every property below says whether it needs it.

`BriefRegister.tla` is what readers are promised, without runs, processes or
requests: per date one file, only approved briefs, only newer ones replace it.
`Register == INSTANCE BriefRegister WITH ...` is the refinement.

### Collection

`Collection.tla` is a run from its first query to the packet of evidence
(`pipeline.py:157-301, 425-427, 463-487`): `SearchSucceeds`/`SearchFails` one
query after another, `SubmitFetches` the deduplication and the pool,
`BeginFetch` and `FetchSucceeds`/`FetchFails` the threads, `TakeTagged`,
`TakeAsTaggerFails`, `TakeUntagged` the main thread under `as_completed`, and
`Evidence` the sorted and deduplicated packet. `KeepFirst` is the loop that both
deduplications have, one by URL over the safe candidates and one by text over the
sorted sources; `InOrder` is what `sources.sort` makes. A fetch may end at another URL
(redirects) and with any text. `Finish` and `Die` end the process; the tables
stay, and the next run reads them (`PriorSourceHash`, `SaveSource`).
`PriorSourceHash` is the query of `db.py:184-194`: of the complete runs that have
the URL, the latest.

### Rebalance

`Rebalance.tla` is `mercury rebalance` (`cli/mercury:2483-2700`) with
`validate_amount`, `confirm_write`, `audit_write` and `LndClient.run`:
`Start` (prepare), `Confirm`/`Decline`, `ListAndPlan`/`ListAndStop`, then
`AddInvoice`, `SendPayment` and one of `Succeed`, `Refused` (lncli ends with an
error), `GiveUp` (lncli killed, or unreadable output), `SendFails`. `TryLess`
goes on with half the amount; `Interrupt` ends the command anywhere.
LND is external: `Settle` within fee limit and balances at any later time,
`FailPayment`, `Route` (other people's payments move balances between plan and
payment). `offered` and `gaveUp` are history.

### Magma

`Magma.tla` composes the command `mercury magma buy` (`cli/mercury:1556-1571,
1778-1887`), the agent's routes `buy` and `orders` (`agent/main.py:828-1046`)
and Amboss (external). A session is one execution of the command: `Confirm` or
`Decline`, `Choose`, `Post`, then `Answered`, `TimesOut` or `Interrupt`. Its
request is a coroutine of the agent: `AskAmboss`, then `CallFails` or the save.
`_save_magma_order` is `BeginSave` (read, change, truncate) and `EndSave`
(write and answer): it does not await, so nothing else of the event loop runs
in between (`LoopFree`), but the process may die there (`Crash`) or the disk
be full. `Create`, `Refuse`, `Progress` are Amboss; an order may be created
after the agent has given up. The listing is `BeginListing`, one `Refresh` per
order with other handlers in between, `EndListing`.

An order id is the order's place in `orders`, the list of all orders of this
node at Amboss; `due` and `lost` are history.

### ModelProcesses

`ModelProcesses.tla` composes commands that use the two models in turn (a run:
worker, then server; `check-models`: the other way round, `cli.py:148-215`),
the worker (`hailo_worker.py`) and `llama-server` (external). `todo[c]` is what
a command has still to use, `Order` and `Optional` which command it is: a run
goes on without the worker, `check-models` does not. `unit` are the runs the
systemd unit has started; every other command was begun by hand.

* *worker*: `StartWorker`, then `ReadAnswer` (the ready line) or `NoAnswer` (45
  seconds, or the end of the pipe); `Ask` and again `ReadAnswer` or `NoAnswer`;
  `AskFails` is a broken pipe. The 45 seconds are those of `select()`, up to the
  first byte: of a worker that `HangsInLine` the client has half a line
  (`HalfLine`), and `readline()` waits for the rest without a timeout
  (`hailo.py:204-216`). The worker writes a line in one piece, but nothing on the
  client's side relies on it. `requests` and `replies` are the pipes. The
  worker `Opens`, `TakesRequest`, `Replies` (a tag, or an error it goes on
  after) or `Fails` (an error line is its last), and `WorkerDies` anywhere.
* *server*: `CheckPort`, `StartServer`, `Poll` and `Healthy`/`NotHealthy` until
  `SeesExit` or `StartTimesOut`; `Drafts` or `DraftFails`. Between the check and
  `Binds` another command may take the port; any server that serves may answer.
* *stop*: `Terminate`, then `Gone`, or `Kill` and `Gone`, or `KillTimesOut`: the
  exception leaves `stop()` and the command. A process that has been sent SIGTERM
  may do as it likes, but `llama-server` that is still loading does not begin to
  serve.
* *ended from outside*: `Interrupt` is Ctrl-C of a command by hand: out of the
  body of a `with`, `__exit__` stops the process (`InBody`); within `start()` or
  `stop()` nothing does. `Die` is a signal to the whole group that Python has no
  handler for (the unit's SIGTERM, a closed terminal), `KillAlone` SIGKILL or the
  OOM killer for the Python process alone. The command is then `killed` and stops
  nothing more. `KillGroup` is systemd, which ends what is left of the unit's
  processes; nothing does so for a command by hand.
* `met` is history: who was at work at the same time, or has outlived its Python
  process without yet listening when the port was looked at (`Unseen`).

### Drafting

`Drafting.tla` is one run from the fetched sources to the brief: `Fetch` (any
pages, under any titles, `sources.py:381-389`), `Curate` (sort and
deduplication, `pipeline.py:300-307`; the text decides, so that sources of one
id are one, and others may be), `Write` (any draft `model_validate_json` lets
through, whatever JSON schema the server was given) or `WriterFails`, then
`route_sensitive_sources` as `Routable` and `Routed`, `validate_draft` as
`Valid`, and `Accept` or `Reject`. A draft is sets of cited ids; the rules on
wording are one flag. `Citations` has an id no page has.

### WriteCommands

`WriteCommands.tla` is `send`, `pay`, `channel open`, `channel close` and `fees
set` as sessions on one node. A session is `Prepare...` (checks, a plan),
`Approve` (yes, and the line is in the audit log) or `Decline`, for an open
`Connect`, `Call`, then `Answered`, `Unreadable` or `TimesOut`; `Interrupt` ends
it anywhere. LND (external) performs or refuses a call at any later time, also
after it was given up: `Spends`, `Pays`, `Closes`, `Updates`, `Refuses`. `log`, what
was done for each session in order, is history.

### ApprovedOnce

`ApprovedOnce.tla` is what the operator is promised of a command that moves funds
or orders something (`README.md:140-146`, `docs/architecture.md:108-114`), with no
prompt, `lncli`, agent or timeout in sight: something is granted in a session
(`Grant`), then at any later time carried out, once and as granted (`CarryOut`),
and only after that said to be done (`Say`). `WriteCommands` and `Magma` both
implement it (`Promise == INSTANCE ApprovedOnce WITH ...`, `PromiseSpec`):

| | `WriteCommands` | `Magma` |
|---|---|---|
| granted | `audit`: the line with the plan | the offer chosen in a session that is `audited` |
| carried out | `log`: what LND did for the session | the session's orders at Amboss (`OrdersOf`) |
| told | sessions that said "done" | sessions that said "placed" |

The grant is the step `Approve` of the one and `Choose` of the other, for the
approval of a purchase comes before its offer is known. `Rebalance` is not an
instance: one approval covers several attempts, and what bounds them is its own
property (`OfferedBounded`).

## 3. What TLC checks

| Run | Instance | Distinct states | Properties |
|---|---|---|---|
| `concurrent` | 2 runs, 2 dates, 1 retrier at any time | 3.6 M | `TypeOK`, `OnlyApprovedPublished`, `PublishedWasConfirmed`, `OneBaseline`, `LocalFileCurrent` |
| `drain` | 2 runs, 2 dates, 1 retrier, `RetryAlone`, fairness | 0.1 M | `CleanPassDrains`, `FinishedMeansPublished`, `PendingIsNewest`, `NoStaleOverwrite`, `RegisterSpec` (refinement), `ApprovedSettles` (liveness) |
| `stale` | as `concurrent`, 1 date | violation | `NoStaleOverwrite` |
| `collection` | 2 runs and a third with one hit, 3 queries of 2 lanes, 2 URLs and an unsafe one, 2 texts, 2 workers | 2.7 M | `TypeOK`, `CoverageHonest`, `TagsDiscardNothing`, `EvidenceIsBest`, `HistoryIsOfCompleteRuns` |
| `lastrun` | 3 runs, 1 query, 2 URLs, 2 texts | violation | `ComparedWithLastRun` |
| `retained` | 1 run, 2 queries | violation | `AllRecordsRetained` |
| `rebalance` | 3 channels, 5 amounts and auto, 1 balance change, fairness | 0.1 M | `TypeOK`, `PaymentsApproved`, `OfferedBounded`, `PaysOnce`, `ReportHonest`, `Terminates` (liveness) |
| `magma` | 2 sessions, 2 offers, 3 statuses, 2 crashes | 0.3 M | `TypeOK`, `OrdersApproved`, `PlacedIsKept`, `ListingTrue`, `PromiseSpec` (refinement) |
| `processes` | a run with 2 hits, of the unit or by hand, and a `check-models`, 1 probe of `/health`, fairness | 0.3 M | `TypeOK`, `OwnTag`, `OneModelAtATime`, `NothingLeft`, `ServedByOwn`, `CommandsEnd` (liveness) |
| `drafting` | 3 sources of 3 pages, items citing 1 or 2 ids, 1 claim, limits of 2 | 8.3 M | `TypeOK`, `ClaimsSupported`, `HeldForReview`, `ResultHonest`, `ObedientAccepted` |
| `offered` | 2 sources of 2 pages | violation | `RoutedNotOffered` |
| `writes` | 2 sessions, every command, 5 amounts, 2 channels | 14 k | `TypeOK`, `PromiseSpec` (refinement) |

Each property has a mutant in `PROJECT.json`: a definition of the model with a
plausible slip in it (the definitions commented "Slip"), under which TLC finds
the property violated. The slips are used by nothing else.

**Why the bounds are enough.**

* Publication: two runs, of one date or of two, are a pending brief and the one
  that supersedes it, a brief left from the day before, and the order of rows in
  a pass. One retrier is enough next to a run for `RetryAlone = FALSE`. What
  `drain` checks of the register is proved for any number of runs, dates and
  retriers.
* Collection: one lane asks twice, so that a failed query is followed by a
  good one; two hits of two lanes can share a URL or end at one page; two
  texts make same and changed; the second run sees what a complete or a
  crashed run left. The third run is there for the history: with two there is one
  earlier run only, and the last complete run cannot differ from the last one that
  has the page. It has one hit at most (`ShortThirdRun`), which finds every pair of
  tables the first two can leave. `MaxHits = 1` per query: the order of hits within one
  response plays no part beyond that of queries.
* Rebalance: 5,000 and 100,000 sat and "auto" give one, two and three or more
  attempts; 4,999 and 100,000,001 are refused; 400,000 is four attempts; 45,000
  of capacity is a channel too small for a second attempt. Balances are
  full, low, and exactly 60% of the small channel.
* Magma: two sessions that may choose the same offer are two saves in turn, a
  save during a listing, and an order of another session with the same offer;
  three statuses let an order get on twice while a listing runs. Sessions and
  offers are symmetric.

* ModelProcesses: two commands of either order are all that can share the port
  in twos; two hits are an answer and the request after it; one probe is a start
  that succeeds and one that times out. The run may be the unit's or begun by
  hand; `check-models` always is. The invariants are proved for any number of
  each.
* Drafting: three sources are two of one id and one of the same text under
  another, or one that makes the ids too many. Limits of 2 instead of 20 are
  reached and crossed by one. One claim is enough: claims are judged one by one.
  The pages are symmetric.
* WriteCommands: 98,590 sat and its estimated fee are all the funds, so that the
  real fee decides; two of 60,000 are too much together; 0 and 100,000,001 are
  out of range; one name matches both channels. The sessions are symmetric.

**Deadlock** is checked for Publication (the `idle` retrier can always start
again); everything else ends, so it is not
checked there.

**Fairness.** `drain`: what the code does not provide is stated as the
operator's part: passes of `retry-publish` are started again and again, they
are not all cut short at the same step, GitHub is not out of reach for ever
(strong fairness of the steps of a pass). A run is a process the operating
system schedules (weak fairness), and it may die. `rebalance`: weak fairness of
the command's own steps only; each `lncli` ends or is killed after its
timeout (`subprocess.run(timeout=...)`). `lncli` runs under `sudo -u`
(`cli/mercury:234-237`): that the kill works rests on the privileges of the
operator, and that the wait ends on `sudo` or the pipes ending with it. LND and
the operator owe nothing.
`processes`: weak fairness of a command's own steps. Not every wait of the code
has a timeout: `NoAnswer` (45 seconds) is possible only while there is nothing to
read, and half a line blocks `readline()` for as long as the worker likes, so that
no step of the command is enabled then. The timeouts of `httpx` are per read: it is
assumed that a server does not hand over its answer byte by byte for ever. The
rest is systemd's: a run of the unit is told to end some time
(`TimeoutStartSec=45min`, `Die`), and what is left of its processes is then told
and killed (`KillGroup`). Neither is assumed of `check-models` or a run begun by
hand, at a terminal or elsewhere. A process that has been sent SIGKILL ends at
last. Neither model owes an answer or an exit to SIGTERM. So `CommandsEnd` says
that a run of the unit ends and leaves nothing, and a command by hand as well,
but for two cases the code does not exclude: its worker stops within a line, or
its Python process is ended before it has stopped its models. Without either
excuse TLC finds the property violated.

## 4. What TLAPS proves

`PublicationProofs.tla`, for every number of runs, dates and retriers, from
`PublicationAssumption` (both bounds positive, retriers not numbers):

* `TypeCorrect`, `ApprovedOnly`: for the code alone. The inductive invariant
  `Inv` says what processes hold: a client that publishes has a saved, approved
  row (`JobApproved`); only the holder of the lock is at work and earlier runs
  are over (`LockOrder`); no row before `save_brief`, and every row that was in
  the queue was approved (`RowsApproved`); so is what is on its way to GitHub
  (`WritesApproved`). Without the last two a late write could land unapproved
  content in the induction, though the property itself speaks of the
  repository alone.
* `NeverStale`, `QueueIsNewest`, `ImplementsRegister`: under `RetryAlone`.
  `InvAlone` adds: a pass is alone at work (`OneAtWork`); the rows held in
  memory are still pending and the newest of their date (`Queue`); every write
  sent or about to be sent names a SHA not newer than its brief
  (`WritesForward`). The last is what makes late writes harmless: GitHub
  applies one only over the brief it names. `stale` shows that `RetryAlone`
  cannot be dropped.

`PublicationRecords.tla` extends it with what is on record afterwards, each
property with an invariant of its own on top of `Inv` or `InvAlone`:

* `SuccessIsReal`, `LocalFileNotOlder`, `BaselineOnce`: for the code alone.
  `Confirmed` says that who has an answer has a brief that landed, and `landed`
  only grows (`LandedGrows`). `LocalFirst`: a run about to save has written the
  file, and by `LockOrder` no newer run has a row. `BaselineRuns`: while a
  baseline is at work no other run is complete, because a complete run had full
  coverage and a date that has come, so `has_prior_complete_run` saw it.
* `FinishedIsPublished`, `CleanMeansDrained`: under `RetryAlone`. A published row
  stays so (`PublishedStays`): nobody else holds it. `Drained` says that all that
  is pending is in the hands of a pass that has not failed.

`RebalanceProofs.tla`, for all channels, capacities, reserves and amounts, from
`RebalanceAssumption`: `TypeCorrect`, `OnlyApprovedPayments`,
`AttemptsBounded`, `AtMostOnePayment`, `HonestReport`. In `IInv`, `RoomLeft` is
the argument for the bound: what was offered plus twice the next attempt is
never above twice the plan, and halving keeps it. `LastCounts` is the argument
for paying once: while nothing was given up, only the last payment may be
anything but failed, and none is while an attempt is prepared.

`MagmaProofs.tla`, for any number of sessions, offers, statuses and restarts,
from `MagmaAssumption`: `TypeCorrect`, `ApprovedOnly`, `NothingDropped`,
`ListingCorrect`. `SessionState` and `OrderState` say that a session's request
is sent once, that it reaches Amboss once at most, and that the agent holds
the answer of that order only. `Kept` is the argument for the file: a placed
order is in the file or, while one handler writes (`OneWriter`), in the list
it is writing, which also has the order it is written for (`Written`).
`ListingOwes` adds the handler's copy: what was placed when a listing began is
still to be refreshed or refreshed already. `AllKnown`: all entries are of
orders and never ahead of them, for orders only get on. There is one lemma per
conjunct, with one step per action.

`ImplementsPromise` maps each step to one of `ApprovedOnce`: `Choose` is the grant,
`Create` carries it out, the answer is `Say`, all else is nothing of its concern. It
needs `Early` besides `IInv`: a session has no offer before it chooses, so that
`Confirm` grants nothing yet and `Choose` grants once, and a request that got as
far as the file has its order, so that "placed" is said of an order there is.
`CreatedFor` says that an order made, however late, is its session's first and
leaves those of the others alone.

`ModelProcessesProofs.tla`, for any number of commands, hits and probes and any
order of the models, from `ModelsAssumption`. `Placed` says where a command may
be with which processes: while the worker is in use there is no server and the
reverse, none before a start, and none after an end of the command's own that
was not sent SIGKILL; `TypeCorrect`, `OneModel` and `NoneLeft` follow. `NoneLeft`
is of commands that end by themselves, an interrupt of a `with` included; a
command whose Python process is ended from outside (`killed`) leaves what it had,
which is what `CommandsEnd` is about. `Acquainted` is the argument for
`ServedByOwnOrMet`: a command at its server has met every other command whose
server lives, for one that had ended by itself has killed it (`Placed`), and one
whose Python process was ended from outside before was found at the port, or did
not listen yet (`Unseen`). `Answered` is the argument for `OwnTags`, one case for each state
of the pipes (`Pipes`): while a request is on its way there is nothing in the
other pipe that could be read as its answer but an error; after a failure the
client is `broken` and asks no more, which is what makes a late answer harmless.

`DraftingProofs.tla`, for any number of sources and any limits, from
`DraftingAssumption`: `TypeCorrect`, `Supported`, `KeptForReview`, `Honest`,
`RejectedForCause`. Each stage is entered once, so a property of an accepted brief
is shown at the step that accepts; `TypeInv` adds to the types that the ids can be
counted, without which the limits say nothing. The lemmas say what the routing
does to a list of items: it keeps each in its place (`RoutedKeepsItems`), stays
within the limits (`RoutedWithinLimits`), adds the missing ids and no other
(`RoutedIds`). `ObedientPasses` joins them.

`WriteProofs.tla`, for any sessions, commands and state of LND: `TypeCorrect`,
`ApprovedOnly`, `ReportedTrue`, `ImplementsPromise`. `Approved` says that a plan
does not change once it is in the audit log and that the call is sent at one step;
`Early` that nothing is audited before the prompt and nothing told before the end;
`Logged` that LND's log has the plan, once, for a call performed and nothing for
any other. `OnlyApproved` and `ReportTrue` are what the promise comes to in a single
state; the run checks the promise. In the refinement `Approve` is the grant, what LND performs carries it
out (`Performed`: nothing was performed for the session before), and an end is
`Say` or of no concern.

`CollectionProofs.tla`, for any number of runs, workers, lanes, queries, hits, URLs
and texts, from `CollectionAssumption`: `TypeCorrect`, `HistoryTrue`,
`CoverageTrue`, `NothingDiscarded`, `EvidenceSorted`. In `Inv`, beside the types:

* `Present`: runs to come are not complete, the one at work is `running`, and
  its sources are its own; so what `prior_source_hash` finds (`PriorHash`, with
  `MaxOfSet`) is of the latest complete run before it that has the URL, and no
  step but the end of the run changes what a source was compared with.
* `Asked`: a query that failed is held against its lane. `Gathered`: from the
  deduplication on, every candidate is refused and held against its lane, or has
  a hit with its URL; a hit whose result was taken is a source with a row or held
  against its lane (`Settled`); a packet is made when all were taken. Complete
  coverage is then the absence of everything held against a lane
  (`CoverageTrue`).

What the passes over lists compute is proved for lists of any length. `KeepFirst`
is a recursive function: `KeptExists` shows that it is defined,
`KeepFirstKeepsFirsts` that it keeps of each key the first element, and only that,
in the order of the list (`Firsts`). `InOrder` is a choice: `SortedListExists`
shows that there is a sorted list, each source at the place that is the number of
those not behind it, and `SortedListHasAll` that it has every source;
`SourcesAreOrdered` that `_source_priority`, with the stability of `sort`, orders
the sources strictly. `EvidenceOfSources` joins them. The induction these need is
over a set of numbers (`Induction`), from the least number outside it.

**Only model-checked**: the liveness properties (`ApprovedSettles`, `Terminates`,
`CommandsEnd`) and the fairness they rest on: liveness and ENABLED are out of the
prover's reach. Every other property of a passing run is a theorem.

## 5. What was found

Where a run shows that code and documents disagree:

* `stale`: `docs/x402-watch-uat.md:238-240` promises that a newer brief
  prevents stale content from overwriting the daily file. `cli.py:224` reads
  the rows once and takes no lock; next to a run, the older brief wins and both
  rows end as published.
* `retained`: `docs/x402-watch-design.md:247-248` promises that all source
  records are retained. `INSERT OR IGNORE` (`db.py:140`) drops the second of
  two hits that end at one URL with different text, while the brief has both.
* `offered`: `docs/x402-watch-uat.md:54-55` says that routed sources are excluded
  from claim synthesis. An id is of the page's URL and text, held terms are also
  looked for in the hit's title: two hits redirected to one page, one with such a
  title, give one id that is offered (`pipeline.py:303-307`) and routed, and a
  draft that cites it is rejected (`policy.py:143`).

* `lastrun`: `docs/x402-watch-design.md:212-213` and `260-261` promise a comparison
  with the last complete run. `prior_source_hash` (`db.py:189-193`) takes the last
  complete run that has the URL: a page that was gone from the last complete run
  and is found again is "unchanged" or "changed" instead of "new", which also
  moves it in the packet (`_source_priority`).

Seen while modelling, without a run:

* `docs/x402-watch-design.md:294` promises a recorded outcome. An error of
  `_write_outbox` (`pipeline.py:375`) passes every handler that calls `finish_run`
  and leaves the run at `running` (`WriteOutboxFails`).
* `_read_response` bounds `select()` but not the `readline()` after it
  (`hailo.py:204-216`): a worker that stops within a line keeps `check-models`, or a
  run by hand, waiting for ever. This worker writes its lines whole.
* A Python process that is killed alone does not stop `llama-server`: after a
  command by hand it stays and keeps the port, and every later start refuses to
  attach (`llm.py:95-98`) until somebody ends it. One that is interrupted within
  `start()` or `stop()` leaves it to the server to obey the terminal's own signal.
* An order whose answer is lost, unreadable or late exists at Amboss and is in no
  listing, for it is saved only after the answer is read (`agent/main.py:893-927`).
* The fee limit of a rebalance has a floor of 50 sat (`cli/mercury:2637`): more than
  the half percent of its comment below 10,000 sat.
* Two commands that have both found the port free may both be served by the server
  that binds it first (`ServedByOwn` says no more than the code gives).
* `send` compares with the balance without the anchor reserve (`cli/mercury:347`),
  `channel open` without the fee (`:2044`): LND may refuse what was approved.
* A timed-out `send` is reported as "Transaction failed" (`:364`) and may still be
  broadcast. That an invoice is not paid twice is LND's doing.
* `fees set` shows a scope, but no parser sets a channel and `updatechanpolicy` is
  called for all (`:2294`); partial failures are still reported as updated.

## 6. What is abstracted, and what is not modelled

* Texts, Markdown, JSON, timestamps, attempt counters and error messages. A
  page is a URL and a hash; a brief is the number of its run.
* `AcceptDraft` stands for search to gates, which write nothing Publication
  looks at; Collection models that part with all its writes.
* The coverage flag of `runs` is recorded for refused and failed drafts too;
  nothing reads it there.
* The pipeline's own deadlines are outcomes (a fetch, tag or draft fails).
* Rebalance: the remote balance is the capacity less the local one (commit
  fees left out); ties of `round` go up; a payment moves as one part; `lncli
  payinvoice` is taken to exit with an error when the payment failed, for the
  command does not look at `status` as `execute_pay` does.
* Magma: the order file as a set (`created_at` orders the listing only); every
  order has an id; prices and sizes belong to the offer; keys, `magma auth`
  and the invoice the operator pays with another command. The agent is one
  process with one event loop (`uvicorn.run(app, ...)`). That the approval
  comes before the offer is known is kept as it is: `Confirm`, then `Choose`.
* ModelProcesses: diagnostics; what a request says. A half line is an answer that cannot
  be read before its writer is gone, and is then malformed. Both models are stopped
  in the same way, and one stop stands for both.
* Drafting: the order of the packet (Collection has it) and the text of a brief.
  `model_validate_json` gives any draft; the response format only narrows it.
* WriteCommands: addresses, aliases and fee rates; the minimum of a known node is
  a warning. LND's confirmed balance is what sessions spend and nothing else.
* The agent's plan registry is not modelled: `consume` ends in an error on every
  path (`agent/main.py:101-116`), so a plan is never executed there. Its expired
  plans stay in memory until a restart.
* The page fetcher's inside is not modelled: its deadline, redirect limit and
  request filter are decided in callbacks of a browser, whose order the code does
  not determine; the URL is read before the content (`sources.py:296`), and what a
  page does in between is not known from the code.
* Not modelled at all: reports and AI prompts of the CLI (they read and
  print), the agent's telemetry (likewise), invoices and deposits (one caller, no
  shared state), configuration, installer.

## 7. Plan

What would be next, in this order:

1. `WriteCommands` with `rebalance` as one more session, so that a payment moves
   the balances a close or another rebalance has planned with.
2. `charge` and `deposit`: polling until paid or expired.
