------------------------------ MODULE Collection ------------------------------
(***************************************************************************)
(* The research half of a daily run of x402 Watch: DailyPipeline._run_locked *)
(* (pipeline.py) up to the packet of evidence it hands to the writer.  The   *)
(* queries of all lanes are asked one after the other; the hits are          *)
(* deduplicated; a pool of workers fetches the pages (sources.py) while the  *)
(* main thread takes the results in whatever order they come, has the Hailo  *)
(* worker tag each hit, compares the page with the history and saves it      *)
(* (db.py).                                                                  *)
(*                                                                           *)
(* Runs follow each other, the flock of pipeline.py keeps them apart; each   *)
(* may be cut off anywhere, and what it saved stays in the tables.           *)
(***************************************************************************)
EXTENDS Naturals, FiniteSets, SequencesExt

CONSTANTS
    MaxRuns,      \* bound: how many runs there are
    Workers,      \* fetch_workers
    NumLanes,     \* the lanes are numbered in the order of LANE_QUERIES
    Queries,      \* the lane of each query, in the order they are asked
    MaxHits,      \* bound: how many hits a query returns
    Urls,         \* canonical URLs of public pages
    UnsafeUrls,   \* URLs canonicalize_url refuses
    Hashes,       \* hashes of extracted texts
    Primary       \* the pairs of a lane and a URL that _PRIMARY_DOMAINS has

Runs == 1 .. MaxRuns
Lanes == 1 .. NumLanes
NoHash == "none"
Relevances == {"relevant", "uncertain", "not_relevant"}
NoTag == "untagged"
Histories == {"changed", "new", "unchanged"}

ASSUME CollectionAssumption ==
    /\ MaxRuns \in Nat
    /\ Workers \in 1 .. 4
    /\ NumLanes \in Nat
    /\ Queries \in Seq(Lanes)
    /\ MaxHits \in Nat
    /\ Urls \cap UnsafeUrls = {}
    /\ NoHash \notin Hashes
    /\ Primary \subseteq Lanes \X Urls

VARIABLES
    run,            \* the run at work, or the last one
    stage,          \* "idle", "search", "fetch", "packet"
    tagger,         \* "working", or "unavailable" for the rest of the run
    querySuccess,   \* query_success[lane]
    sourceFailures, \* source_failures, a set of lanes
    candidates,     \* the hits of all queries so far
    hits,           \* deduplicated
    phase,          \* where the fetch of each hit is
    page,           \* the page it found, by URL and hash of its text
    sources,        \* the list of sources, in the order they were taken
    \* the database
    status,         \* runs.status
    queryLog,       \* queries.status, in the order of the rows of this run
    table           \* sources: table[r][u] is the hash saved by r for u

localVars == <<tagger, querySuccess, sourceFailures, candidates, hits, phase,
               page, sources, queryLog>>
vars == <<run, stage, localVars, status, table>>

Hit == [lane : Lanes, url : Urls \cup UnsafeUrls]
Page == [url : Urls, hash : Hashes]
NoPage == [url |-> NoHash, hash |-> NoHash]
Source == [hit : Nat, page : Page, history : Histories,
           relevance : Relevances \cup {NoTag}]

Init ==
    /\ run = 0
    /\ stage = "idle"
    /\ tagger = "unavailable"
    /\ querySuccess = [l \in Lanes |-> TRUE]
    /\ sourceFailures = {}
    /\ candidates = <<>>
    /\ hits = <<>>
    /\ phase = <<>>
    /\ page = <<>>
    /\ sources = <<>>
    /\ status = [r \in Runs |-> "none"]
    /\ queryLog = <<>>
    /\ table = [r \in Runs |-> [u \in Urls |-> NoHash]]

-----------------------------------------------------------------------------
(* Searching.                                                                *)

\* A run starts with or without a Hailo worker (--cpu-only, tagger_error).
StartRun ==
    /\ stage = "idle"
    /\ run < MaxRuns
    /\ run' = run + 1
    /\ stage' = "search"
    /\ tagger' \in {"working", "unavailable"}
    /\ status' = [status EXCEPT ![run + 1] = "running"]
    /\ UNCHANGED <<querySuccess, sourceFailures, candidates, hits, phase, page,
                   sources, queryLog, table>>

\* The lane of the next query.
Asking == Queries[Len(queryLog) + 1]

\* Slip: a query that succeeds forgets that an earlier one of the lane failed.
SuccessOfLastQuery(result) == [querySuccess EXCEPT ![Asking] = result = "ok"]

QuerySuccess(result) ==
    IF result = "ok" THEN querySuccess
    ELSE [querySuccess EXCEPT ![Asking] = FALSE]

Query(result, found) ==
    /\ stage = "search"
    /\ Len(queryLog) < Len(Queries)
    /\ querySuccess' = QuerySuccess(result)
    /\ candidates' = candidates
                       \o [i \in DOMAIN found |-> [lane |-> Asking,
                                                   url |-> found[i]]]
    /\ queryLog' = Append(queryLog, result)
    /\ UNCHANGED <<run, stage, tagger, sourceFailures, hits, phase, page,
                   sources, status, table>>

SearchSucceeds ==
    \E n \in 0 .. MaxHits : \E found \in [1 .. n -> Urls \cup UnsafeUrls] :
        Query("ok", found)

SearchFails == Query("error", <<>>)

\* One pass over a list: an element without a key is skipped, and so is one
\* whose key was met before.
KeepFirst(seq, key) ==
    LET kept[n \in 0 .. Len(seq)] ==
            IF n = 0 THEN <<>>
            ELSE LET before == kept[n - 1]
                 IN  IF \/ seq[n] \notin DOMAIN key
                        \/ \E i \in DOMAIN before :
                               key[before[i]] = key[seq[n]]
                     THEN before
                     ELSE Append(before, seq[n])
    IN  kept[Len(seq)]

\* Slip: the unsafe candidates are not skipped.
DeduplicatedUnfiltered == KeepFirst(candidates, [c \in Hit |-> c.url])

SafeHit == [lane : Lanes, url : Urls]

\* The first hit of each URL, whichever lane found it.
Deduplicated == KeepFirst(candidates, [c \in SafeHit |-> c.url])

\* Slip: an unsafe candidate is skipped and nothing more.
NoUnsafeLanes == {}

UnsafeLanes ==
    {candidates[i].lane : i \in {j \in DOMAIN candidates :
                                     candidates[j].url \in UnsafeUrls}}

\* All queries are answered: the hits go to the pool.
SubmitFetches ==
    /\ stage = "search"
    /\ Len(queryLog) = Len(Queries)
    /\ stage' = "fetch"
    /\ sourceFailures' = UnsafeLanes
    /\ hits' = Deduplicated
    /\ phase' = [i \in DOMAIN Deduplicated |-> "waiting"]
    /\ page' = [i \in DOMAIN Deduplicated |-> NoPage]
    /\ UNCHANGED <<run, tagger, querySuccess, candidates, sources, status,
                   queryLog, table>>

-----------------------------------------------------------------------------
(* Fetching, in the threads of the pool.                                     *)

In(place) == {i \in DOMAIN phase : phase[i] = place}

\* A free worker takes the hit that has waited longest.
BeginFetch(i) ==
    /\ stage = "fetch"
    /\ i \in In("waiting")
    /\ \A j \in In("waiting") : i <= j
    /\ Cardinality(In("fetching")) < Workers
    /\ phase' = [phase EXCEPT ![i] = "fetching"]
    /\ UNCHANGED <<run, stage, tagger, querySuccess, sourceFailures,
                   candidates, hits, page, sources, status, queryLog, table>>

EndFetch(i, found) ==
    /\ stage = "fetch"
    /\ i \in In("fetching")
    /\ phase' = [phase EXCEPT ![i] = "fetched"]
    /\ page' = [page EXCEPT ![i] = found]
    /\ UNCHANGED <<run, stage, tagger, querySuccess, sourceFailures,
                   candidates, hits, sources, status, queryLog, table>>

\* The URL of the page is the one the redirects ended at.
FetchSucceeds(i) == \E found \in Page : EndFetch(i, found)

\* SourceFetchError or SourceExtractionError.
FetchFails(i) == EndFetch(i, NoPage)

-----------------------------------------------------------------------------
(* Taking the results, in the main thread.                                   *)

\* Slip: runs that are not complete count as well.
AnyEarlierRunWith(u) == {r \in Runs \ {run} : table[r][u] # NoHash}

EarlierRunsWith(u) ==
    {r \in Runs \ {run} : status[r] = "complete" /\ table[r][u] # NoHash}

\* Slip: the rows are in the other order.
OldestSourceHash(u) ==
    IF EarlierRunsWith(u) = {} THEN NoHash
    ELSE table[Min(EarlierRunsWith(u))][u]

\* prior_source_hash: runs are numbered by date and time of completion.
PriorSourceHash(u) ==
    IF EarlierRunsWith(u) = {} THEN NoHash
    ELSE table[Max(EarlierRunsWith(u))][u]

HistoryStatus(found) ==
    LET previous == PriorSourceHash(found.url)
    IN  IF previous = NoHash THEN "new"
        ELSE IF previous = found.hash THEN "unchanged"
        ELSE "changed"

\* INSERT OR IGNORE: the first page of a URL stays.
SaveSource(found) ==
    IF table[run][found.url] = NoHash
    THEN [table EXCEPT ![run][found.url] = found.hash]
    ELSE table

\* Slip: a hit the Hailo worker calls not relevant is left out.
RelevantSources(i, tag) ==
    IF tag = "not_relevant" THEN sources
    ELSE Append(sources, [hit |-> i, page |-> page[i],
                          history |-> HistoryStatus(page[i]),
                          relevance |-> tag])

WithSource(i, tag) ==
    Append(sources, [hit |-> i, page |-> page[i],
                     history |-> HistoryStatus(page[i]), relevance |-> tag])

\* Slip: the lane of a failed fetch is not noted.
FailuresUnchanged(i) == sourceFailures

FailuresWith(i) == sourceFailures \cup {hits[i].lane}

\* A tag may be had while the worker is up; whether the page was fetched is
\* looked at after.
Take(i, tag) ==
    /\ stage = "fetch"
    /\ i \in In("fetched")
    /\ phase' = [phase EXCEPT ![i] = "taken"]
    /\ IF page[i] = NoPage
       THEN /\ sourceFailures' = FailuresWith(i)
            /\ UNCHANGED <<sources, table>>
       ELSE /\ sources' = WithSource(i, tag)
            /\ table' = SaveSource(page[i])
            /\ UNCHANGED sourceFailures
    /\ UNCHANGED <<run, stage, querySuccess, candidates, hits, page, status,
                   queryLog>>

TakeTagged(i) ==
    /\ tagger = "working"
    /\ \E tag \in Relevances : Take(i, tag)
    /\ UNCHANGED tagger

\* HailoWorkerError: no hit is tagged any more.
TakeAsTaggerFails(i) ==
    /\ tagger = "working"
    /\ Take(i, NoTag)
    /\ tagger' = "unavailable"

TakeUntagged(i) ==
    /\ tagger = "unavailable"
    /\ Take(i, NoTag)
    /\ UNCHANGED tagger

\* The pool is shut down and the tagger stopped.
Gather ==
    /\ stage = "fetch"
    /\ In("taken") = DOMAIN phase
    /\ stage' = "packet"
    /\ UNCHANGED <<run, localVars, status, table>>

\* Slip: only the searches count.
SearchesComplete == \A l \in Lanes : querySuccess[l]

CoverageComplete ==
    (\A l \in Lanes : querySuccess[l]) /\ sourceFailures = {}

-----------------------------------------------------------------------------
(* The packet of evidence.                                                   *)

HistoryPriority == [changed |-> 0, new |-> 1, unchanged |-> 2]
RelevancePriority ==
    [relevant |-> 0, uncertain |-> 1, untagged |-> 1, not_relevant |-> 2]

LaneOf(s) == hits[s.hit].lane

\* The tuple _source_priority returns, read as a number.
SourcePriority(s) ==
    LET primary == IF <<LaneOf(s), s.page.url>> \in Primary THEN 0 ELSE 1
    IN  (((primary * 3) + HistoryPriority[s.history]) * 3
            + RelevancePriority[s.relevance]) * (NumLanes + 1) + LaneOf(s)

\* sources.sort is stable: of equal sources the one taken first comes first.
Precedes(i, j) ==
    \/ SourcePriority(sources[i]) < SourcePriority(sources[j])
    \/ SourcePriority(sources[i]) = SourcePriority(sources[j]) /\ i < j

HashOf(i) == sources[i].page.hash

\* A set of places in sources, sorted.
InOrder(places) ==
    CHOOSE list \in [1 .. Cardinality(places) -> places] :
        \A i, j \in DOMAIN list : i < j => Precedes(list[i], list[j])

Hash == [i \in DOMAIN sources |-> HashOf(i)]

\* Slip: duplicates are removed before the sources are sorted.
SortAfterDeduplication ==
    InOrder(ToSet(KeepFirst([i \in DOMAIN sources |-> i], Hash)))

\* _deduplicate_evidence of the sorted list, by place in sources.
Evidence == KeepFirst(InOrder(DOMAIN sources), Hash)

\* The process ends, its local variables with it.
End ==
    /\ stage' = "idle"
    /\ tagger' = "unavailable"
    /\ querySuccess' = [l \in Lanes |-> TRUE]
    /\ sourceFailures' = {}
    /\ candidates' = <<>>
    /\ hits' = <<>>
    /\ phase' = <<>>
    /\ page' = <<>>
    /\ sources' = <<>>
    /\ queryLog' = <<>>
    /\ UNCHANGED <<run, table>>

\* What follows, the draft and its publication, succeeds or fails.
Finish ==
    /\ stage = "packet"
    /\ \E outcome \in {IF CoverageComplete THEN "complete" ELSE "incomplete",
                       "failed"} :
           status' = [status EXCEPT ![run] = outcome]
    /\ End

\* Killed, or an exception nothing handles: no other write to the database.
Die ==
    /\ stage # "idle"
    /\ End
    /\ UNCHANGED status

Next ==
    \/ StartRun
    \/ SearchSucceeds
    \/ SearchFails
    \/ SubmitFetches
    \/ \E i \in DOMAIN phase :
           \/ BeginFetch(i)
           \/ FetchSucceeds(i)
           \/ FetchFails(i)
           \/ TakeTagged(i)
           \/ TakeAsTaggerFails(i)
           \/ TakeUntagged(i)
    \/ Gather
    \/ Finish
    \/ Die

Spec == Init /\ [][Next]_vars

-----------------------------------------------------------------------------
(* Properties.                                                               *)

\* Every variable holds values of its type: no URL that is not public reaches
\* the pool, and the pool is never larger than the number of its workers.
TypeOK ==
    /\ run \in 0 .. MaxRuns
    /\ stage \in {"idle", "search", "fetch", "packet"}
    /\ tagger \in {"working", "unavailable"}
    /\ querySuccess \in [Lanes -> BOOLEAN]
    /\ sourceFailures \subseteq Lanes
    /\ candidates \in Seq(Hit)
    /\ hits \in Seq(SafeHit)
    /\ phase \in [DOMAIN hits -> {"waiting", "fetching", "fetched", "taken"}]
    /\ page \in [DOMAIN hits -> Page \cup {NoPage}]
    /\ sources \in Seq(Source)
    /\ status \in [Runs -> {"none", "running", "complete", "incomplete",
                            "failed"}]
    /\ queryLog \in Seq({"ok", "error"})
    /\ table \in [Runs -> [Urls -> Hashes \cup {NoHash}]]
    /\ Cardinality(In("fetching")) <= Workers

\* Coverage is called complete only when every query of every lane succeeded
\* and every URL any of them returned was safe and gave a source: a failed
\* query or fetch anywhere prevents a no-material-change claim, although hits
\* of several lanes share one fetch.
CoverageHonest ==
    stage = "packet" /\ CoverageComplete =>
        /\ \A q \in DOMAIN queryLog : queryLog[q] = "ok"
        /\ \A c \in ToSet(candidates) :
               \E s \in ToSet(sources) : hits[s.hit].url = c.url

\* Whatever the tagger says, and wherever it fails, every page that was fetched
\* is a source, has a row for its URL, and its text is in the packet.
TagsDiscardNothing ==
    stage = "packet" =>
        \A i \in DOMAIN hits : page[i] # NoPage =>
            /\ \E s \in ToSet(sources) : s.hit = i
            /\ table[run][page[i].url] # NoHash
            /\ \E e \in ToSet(Evidence) : HashOf(e) = page[i].hash

\* The packet is in order of priority, and of the sources with one text it has
\* the one of highest priority, in whatever order the fetches ended.
EvidenceIsBest ==
    stage = "packet" =>
        /\ \A i, j \in DOMAIN Evidence :
               i < j => Precedes(Evidence[i], Evidence[j])
        /\ \A e \in ToSet(Evidence), i \in DOMAIN sources :
               HashOf(i) = HashOf(e) => i = e \/ Precedes(e, i)

\* What is said of a source is said against the latest complete run that has
\* its URL, and it is new when none has: rows that crashed, incomplete and
\* failed runs left are not history, nor are those this run has saved itself.
HistoryIsOfCompleteRuns ==
    \A s \in ToSet(sources) :
        LET known == {r \in 1 .. run - 1 :
                          /\ status[r] = "complete"
                          /\ table[r][s.page.url] # NoHash}
        IN  \/ known = {} /\ s.history = "new"
            \/ \E r \in known :
                   /\ \A q \in known : q <= r
                   /\ s.history = IF table[r][s.page.url] = s.page.hash
                                  THEN "unchanged" ELSE "changed"

\* A source is new, changed or unchanged against the last complete run
\* (docs/x402-watch-design.md:212-213).
ComparedWithLastRun ==
    \A s \in ToSet(sources) :
        LET complete == {r \in 1 .. run - 1 : status[r] = "complete"}
            last == table[Max(complete)][s.page.url]
        IN  s.history = IF complete = {} \/ last = NoHash THEN "new"
                        ELSE IF last = s.page.hash THEN "unchanged"
                        ELSE "changed"

\* Every source of the brief is in the private source table, with its text
\* (docs/x402-watch-design.md:247-248).
AllRecordsRetained ==
    stage = "packet" =>
        \A s \in ToSet(sources) : table[run][s.page.url] = s.page.hash

=============================================================================
