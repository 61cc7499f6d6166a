------------------------------ MODULE Backfill ------------------------------
(***************************************************************************)
(* Historical backfill (dataops/backfill.py): a job is split into segments *)
(* when it is created, and every run of the job fetches the venue's price  *)
(* history once per segment, archives the payload and stores one price row *)
(* per point.  A call runs in one transaction, so an action is one call.   *)
(* What the venue answers to a segment is chosen when the call runs.       *)
(***************************************************************************)
EXTENDS DeskBase, FiniteSets

CONSTANTS
  Jobs,             \* ids of backfill jobs
  Markets,          \* canonical market ids
  Points,           \* Points[m]: when the venue observed a price of m
  MaxTime,          \* bound: times are 0..MaxTime
  MaxRuns,          \* bound: calls of run_backfill_job
  Rank              \* the order of sorted(...) on market ids and endpoint types

Times == 0 .. MaxTime
EndpointTypes == {"ORDERBOOK", "PRICE_HISTORY"}
Venues == {"kalshi", "polymarket"}

ASSUME BackfillAssumption ==
  /\ MaxTime \in Nat /\ MaxRuns \in Nat
  /\ IsFiniteSet(Markets)
  /\ None \notin Markets \cup Jobs
  /\ Points \in [Markets -> SUBSET Times]

ASSUME RankAssumption == Rank \in [Markets \cup {None} \cup EndpointTypes -> Int]

VARIABLES
  now,              \* the wall clock of the imports
  mapped,           \* markets with a venue mapping
  jobs,             \* backfill_jobs rows
  segments,         \* backfill_segments rows
  payloads,         \* raw_venue_payloads rows: the capture time by id
  prices,           \* market_price_snapshots rows of backfills
  ranJobs           \* calls of run_backfill_job so far
backfillVars == <<now, mapped, jobs, segments, payloads, prices, ranJobs>>

JobStatuses == {"PENDING", "COMPLETED", "PARTIAL"}
SegmentStatuses == {"PENDING", "COMPLETED", "FAILED", "SKIPPED_UNSUPPORTED"}

\* the id of a payload is the hash of the venue's answer, without its capture time
PayloadId == [market : Markets, points : SUBSET Times]
PriceRow == [market : Markets, observed : Times, available : Times, source : PayloadId]
Segment == [job : Jobs, market : Markets \cup {None}, endpoint : EndpointTypes,
            start : Times, end : Times, status : SegmentStatuses,
            archived : 0 .. 1, created : Nat, errors : Nat]
Request == [venue : Venues, markets : SUBSET Markets,
            endpoints : SUBSET EndpointTypes, start : Times, end : Times,
            interval : (Times \ {0}) \cup {None}, max : Nat \ {0}]
Job == [request : Request, status : JobStatuses, created : Nat,
        completed : Nat, failed : Nat]

-----------------------------------------------------------------------------
MaxOf(S) == CHOOSE t \in S : \A u \in S : u <= t

FaultyWindowsGap(start, end, interval) ==
  IF interval = None \/ start = end
  THEN {<<start, end>>}
  ELSE {<<start + k * interval, Lesser(start + (k + 1) * interval, end)>> :
          k \in 0 .. ((end - start - 1) \div interval) - 1}

Windows(start, end, interval) ==
  IF interval = None \/ start = end
  THEN {<<start, end>>}
  ELSE {<<start + k * interval, Lesser(start + (k + 1) * interval, end)>> :
          k \in 0 .. ((end - start - 1) \div interval)}

Supported(venue, endpoint) == endpoint = "PRICE_HISTORY" /\ venue = "polymarket"

\* the pieces of the job in the order of the planner's three loops
Pieces(r) ==
  (IF r.markets = {} THEN {None} ELSE r.markets) \X r.endpoints
     \X Windows(r.start, r.end, r.interval)

PlannedBefore(p, q) ==
  \/ Rank[p[1]] < Rank[q[1]]
  \/ Rank[p[1]] = Rank[q[1]] /\ Rank[p[2]] < Rank[q[2]]
  \/ Rank[p[1]] = Rank[q[1]] /\ p[2] = q[2] /\ p[3][1] < q[3][1]

\* plan_backfill_segments stops silently at max_segments
PlanBackfillSegments(j, r) ==
  LET kept == {p \in Pieces(r) :
                 Cardinality({q \in Pieces(r) : PlannedBefore(q, p)}) < r.max}
  IN  {[job |-> j, market |-> p[1], endpoint |-> p[2],
        start |-> p[3][1], end |-> p[3][2],
        status |-> IF Supported(r.venue, p[2]) THEN "PENDING" ELSE "SKIPPED_UNSUPPORTED",
        archived |-> 0, created |-> 0, errors |-> 0] : p \in kept}

CreateBackfillJob(j, r) ==
  /\ jobs[j] = None
  /\ r.start <= r.end
  /\ r.endpoints # {}
  /\ LET planned == PlanBackfillSegments(j, r)
     IN  /\ segments' = segments \cup planned
         /\ jobs' = [jobs EXCEPT ![j] =
                       [request |-> r, status |-> "PENDING",
                        created |-> Cardinality(planned),
                        completed |-> 0, failed |-> 0]]
  /\ UNCHANGED <<now, mapped, payloads, prices, ranJobs>>

-----------------------------------------------------------------------------
(* One segment of a run.  The fetch ignores the segment's window: it       *)
(* returns the venue's whole history so far, dated with the segment's end. *)
Answer(s) == [market |-> s.market, points |-> {t \in Points[s.market] : t <= now}]

RowsOf(s) == {[market |-> s.market, observed |-> t, available |-> s.end,
               source |-> Answer(s)] : t \in Answer(s).points}

SkippedAtRun(s) == s.endpoint # "PRICE_HISTORY" \/ s.market = None \/ s.market \notin mapped

FaultyTried(s) == TRUE

Tried(s) == s.status # "SKIPPED_UNSUPPORTED"
Fetches(s) == Tried(s) /\ ~SkippedAtRun(s)

\* answers[s]: the fetch fails, or brings a history whose times do not parse
Answers == {"history", "fetchError", "badPoint"}

FaultyNewRows(s, answer, force) ==
  IF answer # "history" THEN {}
  ELSE {r \in RowsOf(s) : ~\E q \in prices : q.market = r.market /\ q.observed = r.observed}

\* a row's id is the hash of its contents; stored again only when forced
NewRows(s, answer, force) ==
  IF answer # "history" THEN {}
  ELSE IF force THEN RowsOf(s) ELSE RowsOf(s) \ prices

FaultyRunSegment(s, answer, force) ==
  IF ~Tried(s) \/ s.status = "FAILED" THEN s
  ELSE IF SkippedAtRun(s) THEN [s EXCEPT !.status = "SKIPPED_UNSUPPORTED"]
  ELSE IF answer # "history"
  THEN [s EXCEPT !.status = "FAILED", !.errors = @ + 1]
  ELSE [s EXCEPT !.status = "COMPLETED", !.archived = 1,
                 !.created = Cardinality(NewRows(s, answer, force))]

RunSegment(s, answer, force) ==
  IF ~Tried(s) THEN s
  ELSE IF SkippedAtRun(s) THEN [s EXCEPT !.status = "SKIPPED_UNSUPPORTED"]
  ELSE IF answer # "history"
  THEN [s EXCEPT !.status = "FAILED", !.errors = @ + 1]
  ELSE [s EXCEPT !.status = "COMPLETED", !.archived = 1,
                 !.created = Cardinality(NewRows(s, answer, force))]

SegmentsOf(j) == {s \in segments : s.job = j}
FetchedBy(j) == {s \in SegmentsOf(j) : Fetches(s)}

\* the payload is archived before its points are read
Archived(j, answers) == {s \in FetchedBy(j) : answers[s] # "fetchError"}

\* archiving the same answer again moves its capture time
Archive(archived) ==
  [p \in DOMAIN payloads \cup {Answer(s) : s \in archived} |->
     LET ends == {s.end : s \in {x \in archived : Answer(x) = p}}
     IN  IF ends = {} THEN payloads[p] ELSE MaxOf(ends)]

\* a run tries every segment that was not skipped, completed ones included
RunBackfillJob(j, answers, force) ==
  LET own == SegmentsOf(j)
      fetched == FetchedBy(j)
      failed == {s \in fetched : answers[s] # "history"}
  IN  /\ jobs[j] # None
      /\ ranJobs < MaxRuns
      /\ ranJobs' = ranJobs + 1
      /\ payloads' = Archive(Archived(j, answers))
      /\ prices' = prices \cup UNION {NewRows(s, answers[s], force) : s \in fetched}
      /\ segments' = (segments \ own) \cup
           {RunSegment(s, IF s \in fetched THEN answers[s] ELSE "history", force) : s \in own}
      /\ jobs' = [jobs EXCEPT
                    ![j].status = IF failed = {} THEN "COMPLETED" ELSE "PARTIAL",
                    ![j].completed = Cardinality({s \in own : Tried(s)} \ failed),
                    ![j].failed = Cardinality(failed)]
      /\ UNCHANGED <<now, mapped>>

\* an ingestion stores the venue mapping of a market
MapMarket(m) ==
  /\ m \notin mapped
  /\ mapped' = mapped \cup {m}
  /\ UNCHANGED <<now, jobs, segments, payloads, prices, ranJobs>>

BackfillTick ==
  /\ now < MaxTime
  /\ now' = now + 1
  /\ UNCHANGED <<mapped, jobs, segments, payloads, prices, ranJobs>>

BackfillInit ==
  /\ now = 0 /\ mapped = {} /\ ranJobs = 0
  /\ jobs = [j \in Jobs |-> None]
  /\ segments = {} /\ payloads = <<>> /\ prices = {}

\* the calls a client makes; a job's range never ends after the clock
CONSTANT Requests
ASSUME RequestsAssumption == Requests \subseteq Request /\ None \notin Job

BackfillNext ==
  \/ \E j \in Jobs, r \in Requests : r.end <= now /\ CreateBackfillJob(j, r)
  \/ \E j \in Jobs :
       \E answers \in [FetchedBy(j) -> Answers], force \in BOOLEAN :
          RunBackfillJob(j, answers, force)
  \/ \E m \in Markets : MapMarket(m)
  \/ BackfillTick

BackfillSpec == BackfillInit /\ [][BackfillNext]_backfillVars

-----------------------------------------------------------------------------
\* Jobs, segments, payloads and price rows keep their shape.
BackfillTypeOK ==
  /\ now \in Times /\ mapped \subseteq Markets /\ ranJobs \in 0 .. MaxRuns
  /\ jobs \in [Jobs -> Job \cup {None}]
  /\ segments \subseteq Segment
  /\ prices \subseteq PriceRow
  /\ DOMAIN payloads \subseteq PayloadId
  /\ \A p \in DOMAIN payloads : payloads[p] \in Times

\* A job that ran is PARTIAL exactly when one of its stored segments is FAILED,
\* also after reruns that retry failed segments and repeat completed ones
\* (backfill.py:225).
StatusMatchesSegments ==
  \A j \in Jobs : jobs[j] # None =>
    (jobs[j].status = "PARTIAL" <=> \E s \in SegmentsOf(j) : s.status = "FAILED")

\* The job's counters agree with its segments: failed ones are counted, completed
\* ones too, and what is counted beyond them was skipped while running.
CountersMatchSegments ==
  \A j \in Jobs : (jobs[j] # None /\ jobs[j].status # "PENDING") =>
    LET n(status) == Cardinality({s \in SegmentsOf(j) : s.status = status})
    IN  /\ jobs[j].created = Cardinality(SegmentsOf(j))
        /\ jobs[j].failed = n("FAILED")
        /\ jobs[j].completed >= n("COMPLETED")
        /\ jobs[j].completed - n("COMPLETED") <= n("SKIPPED_UNSUPPORTED")

\* A completed segment left one archived answer of its market all of whose points
\* are price rows dated with the segment's end.
CompletedHaveRows ==
  \A s \in segments : s.status = "COMPLETED" =>
    \E p \in DOMAIN payloads :
      /\ p.market = s.market
      /\ \A t \in p.points :
           [market |-> s.market, observed |-> t, available |-> s.end, source |-> p] \in prices

\* No price row without the archived answer it was read from, though a segment may
\* fail after its answer was archived.
RowsAreArchived ==
  \A r \in prices : r.source \in DOMAIN payloads /\ r.observed \in r.source.points

\* A plan that was not cut by max_segments covers every instant of the range once
\* for each market and endpoint.
PlanCoversRange ==
  \A j \in Jobs : jobs[j] # None =>
    LET r == jobs[j].request
    IN  jobs[j].created < r.max =>
          \A m \in (IF r.markets = {} THEN {None} ELSE r.markets), e \in r.endpoints :
            \A t \in r.start .. (r.end - 1) :
              Cardinality({s \in SegmentsOf(j) : /\ s.market = m /\ s.endpoint = e
                                                 /\ s.start <= t /\ t < s.end}) = 1

\* No run removes a price row or an archived answer, and a skipped segment is never
\* taken up again, not even once the mapping it lacked exists (backfill.py:205).
HistoryOnlyGrows ==
  [][/\ prices \subseteq prices'
     /\ DOMAIN payloads \subseteq DOMAIN payloads'
     /\ \A s \in segments : s.status = "SKIPPED_UNSUPPORTED" => s \in segments']_backfillVars

\* What a job says of itself adds up over its reruns: its counters are those of its stored
\* segments, and the planned windows cover the asked range without a gap, the cut of
\* max_segments excepted (backfill.py:85, 201).
BackfillAddsUp == BackfillTypeOK /\ CountersMatchSegments /\ PlanCoversRange

\* No price row without the archived answer it was read from, and what a completed segment
\* fetched stays in the archive and in the price table over every rerun.
RowsAreBacked == RowsAreArchived /\ CompletedHaveRows
=============================================================================
