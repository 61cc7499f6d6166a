----------------------------- MODULE DataOpsProofs -----------------------------
(***************************************************************************)
(* Theorems about the data operations: backfill jobs, for every set of     *)
(* jobs, markets, requests and price histories, every answer of the venue  *)
(* and any number of runs; coverage reports, for every universe, every     *)
(* history of stored rows and every order of builds.                       *)
(***************************************************************************)
EXTENDS Backfill, Coverage, DeskLemmas, FiniteSetTheorems, WellFoundedInduction,
        TLAPS

-----------------------------------------------------------------------------
(* The plan.                                                               *)

(* A multiple of the interval that starts inside the range stays inside.   *)
LEMMA MultiplesStayInside ==
  ASSUME NEW n \in Nat, NEW i \in Nat \ {0}, NEW k \in 0 .. (n \div i)
  PROVE  k * i \in Nat /\ k * i <= n
OBVIOUS

(* The windows of a range lie in it.                                       *)
LEMMA WindowsInRange ==
  ASSUME NEW start \in Times, NEW end \in Times, start <= end,
         NEW interval \in (Times \ {0}) \cup {None}
  PROVE  Windows(start, end, interval) \subseteq Times \X Times
<1>. USE BackfillAssumption
<1>1. CASE interval = None \/ start = end
  BY <1>1 DEF Windows
<1>2. CASE ~(interval = None \/ start = end)
  <2>. DEFINE n == end - start - 1
  <2>1. n \in Nat /\ interval \in Nat \ {0}
    BY <1>2 DEF Times
  <2>2. SUFFICES ASSUME NEW k \in 0 .. (n \div interval)
                 PROVE  <<start + k * interval, Lesser(start + (k + 1) * interval, end)>>
                          \in Times \X Times
    BY <1>2 DEF Windows
  <2>3. k * interval \in Nat /\ k * interval <= n
    BY <2>1, MultiplesStayInside
  <2>4. (k + 1) * interval = k * interval + interval
    BY <2>1
  <2>5. start + k * interval \in Times
    BY <2>3 DEF Times
  <2>6. Lesser(start + (k + 1) * interval, end) \in Times
    BY <2>1, <2>3, <2>4 DEF Times, Lesser
  <2>. QED
    BY <2>5, <2>6
<1>. QED
  BY <1>1, <1>2

LEMMA TimesFinite == IsFiniteSet(Times)
BY FS_Interval, BackfillAssumption DEF Times

(* Triples over finite sets are finitely many.                             *)
LEMMA TriplesFinite ==
  ASSUME NEW A, NEW B, NEW C, IsFiniteSet(A), IsFiniteSet(B), IsFiniteSet(C)
  PROVE  IsFiniteSet(A \X B \X C)
<1>. DEFINE P == (A \X B) \X C
            f == [q \in P |-> <<q[1][1], q[1][2], q[2]>>]
<1>1. IsFiniteSet(P)
  BY FS_Product
<1>2. f \in Surjection(P, A \X B \X C)
  <2>1. f \in [P -> A \X B \X C]
    OBVIOUS
  <2>2. ASSUME NEW t \in A \X B \X C
        PROVE  \E q \in P : f[q] = t
    <3>1. <<<<t[1], t[2]>>, t[3]>> \in P
      OBVIOUS
    <3>2. f[<<<<t[1], t[2]>>, t[3]>>] = t
      BY <3>1
    <3>. QED
      BY <3>1, <3>2
  <2>. QED
    BY <2>1, <2>2 DEF Surjection
<1>. QED
  BY <1>1, <1>2, FS_Surjection

LEMMA PiecesFinite ==
  ASSUME NEW r \in Request, r.start <= r.end
  PROVE  IsFiniteSet(Pieces(r))
<1>. DEFINE M == IF r.markets = {} THEN {None} ELSE r.markets
            W == Windows(r.start, r.end, r.interval)
<1>1. IsFiniteSet(M)
  BY FS_Singleton, FS_Subset, BackfillAssumption DEF Request
<1>2. IsFiniteSet(r.endpoints)
  <2>1. IsFiniteSet({"ORDERBOOK"}) /\ IsFiniteSet({"PRICE_HISTORY"})
    BY FS_Singleton
  <2>2. IsFiniteSet({"ORDERBOOK"} \cup {"PRICE_HISTORY"})
    BY <2>1, FS_Union
  <2>. QED
    BY <2>2, FS_Subset DEF Request, EndpointTypes
<1>3. IsFiniteSet(W)
  <2>1. W \in SUBSET (Times \X Times)
    BY WindowsInRange DEF Request
  <2>. QED
    BY <2>1, TimesFinite, FS_Product, FS_Subset
<1>. QED
  BY <1>1, <1>2, <1>3, TriplesFinite DEF Pieces

(* A plan is finitely many well-formed segments of its job, none completed *)
(* and none failed.                                                        *)
LEMMA PlanShape ==
  ASSUME NEW j \in Jobs, NEW r \in Request, r.start <= r.end
  PROVE  LET planned == PlanBackfillSegments(j, r)
         IN  /\ IsFiniteSet(planned) /\ planned \subseteq Segment
             /\ \A s \in planned : s.job = j /\ s.status \in {"PENDING", "SKIPPED_UNSUPPORTED"}
<1>. DEFINE kept == {p \in Pieces(r) :
                       Cardinality({q \in Pieces(r) : PlannedBefore(q, p)}) < r.max}
            Row(p) == [job |-> j, market |-> p[1], endpoint |-> p[2],
                       start |-> p[3][1], end |-> p[3][2],
                       status |-> IF Supported(r.venue, p[2]) THEN "PENDING"
                                  ELSE "SKIPPED_UNSUPPORTED",
                       archived |-> 0, created |-> 0, errors |-> 0]
            f == [p \in kept |-> Row(p)]
            planned == {Row(p) : p \in kept}
<1>1. PlanBackfillSegments(j, r) = planned
  BY DEF PlanBackfillSegments
<1>2. IsFiniteSet(planned)
  <2>1. IsFiniteSet(kept)
    BY PiecesFinite, FS_Subset
  <2>2. f \in Surjection(kept, planned)
    BY DEF Surjection
  <2>. QED
    BY <2>1, <2>2, FS_Surjection
<1>3. ASSUME NEW p \in kept
      PROVE  Row(p) \in Segment
  <2>1. /\ p[1] \in Markets \cup {None} /\ p[2] \in EndpointTypes
        /\ p[3] \in Windows(r.start, r.end, r.interval)
    BY DEF Pieces, Request
  <2>2. p[3][1] \in Times /\ p[3][2] \in Times
    <3>1. Windows(r.start, r.end, r.interval) \subseteq Times \X Times
      BY WindowsInRange DEF Request
    <3>. QED
      BY <2>1, <3>1
  <2>. QED
    BY <2>1, <2>2 DEF Segment, SegmentStatuses
<1>4. planned \subseteq Segment
  BY <1>3
<1>5. ASSUME NEW s \in planned
      PROVE  s.job = j /\ s.status \in {"PENDING", "SKIPPED_UNSUPPORTED"}
  <2>1. PICK p \in kept : s = Row(p)
    OBVIOUS
  <2>. QED
    BY <2>1
<1>. HIDE DEF planned
<1>. QED
  BY <1>1, <1>2, <1>4, <1>5

-----------------------------------------------------------------------------
(* The invariant: types, and between them what a job, its segments, the    *)
(* archive and the price rows say of each other.                           *)
NoJobNoSegments == \A j \in Jobs : jobs[j] = None => SegmentsOf(j) = {}

BackfillInv ==
  /\ BackfillTypeOK /\ IsFiniteSet(segments)
  /\ NoJobNoSegments /\ StatusMatchesSegments
  /\ RowsAreArchived /\ CompletedHaveRows

-----------------------------------------------------------------------------
(* One segment of a run.                                                   *)

(* What a fetched segment reads is well formed and finite.                 *)
LEMMA AnswerShape ==
  ASSUME BackfillTypeOK, NEW s \in segments, Fetches(s)
  PROVE  /\ s.market \in Markets /\ Answer(s) \in PayloadId
         /\ RowsOf(s) \subseteq PriceRow /\ IsFiniteSet(RowsOf(s))
<1>1. s \in Segment /\ s.market \in Markets /\ s.end \in Times
  BY DEF BackfillTypeOK, Fetches, SkippedAtRun, Segment
<1>2. Answer(s) \in PayloadId /\ Answer(s).points \subseteq Times
  <2>1. Points[s.market] \subseteq Times
    BY <1>1, BackfillAssumption
  <2>. QED
    BY <1>1, <2>1 DEF Answer, PayloadId
<1>3. RowsOf(s) \subseteq PriceRow
  BY <1>1, <1>2 DEF RowsOf, PriceRow
<1>4. IsFiniteSet(RowsOf(s))
  <2>. DEFINE Row(t) == [market |-> s.market, observed |-> t, available |-> s.end,
                         source |-> Answer(s)]
              f == [t \in Answer(s).points |-> Row(t)]
  <2>1. IsFiniteSet(Answer(s).points)
    BY <1>2, TimesFinite, FS_Subset
  <2>2. f \in Surjection(Answer(s).points, RowsOf(s))
    BY DEF Surjection, RowsOf
  <2>. QED
    BY <2>1, <2>2, FS_Surjection
<1>. QED
  BY <1>1, <1>2, <1>3, <1>4

LEMMA NewRowsShape ==
  ASSUME BackfillTypeOK, NEW s \in segments, Fetches(s), NEW answer, NEW force
  PROVE  /\ NewRows(s, answer, force) \subseteq RowsOf(s)
         /\ Cardinality(NewRows(s, answer, force)) \in Nat
<1>1. NewRows(s, answer, force) \subseteq RowsOf(s)
  BY DEF NewRows
<1>2. IsFiniteSet(RowsOf(s))
  BY AnswerShape
<1>. QED
  BY <1>1, <1>2, FS_Subset, FS_CardinalityType

(* What a run makes of a segment: its place in the plan stays, and its     *)
(* status says what happened to it.                                        *)
LEMMA RunSegmentShape ==
  ASSUME BackfillTypeOK, NEW s \in segments, NEW answer, NEW force
  PROVE  LET after == RunSegment(s, answer, force)
         IN  /\ after \in Segment
             /\ after.job = s.job /\ after.market = s.market /\ after.end = s.end
             /\ after.endpoint = s.endpoint /\ after.start = s.start
             /\ after.status = "SKIPPED_UNSUPPORTED" <=> ~Fetches(s)
             /\ after.status = "FAILED" <=> Fetches(s) /\ answer # "history"
             /\ after.status = "COMPLETED" <=> Fetches(s) /\ answer = "history"
             /\ s.status = "SKIPPED_UNSUPPORTED" => after = s
<1>1. s \in Segment
  BY DEF BackfillTypeOK
<1>2. CASE ~Tried(s)
  BY <1>1, <1>2 DEF RunSegment, Tried, Fetches
<1>3. CASE Tried(s) /\ SkippedAtRun(s)
  <2>1. RunSegment(s, answer, force) = [s EXCEPT !.status = "SKIPPED_UNSUPPORTED"]
    BY <1>3 DEF RunSegment
  <2>. QED
    BY <1>1, <1>3, <2>1 DEF Tried, Fetches, Segment, SegmentStatuses
<1>4. CASE Fetches(s) /\ answer # "history"
  <2>1. RunSegment(s, answer, force) = [s EXCEPT !.status = "FAILED", !.errors = @ + 1]
    BY <1>4 DEF RunSegment, Fetches
  <2>. DEFINE failed == [s EXCEPT !.status = "FAILED"]
  <2>2. /\ failed \in Segment /\ failed.status = "FAILED"
        /\ failed.job = s.job /\ failed.market = s.market /\ failed.end = s.end
        /\ failed.endpoint = s.endpoint /\ failed.start = s.start
        /\ failed.errors = s.errors
    BY <1>1 DEF Segment, SegmentStatuses
  <2>. HIDE DEF failed
  <2>3. RunSegment(s, answer, force) = [failed EXCEPT !.errors = failed.errors + 1]
    BY <2>1, <2>2 DEF failed
  <2>. QED
    BY <1>4, <2>2, <2>3 DEF Tried, Fetches, Segment
<1>5. CASE Fetches(s) /\ answer = "history"
  <2>1. PICK n \in Nat : n = Cardinality(NewRows(s, answer, force))
    BY <1>5, NewRowsShape
  <2>2. RunSegment(s, answer, force) =
          [s EXCEPT !.status = "COMPLETED", !.archived = 1, !.created = n]
    BY <1>5, <2>1 DEF RunSegment, Fetches
  <2>. DEFINE done == [s EXCEPT !.status = "COMPLETED"]
              stored == [done EXCEPT !.archived = 1]
  <2>3. /\ done \in Segment /\ done.status = "COMPLETED"
        /\ done.job = s.job /\ done.market = s.market /\ done.end = s.end
        /\ done.endpoint = s.endpoint /\ done.start = s.start
    BY <1>1 DEF Segment, SegmentStatuses
  <2>4. RunSegment(s, answer, force) = [stored EXCEPT !.created = n]
    BY <2>2
  <2>. HIDE DEF done
  <2>5. /\ stored \in Segment /\ stored.status = "COMPLETED"
        /\ stored.job = s.job /\ stored.market = s.market /\ stored.end = s.end
        /\ stored.endpoint = s.endpoint /\ stored.start = s.start
    BY <2>3 DEF Segment
  <2>. HIDE DEF stored
  <2>. QED
    BY <1>5, <2>4, <2>5 DEF Tried, Fetches, Segment
<1>. QED
  BY <1>2, <1>3, <1>4, <1>5 DEF Fetches

-----------------------------------------------------------------------------
(* The archive.                                                            *)

(* The latest of some times exists: their distances to the bound have a    *)
(* least element.                                                          *)
LEMMA LatestExists ==
  ASSUME NEW S \in SUBSET Times, S # {}
  PROVE  MaxOf(S) \in S /\ \A u \in S : u <= MaxOf(S)
<1>. DEFINE T == {MaxTime - t : t \in S}
<1>1. MaxTime \in Nat /\ T \subseteq Nat /\ T # {}
  BY BackfillAssumption DEF Times
<1>2. PICK x \in T : \A y \in T : ~ <<y, x>> \in OpToRel(<, Nat)
  BY <1>1, WFMin, NatLessThanWellFounded
<1>3. PICK t \in S : x = MaxTime - t
  OBVIOUS
<1>4. ASSUME NEW u \in S PROVE u <= t
  <2>1. MaxTime - u \in T /\ MaxTime - u \in Nat /\ x \in Nat
    BY <1>1
  <2>2. ~(MaxTime - u < x)
    BY <1>2, <2>1 DEF OpToRel
  <2>. QED
    BY <1>1, <1>3, <2>2 DEF Times
<1>. QED
  BY <1>4 DEF MaxOf

(* An archived answer was archived before or is the answer to a segment    *)
(* archived now; its capture time is a time.                               *)
LEMMA ArchiveShape ==
  ASSUME BackfillTypeOK, NEW archived \in SUBSET {s \in segments : Fetches(s)}
  PROVE  /\ DOMAIN Archive(archived) = DOMAIN payloads \cup {Answer(s) : s \in archived}
         /\ DOMAIN Archive(archived) \subseteq PayloadId
         /\ \A p \in DOMAIN Archive(archived) : Archive(archived)[p] \in Times
<1>1. DOMAIN Archive(archived) = DOMAIN payloads \cup {Answer(s) : s \in archived}
  BY DEF Archive
<1>2. DOMAIN Archive(archived) \subseteq PayloadId
  BY <1>1, AnswerShape DEF BackfillTypeOK
<1>3. ASSUME NEW p \in DOMAIN Archive(archived)
      PROVE  Archive(archived)[p] \in Times
  <2>. DEFINE ends == {s.end : s \in {x \in archived : Answer(x) = p}}
  <2>1. Archive(archived)[p] = IF ends = {} THEN payloads[p] ELSE MaxOf(ends)
    BY <1>1, <1>3 DEF Archive
  <2>2. ends \subseteq Times
    BY DEF BackfillTypeOK, Segment
  <2>3. CASE ends = {}
    <3>1. p \in DOMAIN payloads
      BY <1>1, <2>3
    <3>. QED
      BY <2>1, <2>3, <3>1 DEF BackfillTypeOK
  <2>4. CASE ends # {}
    BY <2>1, <2>2, <2>4, LatestExists
  <2>. QED
    BY <2>3, <2>4
<1>. QED
  BY <1>1, <1>2, <1>3

-----------------------------------------------------------------------------
(* The segments of a job after a run, and those of the other jobs.         *)
After(answers, force, s) ==
  RunSegment(s, IF Fetches(s) THEN answers[s] ELSE "history", force)

(* What a run makes of the segments and of the job.                        *)
LEMMA RunOfSegments ==
  ASSUME NEW j \in Jobs, NEW answers, NEW force, RunBackfillJob(j, answers, force)
  PROVE  segments' = (segments \ SegmentsOf(j))
                       \cup {After(answers, force, s) : s \in SegmentsOf(j)}
<1>1. \A s \in SegmentsOf(j) : s \in FetchedBy(j) <=> Fetches(s)
  BY DEF FetchedBy
<1>2. {RunSegment(s, IF s \in FetchedBy(j) THEN answers[s] ELSE "history", force) :
         s \in SegmentsOf(j)} = {After(answers, force, s) : s \in SegmentsOf(j)}
  BY <1>1 DEF After
<1>3. segments' = (segments \ SegmentsOf(j)) \cup
        {RunSegment(s, IF s \in FetchedBy(j) THEN answers[s] ELSE "history", force) :
           s \in SegmentsOf(j)}
  BY Zenon DEF RunBackfillJob
<1>. QED
  BY <1>2, <1>3

FailedOf(j, answers) == {s \in FetchedBy(j) : answers[s] # "history"}
StatusOf(j, answers) == IF FailedOf(j, answers) = {} THEN "COMPLETED" ELSE "PARTIAL"

LEMMA RunOfJob ==
  ASSUME NEW j \in Jobs, NEW answers, NEW force, RunBackfillJob(j, answers, force)
  PROVE  /\ jobs[j] # None
         /\ jobs' = [jobs EXCEPT
              ![j].status = StatusOf(j, answers),
              ![j].completed =
                 Cardinality({s \in SegmentsOf(j) : Tried(s)} \ FailedOf(j, answers)),
              ![j].failed = Cardinality(FailedOf(j, answers))]
BY Zenon DEF RunBackfillJob, FailedOf, StatusOf

LEMMA RunKeepsSegments ==
  ASSUME BackfillInv, NEW j \in Jobs, NEW answers, NEW force,
         RunBackfillJob(j, answers, force)
  PROVE  /\ segments' \subseteq Segment /\ IsFiniteSet(segments')
         /\ \A i \in Jobs : i # j => SegmentsOf(i)' = SegmentsOf(i)
         /\ SegmentsOf(j)' = {After(answers, force, s) : s \in SegmentsOf(j)}
<1>. DEFINE own == SegmentsOf(j)
            New(s) == After(answers, force, s)
            new == {New(s) : s \in own}
            f == [s \in own |-> New(s)]
<1>1. segments' = (segments \ own) \cup new
  BY RunOfSegments
<1>2. \A s \in own : New(s) \in Segment /\ New(s).job = j
  BY RunSegmentShape DEF After, SegmentsOf, BackfillInv
<1>3. segments \subseteq Segment /\ IsFiniteSet(segments)
  BY DEF BackfillInv, BackfillTypeOK
<1>4. IsFiniteSet(new)
  <2>1. IsFiniteSet(own)
    BY <1>3, FS_Subset DEF SegmentsOf
  <2>2. f \in Surjection(own, new)
    BY DEF Surjection
  <2>. QED
    BY <2>1, <2>2, FS_Surjection
<1>5. IsFiniteSet(segments \ own)
  BY <1>3, FS_Subset
<1>6. IsFiniteSet(segments')
  BY <1>1, <1>4, <1>5, FS_Union
<1>7. segments' \subseteq Segment
  BY <1>1, <1>2, <1>3
<1>8. ASSUME NEW i \in Jobs, i # j
      PROVE  SegmentsOf(i)' = SegmentsOf(i)
  BY <1>1, <1>2, <1>8 DEF SegmentsOf
<1>9. SegmentsOf(j)' = new
  BY <1>1, <1>2 DEF SegmentsOf
<1>. QED
  BY <1>6, <1>7, <1>8, <1>9

LEMMA RunKeepsJobs ==
  ASSUME BackfillInv, NEW j \in Jobs, NEW answers, NEW force,
         RunBackfillJob(j, answers, force)
  PROVE  /\ jobs' \in [Jobs -> Job \cup {None}]
         /\ \A i \in Jobs : jobs'[i] = None <=> jobs[i] = None
         /\ \A i \in Jobs : i # j => jobs'[i] = jobs[i]
         /\ jobs'[j].status = StatusOf(j, answers)
         /\ jobs'[j].request = jobs[j].request /\ jobs'[j].created = jobs[j].created
         /\ jobs'[j].failed = Cardinality(FailedOf(j, answers))
         /\ jobs'[j].completed =
              Cardinality({s \in SegmentsOf(j) : Tried(s)} \ FailedOf(j, answers))
<1>. DEFINE own == SegmentsOf(j)
            failed == FailedOf(j, answers)
            done == {s \in own : Tried(s)} \ failed
            status == StatusOf(j, answers)
<1>1. /\ jobs \in [Jobs -> Job \cup {None}] /\ jobs[j] # None
      /\ IsFiniteSet(segments)
  BY RunOfJob DEF BackfillInv, BackfillTypeOK
<1>2. PICK c, n \in Nat : c = Cardinality(done) /\ n = Cardinality(failed)
  <2>1. done \in SUBSET segments /\ failed \in SUBSET segments
    BY DEF FailedOf, FetchedBy, SegmentsOf
  <2>. QED
    BY <1>1, <2>1, FS_Subset, FS_CardinalityType
<1>. DEFINE a == [jobs[j] EXCEPT !.status = status]
            b == [a EXCEPT !.completed = c]
            d == [b EXCEPT !.failed = n]
<1>3. jobs' = [jobs EXCEPT ![j] = d]
  <2>1. jobs' = [jobs EXCEPT ![j].status = status, ![j].completed = Cardinality(done),
                             ![j].failed = Cardinality(failed)]
    BY RunOfJob
  <2>. QED
    BY <1>1, <1>2, <2>1
<1>4. a \in Job /\ a.status = status
      /\ a.request = jobs[j].request /\ a.created = jobs[j].created
  BY <1>1 DEF Job, JobStatuses, StatusOf
<1>5. b \in Job /\ b.status = status /\ b.completed = c
      /\ b.request = jobs[j].request /\ b.created = jobs[j].created
  <2>. HIDE DEF a, status
  <2>. QED
    BY <1>2, <1>4 DEF Job
<1>6. d \in Job /\ d.status = status /\ d.completed = c /\ d.failed = n
      /\ d.request = jobs[j].request /\ d.created = jobs[j].created
  <2>. HIDE DEF b, status
  <2>. QED
    BY <1>2, <1>5 DEF Job
<1>7. None \notin Job
  BY RequestsAssumption
<1>. HIDE DEF d
<1>. QED
  BY <1>1, <1>2, <1>3, <1>6, <1>7

(* What a run archives and stores for a fetched segment.                   *)
LEMMA RunStores ==
  ASSUME BackfillInv, NEW j \in Jobs, NEW answers, NEW force,
         RunBackfillJob(j, answers, force)
  PROVE  /\ DOMAIN payloads \subseteq DOMAIN payloads' /\ prices \subseteq prices'
         /\ DOMAIN payloads' \subseteq PayloadId
         /\ \A p \in DOMAIN payloads' : payloads'[p] \in Times
         /\ \A s \in FetchedBy(j) : answers[s] = "history" =>
               Answer(s) \in DOMAIN payloads' /\ RowsOf(s) \subseteq prices'
         /\ \A r \in prices' : r \in prices
               \/ \E s \in FetchedBy(j) : answers[s] = "history" /\ r \in RowsOf(s)
<1>. DEFINE archived == Archived(j, answers)
            new == {NewRows(s, answers[s], force) : s \in FetchedBy(j)}
<1>1. payloads' = Archive(archived) /\ prices' = prices \cup UNION new
  BY Zenon DEF RunBackfillJob
<1>2. archived \in SUBSET {s \in segments : Fetches(s)}
  BY DEF Archived, FetchedBy, SegmentsOf
<1>3. /\ DOMAIN payloads' = DOMAIN payloads \cup {Answer(s) : s \in archived}
      /\ DOMAIN payloads' \subseteq PayloadId
      /\ \A p \in DOMAIN payloads' : payloads'[p] \in Times
  BY <1>1, <1>2, ArchiveShape DEF BackfillInv
<1>4. ASSUME NEW s \in FetchedBy(j), answers[s] = "history"
      PROVE  Answer(s) \in DOMAIN payloads' /\ RowsOf(s) \subseteq prices'
  <2>1. s \in archived
    BY <1>4 DEF Archived
  <2>2. RowsOf(s) \subseteq prices \cup NewRows(s, answers[s], force)
    BY <1>4 DEF NewRows
  <2>. QED
    BY <1>1, <1>3, <2>1, <2>2
<1>5. ASSUME NEW r \in prices', r \notin prices
      PROVE  \E s \in FetchedBy(j) : answers[s] = "history" /\ r \in RowsOf(s)
  <2>1. PICK s \in FetchedBy(j) : r \in NewRows(s, answers[s], force)
    BY <1>1, <1>5
  <2>2. answers[s] = "history" /\ r \in RowsOf(s)
    BY <2>1 DEF NewRows
  <2>. QED
    BY <2>2
<1>. QED
  BY <1>1, <1>3, <1>4, <1>5

-----------------------------------------------------------------------------
(* Every action keeps the invariant.                                       *)

LEMMA InvInit == BackfillInit => BackfillInv
<1>. SUFFICES ASSUME BackfillInit PROVE BackfillInv
  OBVIOUS
<1>1. BackfillTypeOK
  BY BackfillAssumption DEF BackfillInit, BackfillTypeOK, Times
<1>2. IsFiniteSet(segments)
  BY FS_EmptySet DEF BackfillInit
<1>3. NoJobNoSegments /\ StatusMatchesSegments /\ RowsAreArchived /\ CompletedHaveRows
  BY DEF BackfillInit, NoJobNoSegments, StatusMatchesSegments, RowsAreArchived,
         CompletedHaveRows, SegmentsOf
<1>. QED
  BY <1>1, <1>2, <1>3 DEF BackfillInv

LEMMA CreateKeepsInv ==
  ASSUME BackfillInv, NEW j \in Jobs, NEW r \in Requests, r.end <= now,
         CreateBackfillJob(j, r)
  PROVE  BackfillInv'
<1>. DEFINE planned == PlanBackfillSegments(j, r)
            row == [request |-> r, status |-> "PENDING",
                    created |-> Cardinality(planned), completed |-> 0, failed |-> 0]
<1>1. /\ segments' = segments \cup planned /\ jobs' = [jobs EXCEPT ![j] = row]
      /\ jobs[j] = None /\ r.start <= r.end
      /\ UNCHANGED <<now, mapped, payloads, prices, ranJobs>>
  BY DEF CreateBackfillJob
<1>2. r \in Request
  BY RequestsAssumption
<1>3. /\ IsFiniteSet(planned) /\ planned \subseteq Segment
      /\ \A s \in planned : s.job = j /\ s.status \in {"PENDING", "SKIPPED_UNSUPPORTED"}
  BY <1>1, <1>2, PlanShape
<1>4. row \in Job
  <2>1. Cardinality(planned) \in Nat
    BY <1>3, FS_CardinalityType
  <2>. HIDE DEF planned
  <2>. QED
    BY <1>2, <2>1 DEF Job, JobStatuses
<1>5. row # None /\ row.status = "PENDING"
  BY <1>4, RequestsAssumption
<1>6. /\ jobs \in [Jobs -> Job \cup {None}] /\ segments \subseteq Segment
      /\ IsFiniteSet(segments) /\ SegmentsOf(j) = {}
  BY <1>1 DEF BackfillInv, BackfillTypeOK, NoJobNoSegments
<1>. HIDE DEF row, planned
<1>7. jobs' \in [Jobs -> Job \cup {None}] /\ jobs'[j] = row
  BY <1>1, <1>4, <1>6
<1>8. BackfillTypeOK'
  BY <1>1, <1>3, <1>6, <1>7 DEF BackfillInv, BackfillTypeOK
<1>9. IsFiniteSet(segments')
  BY <1>1, <1>3, <1>6, FS_Union
<1>10. SegmentsOf(j)' = planned
  BY <1>1, <1>3, <1>6 DEF SegmentsOf
<1>11. ASSUME NEW i \in Jobs, i # j
       PROVE  SegmentsOf(i)' = SegmentsOf(i) /\ jobs'[i] = jobs[i]
  BY <1>1, <1>3, <1>6, <1>11 DEF SegmentsOf
<1>12. NoJobNoSegments'
  BY <1>5, <1>7, <1>11 DEF BackfillInv, NoJobNoSegments
<1>13. StatusMatchesSegments'
  <2>. SUFFICES ASSUME NEW i \in Jobs, jobs'[i] # None
                PROVE  jobs'[i].status = "PARTIAL" <=>
                         \E s \in SegmentsOf(i)' : s.status = "FAILED"
    BY DEF StatusMatchesSegments
  <2>1. CASE i = j
    BY <1>3, <1>5, <1>7, <1>10, <2>1
  <2>2. CASE i # j
    BY <1>11, <2>2 DEF BackfillInv, StatusMatchesSegments
  <2>. QED
    BY <2>1, <2>2
<1>14. RowsAreArchived' /\ CompletedHaveRows'
  BY <1>1, <1>3 DEF BackfillInv, RowsAreArchived, CompletedHaveRows
<1>. QED
  BY <1>8, <1>9, <1>12, <1>13, <1>14 DEF BackfillInv

LEMMA RunKeepsInv ==
  ASSUME BackfillInv, NEW j \in Jobs, NEW answers, NEW force,
         RunBackfillJob(j, answers, force)
  PROVE  BackfillInv'
<1>. DEFINE own == SegmentsOf(j)
            New(s) == After(answers, force, s)
<1>1. /\ segments' = (segments \ own) \cup {New(s) : s \in own}
      /\ segments' \subseteq Segment /\ IsFiniteSet(segments')
      /\ \A i \in Jobs : i # j => SegmentsOf(i)' = SegmentsOf(i)
      /\ SegmentsOf(j)' = {New(s) : s \in own}
  BY RunOfSegments, RunKeepsSegments
<1>2. /\ jobs' \in [Jobs -> Job \cup {None}] /\ jobs[j] # None
      /\ \A i \in Jobs : jobs'[i] = None <=> jobs[i] = None
      /\ \A i \in Jobs : i # j => jobs'[i] = jobs[i]
      /\ jobs'[j].status = StatusOf(j, answers)
  BY RunOfJob, RunKeepsJobs
<1>3. ASSUME NEW s \in own
      PROVE  /\ New(s).market = s.market /\ New(s).end = s.end
             /\ New(s).status = "FAILED" <=> s \in FailedOf(j, answers)
             /\ New(s).status = "COMPLETED" <=>
                   s \in FetchedBy(j) /\ answers[s] = "history"
  BY RunSegmentShape DEF After, FailedOf, FetchedBy, SegmentsOf, BackfillInv
<1>. HIDE DEF New
<1>4. BackfillTypeOK'
  <2>1. prices' \subseteq PriceRow
    BY RunStores, AnswerShape DEF FetchedBy, SegmentsOf, BackfillInv, BackfillTypeOK
  <2>2. DOMAIN payloads' \subseteq PayloadId /\ \A p \in DOMAIN payloads' : payloads'[p] \in Times
    BY RunStores
  <2>3. ranJobs' \in 0 .. MaxRuns /\ UNCHANGED <<now, mapped>>
    <3>1. ranJobs < MaxRuns /\ ranJobs' = ranJobs + 1 /\ UNCHANGED <<now, mapped>>
      BY Zenon DEF RunBackfillJob
    <3>. QED
      BY <3>1, BackfillAssumption DEF BackfillInv, BackfillTypeOK
  <2>. QED
    BY <1>1, <1>2, <2>1, <2>2, <2>3 DEF BackfillInv, BackfillTypeOK
<1>5. NoJobNoSegments'
  <2>. SUFFICES ASSUME NEW i \in Jobs, jobs'[i] = None
                PROVE  SegmentsOf(i)' = {}
    BY DEF NoJobNoSegments
  <2>1. i # j /\ jobs[i] = None
    BY <1>2
  <2>. QED
    BY <1>1, <2>1 DEF BackfillInv, NoJobNoSegments
<1>6. StatusMatchesSegments'
  <2>. SUFFICES ASSUME NEW i \in Jobs, jobs'[i] # None
                PROVE  jobs'[i].status = "PARTIAL" <=>
                         \E s \in SegmentsOf(i)' : s.status = "FAILED"
    BY DEF StatusMatchesSegments
  <2>1. CASE i = j
    <3>1. jobs'[j].status = "PARTIAL" <=> FailedOf(j, answers) # {}
      BY <1>2 DEF StatusOf
    <3>2. FailedOf(j, answers) \subseteq own
      BY DEF FailedOf, FetchedBy
    <3>. QED
      BY <1>1, <1>3, <2>1, <3>1, <3>2
  <2>2. CASE i # j
    BY <1>1, <1>2, <2>2 DEF BackfillInv, StatusMatchesSegments
  <2>. QED
    BY <2>1, <2>2
<1>7. RowsAreArchived'
  <2>. SUFFICES ASSUME NEW r \in prices'
                PROVE  r.source \in DOMAIN payloads' /\ r.observed \in r.source.points
    BY DEF RowsAreArchived
  <2>1. CASE r \in prices
    BY <2>1, RunStores DEF BackfillInv, RowsAreArchived
  <2>2. CASE \E s \in FetchedBy(j) : answers[s] = "history" /\ r \in RowsOf(s)
    BY <2>2, RunStores DEF RowsOf
  <2>. QED
    BY <2>1, <2>2, RunStores
<1>8. CompletedHaveRows'
  <2>. DEFINE Kept(m, end, p) ==
                \A t \in p.points :
                  [market |-> m, observed |-> t, available |-> end, source |-> p] \in prices'
  <2>. SUFFICES ASSUME NEW s \in segments', s.status = "COMPLETED"
                PROVE  \E p \in DOMAIN payloads' : p.market = s.market /\ Kept(s.market, s.end, p)
    BY DEF CompletedHaveRows
  <2>1. CASE s \in segments
    <3>1. PICK p \in DOMAIN payloads :
            /\ p.market = s.market
            /\ \A t \in p.points :
                 [market |-> s.market, observed |-> t, available |-> s.end, source |-> p]
                   \in prices
      BY <2>1 DEF BackfillInv, CompletedHaveRows
    <3>. QED
      BY <3>1, RunStores
  <2>2. CASE \E x \in own : s = New(x)
    <3>1. PICK x \in own : s = New(x)
      BY <2>2
    <3>2. /\ x \in FetchedBy(j) /\ answers[x] = "history"
          /\ s.market = x.market /\ s.end = x.end
      BY <1>3, <3>1
    <3>3. Answer(x) \in DOMAIN payloads' /\ RowsOf(x) \subseteq prices'
      BY <3>2, RunStores
    <3>4. Answer(x).market = x.market /\ Kept(x.market, x.end, Answer(x))
      BY <3>3 DEF RowsOf, Answer
    <3>. QED
      BY <3>2, <3>3, <3>4
  <2>. QED
    BY <1>1, <2>1, <2>2
<1>. QED
  BY <1>1, <1>4, <1>5, <1>6, <1>7, <1>8 DEF BackfillInv

LEMMA InvStep ==
  ASSUME BackfillInv, [BackfillNext]_backfillVars
  PROVE  BackfillInv'
<1>. USE DEF BackfillInv, BackfillTypeOK, NoJobNoSegments, StatusMatchesSegments,
         RowsAreArchived, CompletedHaveRows, SegmentsOf
<1>1. ASSUME NEW j \in Jobs, NEW r \in Requests, r.end <= now, CreateBackfillJob(j, r)
      PROVE  BackfillInv'
  BY <1>1, CreateKeepsInv
<1>2. ASSUME NEW j \in Jobs, NEW answers, NEW force, RunBackfillJob(j, answers, force)
      PROVE  BackfillInv'
  BY <1>2, RunKeepsInv
<1>3. ASSUME NEW m \in Markets, MapMarket(m)
      PROVE  BackfillInv'
  BY <1>3 DEF MapMarket
<1>4. CASE BackfillTick
  BY <1>4, BackfillAssumption DEF BackfillTick, Times
<1>5. CASE UNCHANGED backfillVars
  BY <1>5 DEF backfillVars
<1>. QED
  BY <1>1, <1>2, <1>3, <1>4, <1>5 DEF BackfillNext

LEMMA InvHolds == BackfillSpec => []BackfillInv
BY InvInit, InvStep, PTL DEF BackfillSpec

-----------------------------------------------------------------------------
(* The windows of a plan.                                                  *)

(* The quotient is the only multiple of the interval a number follows.     *)
LEMMA QuotientBounds ==
  ASSUME NEW n \in Nat, NEW i \in Nat \ {0}
  PROVE  n \div i \in Nat /\ (n \div i) * i <= n /\ n < (n \div i) * i + i
OBVIOUS

LEMMA LargerFactor ==
  ASSUME NEW i \in Nat \ {0}, NEW k \in Nat, NEW l \in Nat, k < l
  PROVE  k * i + i <= l * i
<1>1. PICK d \in Nat : l = k + 1 + d
  <2>1. l - k - 1 \in Nat /\ l = k + 1 + (l - k - 1)
    OBVIOUS
  <2>. QED
    BY <2>1
<1>2. l * i = k * i + i + d * i
  BY <1>1
<1>3. d * i \in Nat /\ k * i \in Nat
  OBVIOUS
<1>. QED
  BY <1>2, <1>3

LEMMA QuotientsGrow ==
  ASSUME NEW i \in Nat \ {0}, NEW d \in Nat, NEW n \in Nat, d <= n
  PROVE  d \div i <= n \div i
<1>1. PICK k, l \in Nat : k = d \div i /\ l = n \div i
  BY QuotientBounds
<1>2. k * i <= d /\ n < l * i + i /\ k * i \in Nat /\ l * i \in Nat
  BY <1>1, QuotientBounds
<1>3. CASE l < k
  BY <1>2, <1>3, LargerFactor
<1>. QED
  BY <1>1, <1>3

LEMMA OneMultiple ==
  ASSUME NEW i \in Nat \ {0}, NEW d \in Nat, NEW k \in Nat, NEW l \in Nat,
         k * i <= d, d < k * i + i, l * i <= d, d < l * i + i
  PROVE  k = l
<1>0. k * i \in Nat /\ l * i \in Nat
  OBVIOUS
<1>1. CASE k < l
  BY <1>0, <1>1, LargerFactor
<1>2. CASE l < k
  BY <1>0, <1>2, LargerFactor
<1>. QED
  BY <1>1, <1>2

(* Every instant of a range lies in exactly one of its windows.            *)
LEMMA OneWindowEach ==
  ASSUME NEW start \in Times, NEW end \in Times, start <= end,
         NEW interval \in (Times \ {0}) \cup {None}, NEW t \in start .. (end - 1)
  PROVE  \E w \in Windows(start, end, interval) :
           \A v \in Windows(start, end, interval) : v[1] <= t /\ t < v[2] <=> v = w
<1>. USE BackfillAssumption
<1>1. start \in Nat /\ end \in Nat /\ t \in Nat /\ start # end
  BY DEF Times
<1>2. CASE interval = None
  <2>1. Windows(start, end, interval) = {<<start, end>>}
    BY <1>2 DEF Windows
  <2>. QED
    BY <1>1, <2>1
<1>3. CASE interval # None
  <2>1. interval \in Nat \ {0}
    BY <1>3 DEF Times
  <2>2. PICK n, d \in Nat : n = end - start - 1 /\ d = t - start
    BY <1>1
  <2>. DEFINE Window(k) == <<start + k * interval, Lesser(start + (k + 1) * interval, end)>>
  <2>3. Windows(start, end, interval) = {Window(k) : k \in 0 .. (n \div interval)}
    BY <1>1, <1>3, <2>2 DEF Windows
  <2>4. ASSUME NEW k \in Nat
        PROVE  /\ Window(k)[1] <= t <=> k * interval <= d
               /\ t < Window(k)[2] <=> d < k * interval + interval
    <3>1. k * interval \in Nat /\ (k + 1) * interval = k * interval + interval
      BY <2>1
    <3>2. PICK x \in Nat : x = k * interval
      BY <3>1
    <3>3. Window(k) = <<start + x, Lesser(start + x + interval, end)>>
      BY <1>1, <2>1, <3>1, <3>2
    <3>4. start + x <= t <=> x <= d
      BY <1>1, <2>2, <3>2
    <3>5. t < Lesser(start + x + interval, end) <=> d < x + interval
      BY <1>1, <2>1, <2>2, <3>2 DEF Lesser
    <3>. QED
      BY <3>2, <3>3, <3>4, <3>5
  <2>. HIDE DEF Window
  <2>5. PICK k \in Nat : k = d \div interval
    BY <2>1, QuotientBounds
  <2>6. k * interval <= d /\ d < k * interval + interval
    BY <2>1, <2>5, QuotientBounds
  <2>7. k \in 0 .. (n \div interval)
    <3>1. d <= n
      BY <1>1, <2>2
    <3>2. k <= n \div interval /\ n \div interval \in Nat
      BY <2>1, <2>5, <3>1, QuotientsGrow, QuotientBounds
    <3>. QED
      BY <3>2
  <2>8. ASSUME NEW l \in 0 .. (n \div interval), Window(l)[1] <= t, t < Window(l)[2]
        PROVE  Window(l) = Window(k)
    <3>1. l \in Nat
      OBVIOUS
    <3>2. l * interval <= d /\ d < l * interval + interval
      BY <2>4, <2>8, <3>1
    <3>3. l = k
      BY <2>1, <2>6, <3>1, <3>2, OneMultiple
    <3>. QED
      BY <3>3
  <2>9. Window(k)[1] <= t /\ t < Window(k)[2]
    BY <2>4, <2>6
  <2>. QED
    BY <2>3, <2>7, <2>8, <2>9
<1>. QED
  BY <1>2, <1>3

-----------------------------------------------------------------------------
(* The planner's loops order the pieces: strictly, whatever the ranks.     *)
LEMMA PlannedInOrder ==
  ASSUME NEW r \in Request, r.start <= r.end,
         NEW p \in Pieces(r), NEW q \in Pieces(r), NEW u \in Pieces(r)
  PROVE  ~PlannedBefore(p, p) /\ (PlannedBefore(p, q) /\ PlannedBefore(q, u) => PlannedBefore(p, u))
<1>1. \A x \in Pieces(r) : Rank[x[1]] \in Int /\ Rank[x[2]] \in Int /\ x[3][1] \in Int
  <2>. SUFFICES ASSUME NEW x \in Pieces(r)
                PROVE  Rank[x[1]] \in Int /\ Rank[x[2]] \in Int /\ x[3][1] \in Int
    OBVIOUS
  <2>1. x[1] \in Markets \cup {None} /\ x[2] \in EndpointTypes
        /\ x[3] \in Windows(r.start, r.end, r.interval)
    BY DEF Pieces, Request
  <2>2. x[3][1] \in Times
    BY <2>1, WindowsInRange DEF Request
  <2>. QED
    BY <2>1, <2>2, RankAssumption, BackfillAssumption DEF Times
<1>. QED
  BY <1>1 DEF PlannedBefore

EarlierPieces(r, p) == {q \in Pieces(r) : PlannedBefore(q, p)}
KeptPieces(r) == {p \in Pieces(r) : Cardinality(EarlierPieces(r, p)) < r.max}

(* Fewer pieces than the cut: then none was cut.                           *)
LEMMA UncutPlan ==
  ASSUME NEW r \in Request, r.start <= r.end, Cardinality(KeptPieces(r)) < r.max
  PROVE  KeptPieces(r) = Pieces(r)
<1>. DEFINE cut == Pieces(r) \ KeptPieces(r)
            n(p) == Cardinality(EarlierPieces(r, p))
<1>1. IsFiniteSet(Pieces(r)) /\ r.max \in Nat
  BY PiecesFinite DEF Request
<1>2. \A p \in Pieces(r) : IsFiniteSet(EarlierPieces(r, p)) /\ n(p) \in Nat
  BY <1>1, FS_Subset, FS_CardinalityType DEF EarlierPieces
<1>3. SUFFICES ASSUME cut # {} PROVE FALSE
  BY DEF KeptPieces
<1>4. PICK p \in cut : \A q \in cut : n(p) <= n(q)
  <2>. DEFINE S == {n(x) : x \in cut}
  <2>1. S \in SUBSET Nat /\ S # {}
    BY <1>2, <1>3
  <2>. HIDE DEF S
  <2>2. PICK m \in S : \A k \in S : m <= k
    BY <2>1, LeastNatural
  <2>. QED
    BY <2>2 DEF S
<1>5. ASSUME NEW q \in EarlierPieces(r, p)
      PROVE  q \in KeptPieces(r)
  <2>1. q \in Pieces(r) /\ PlannedBefore(q, p) /\ p \in Pieces(r)
    BY <1>5 DEF EarlierPieces
  <2>2. EarlierPieces(r, q) \subseteq EarlierPieces(r, p) /\ q \notin EarlierPieces(r, q)
    BY <2>1, PlannedInOrder DEF EarlierPieces
  <2>3. n(q) < n(p)
    <3>1. IsFiniteSet(EarlierPieces(r, p)) /\ n(p) \in Nat /\ n(q) \in Nat
      BY <1>2, <2>1
    <3>2. EarlierPieces(r, q) # EarlierPieces(r, p)
      BY <1>5, <2>2
    <3>3. n(q) <= n(p) /\ (n(p) = n(q) => EarlierPieces(r, p) = EarlierPieces(r, q))
      BY <2>2, <3>1, FS_Subset
    <3>. QED
      BY <3>1, <3>2, <3>3
  <2>. QED
    BY <1>2, <1>4, <2>1, <2>3
<1>6. n(p) <= Cardinality(KeptPieces(r)) /\ Cardinality(KeptPieces(r)) \in Nat
  <2>1. IsFiniteSet(KeptPieces(r))
    BY <1>1, FS_Subset DEF KeptPieces
  <2>. QED
    BY <1>5, <2>1, FS_Subset, FS_CardinalityType
<1>7. ~(n(p) < r.max) /\ n(p) \in Nat
  BY <1>2, <1>4 DEF KeptPieces
<1>. QED
  BY <1>1, <1>6, <1>7

Place(s) == <<s.market, s.endpoint, <<s.start, s.end>>>>

(* The segments of a plan stand for the pieces it keeps, one for each.     *)
LEMMA PlanPlaces ==
  ASSUME NEW j \in Jobs, NEW r \in Request, r.start <= r.end
  PROVE  LET planned == PlanBackfillSegments(j, r)
         IN  /\ \A s, t \in planned : Place(s) = Place(t) => s = t
             /\ {Place(s) : s \in planned} = KeptPieces(r)
             /\ Cardinality(planned) = Cardinality(KeptPieces(r))
<1>. DEFINE Row(p) == [job |-> j, market |-> p[1], endpoint |-> p[2],
                       start |-> p[3][1], end |-> p[3][2],
                       status |-> IF Supported(r.venue, p[2]) THEN "PENDING"
                                  ELSE "SKIPPED_UNSUPPORTED",
                       archived |-> 0, created |-> 0, errors |-> 0]
            kept == KeptPieces(r)
            f == [p \in kept |-> Row(p)]
            planned == {Row(p) : p \in kept}
<1>1. PlanBackfillSegments(j, r) = planned
  BY DEF PlanBackfillSegments, KeptPieces, EarlierPieces
<1>2. ASSUME NEW p \in kept
      PROVE  Place(Row(p)) = p
  <2>1. p \in Pieces(r) /\ p[3] \in Windows(r.start, r.end, r.interval)
    BY DEF KeptPieces, Pieces
  <2>2. p = <<p[1], p[2], p[3]>>
    BY <2>1 DEF Pieces
  <2>3. p[3] = <<p[3][1], p[3][2]>>
    BY <2>1, WindowsInRange DEF Request
  <2>. QED
    BY <2>2, <2>3 DEF Place
<1>. HIDE DEF Row
<1>3. Cardinality(planned) = Cardinality(kept)
  <2>1. IsFiniteSet(kept)
    BY PiecesFinite, FS_Subset DEF KeptPieces
  <2>2. f \in Surjection(kept, planned)
    BY DEF Surjection
  <2>3. f \in Injection(kept, planned)
    BY <1>2 DEF Injection, IsInjective
  <2>. QED
    BY <2>1, <2>2, <2>3, FS_Surjection
<1>. QED
  BY <1>1, <1>2, <1>3

-----------------------------------------------------------------------------
(* What makes a job add up: no two segments of a job stand for one piece,  *)
(* a plan that was not cut still has all its pieces, and the counters.     *)
OnePerPiece == \A s, t \in segments : s.job = t.job /\ Place(s) = Place(t) => s = t

PlacesOf(j) == {Place(s) : s \in SegmentsOf(j)}

PlansAreWhole ==
  \A j \in Jobs : jobs[j] # None =>
    /\ jobs[j].request.start <= jobs[j].request.end
    /\ jobs[j].created = Cardinality(SegmentsOf(j))
    /\ jobs[j].created < jobs[j].request.max => PlacesOf(j) = Pieces(jobs[j].request)

AddsUpInv == BackfillInv /\ OnePerPiece /\ PlansAreWhole /\ CountersMatchSegments

Having(j, status) == {s \in SegmentsOf(j) : s.status = status}

CountersOf(j) ==
  (jobs[j] # None /\ jobs[j].status # "PENDING") =>
    /\ jobs[j].created = Cardinality(SegmentsOf(j))
    /\ jobs[j].failed = Cardinality(Having(j, "FAILED"))
    /\ jobs[j].completed >= Cardinality(Having(j, "COMPLETED"))
    /\ jobs[j].completed - Cardinality(Having(j, "COMPLETED"))
         <= Cardinality(Having(j, "SKIPPED_UNSUPPORTED"))

LEMMA CountersByJob == CountersMatchSegments <=> \A j \in Jobs : CountersOf(j)
BY DEF CountersMatchSegments, CountersOf, Having

LEMMA AddsUpInit == BackfillInit => AddsUpInv
BY InvInit DEF BackfillInit, AddsUpInv, OnePerPiece, PlansAreWhole, CountersMatchSegments

LEMMA CreateAddsUp ==
  ASSUME AddsUpInv, NEW j \in Jobs, NEW r \in Requests, CreateBackfillJob(j, r)
  PROVE  OnePerPiece' /\ PlansAreWhole' /\ CountersMatchSegments'
<1>. DEFINE planned == PlanBackfillSegments(j, r)
            row == [request |-> r, status |-> "PENDING",
                    created |-> Cardinality(planned), completed |-> 0, failed |-> 0]
<1>1. /\ segments' = segments \cup planned /\ jobs' = [jobs EXCEPT ![j] = row]
      /\ jobs[j] = None /\ r.start <= r.end
  BY DEF CreateBackfillJob
<1>2. r \in Request
  BY RequestsAssumption
<1>3. /\ \A s \in planned : s.job = j
      /\ \A s, t \in planned : Place(s) = Place(t) => s = t
      /\ {Place(s) : s \in planned} = KeptPieces(r)
      /\ Cardinality(planned) = Cardinality(KeptPieces(r))
  BY <1>1, <1>2, PlanShape, PlanPlaces
<1>4. jobs \in [Jobs -> Job \cup {None}] /\ SegmentsOf(j) = {}
  BY <1>1 DEF AddsUpInv, BackfillInv, BackfillTypeOK, NoJobNoSegments
<1>5. row.request = r /\ row.status = "PENDING" /\ row.created = Cardinality(planned)
  OBVIOUS
<1>. HIDE DEF row, planned
<1>6. jobs'[j] = row /\ SegmentsOf(j)' = planned
  BY <1>1, <1>3, <1>4 DEF SegmentsOf
<1>7. ASSUME NEW i \in Jobs, i # j
      PROVE  SegmentsOf(i)' = SegmentsOf(i) /\ jobs'[i] = jobs[i]
  BY <1>1, <1>3, <1>4, <1>7 DEF SegmentsOf
<1>8. OnePerPiece'
  <2>. SUFFICES ASSUME NEW s \in segments', NEW t \in segments',
                       s.job = t.job, Place(s) = Place(t)
                PROVE  s = t
    BY DEF OnePerPiece, Place
  <2>1. CASE s.job = j
    BY <1>3, <1>6, <2>1 DEF SegmentsOf
  <2>2. CASE s.job # j
    BY <1>1, <1>3, <2>2 DEF AddsUpInv, OnePerPiece
  <2>. QED
    BY <2>1, <2>2
<1>9. PlansAreWhole'
  <2>. SUFFICES ASSUME NEW i \in Jobs, jobs'[i] # None
                PROVE  /\ jobs'[i].request.start <= jobs'[i].request.end
                       /\ jobs'[i].created = Cardinality(SegmentsOf(i)')
                       /\ jobs'[i].created < jobs'[i].request.max =>
                            PlacesOf(i)' = Pieces(jobs'[i].request)
    BY DEF PlansAreWhole
  <2>1. CASE i = j
    <3>1. PlacesOf(j)' = KeptPieces(r)
      BY <1>3, <1>6 DEF PlacesOf, Place
    <3>2. Cardinality(planned) < r.max => KeptPieces(r) = Pieces(r)
      BY <1>1, <1>2, <1>3, UncutPlan
    <3>. QED
      BY <1>1, <1>5, <1>6, <2>1, <3>1, <3>2
  <2>2. CASE i # j
    <3>1. PlacesOf(i)' = PlacesOf(i)
      BY <1>7, <2>2 DEF PlacesOf, Place
    <3>. QED
      BY <1>7, <2>2, <3>1 DEF AddsUpInv, PlansAreWhole
  <2>. QED
    BY <2>1, <2>2
<1>10. CountersMatchSegments'
  <2>. SUFFICES ASSUME NEW i \in Jobs PROVE CountersOf(i)'
    BY DEF CountersMatchSegments, CountersOf, Having
  <2>1. CASE i = j
    BY <1>5, <1>6, <2>1 DEF CountersOf
  <2>2. CASE i # j
    BY <1>7, <2>2, CountersByJob DEF AddsUpInv, CountersOf, Having
  <2>. QED
    BY <2>1, <2>2
<1>. QED
  BY <1>8, <1>9, <1>10

(* A run moves no segment to another piece, so it keeps their number, and   *)
(* that of any of them.                                                     *)
LEMMA RunCounts ==
  ASSUME AddsUpInv, NEW j \in Jobs, NEW answers, NEW force,
         NEW S \in SUBSET SegmentsOf(j)
  PROVE  LET after == {After(answers, force, s) : s \in S}
         IN  IsFiniteSet(S) /\ IsFiniteSet(after) /\ Cardinality(after) = Cardinality(S)
<1>. DEFINE New(s) == After(answers, force, s)
            f == [s \in S |-> New(s)]
            T == {New(s) : s \in S}
<1>1. IsFiniteSet(S)
  BY FS_Subset DEF AddsUpInv, BackfillInv, SegmentsOf
<1>2. \A s \in SegmentsOf(j) : Place(New(s)) = Place(s)
  BY RunSegmentShape DEF AddsUpInv, BackfillInv, SegmentsOf, After, Place
<1>. HIDE DEF New
<1>3. \A s, t \in S : New(s) = New(t) => s = t
  BY <1>2 DEF AddsUpInv, OnePerPiece, SegmentsOf
<1>4. f \in Surjection(S, T)
  BY DEF Surjection
<1>5. f \in Injection(S, T)
  BY <1>3 DEF Injection, IsInjective
<1>6. IsFiniteSet(T) /\ Cardinality(T) = Cardinality(S)
  BY <1>1, <1>4, <1>5, FS_Surjection
<1>. QED
  BY <1>1, <1>6 DEF New

LEMMA RunAddsUp ==
  ASSUME AddsUpInv, NEW j \in Jobs, NEW answers, NEW force,
         RunBackfillJob(j, answers, force)
  PROVE  OnePerPiece' /\ PlansAreWhole' /\ CountersMatchSegments'
<1>. DEFINE own == SegmentsOf(j)
            New(s) == After(answers, force, s)
            done == {s \in own : Fetches(s) /\ answers[s] = "history"}
            skipped == {s \in own : ~Fetches(s)}
            dropped == {s \in own : Tried(s) /\ ~Fetches(s)}
<1>1. /\ \A i \in Jobs : i # j => SegmentsOf(i)' = SegmentsOf(i)
      /\ SegmentsOf(j)' = {New(s) : s \in own}
      /\ segments' = (segments \ own) \cup {New(s) : s \in own}
  BY RunKeepsSegments, RunOfSegments DEF AddsUpInv
<1>2. /\ jobs[j] # None /\ \A i \in Jobs : i # j => jobs'[i] = jobs[i]
      /\ jobs'[j] # None /\ jobs'[j].request = jobs[j].request
      /\ jobs'[j].created = jobs[j].created
      /\ jobs'[j].failed = Cardinality(FailedOf(j, answers))
      /\ jobs'[j].completed = Cardinality({s \in own : Tried(s)} \ FailedOf(j, answers))
  BY RunKeepsJobs, RunOfJob DEF AddsUpInv
<1>3. ASSUME NEW s \in own
      PROVE  /\ Place(New(s)) = Place(s) /\ New(s).job = j
             /\ New(s).status = "SKIPPED_UNSUPPORTED" <=> s \in skipped
             /\ New(s).status = "FAILED" <=> s \in FailedOf(j, answers)
             /\ New(s).status = "COMPLETED" <=> s \in done
  BY RunSegmentShape DEF After, FailedOf, FetchedBy, SegmentsOf, AddsUpInv, BackfillInv, Place
<1>. HIDE DEF New, done, skipped
<1>4. OnePerPiece'
  <2>. SUFFICES ASSUME NEW s \in segments', NEW t \in segments',
                       s.job = t.job, Place(s) = Place(t)
                PROVE  s = t
    BY DEF OnePerPiece, Place
  <2>1. CASE s.job = j
    <3>1. s \in SegmentsOf(j)' /\ t \in SegmentsOf(j)'
      BY <2>1 DEF SegmentsOf
    <3>2. PICK x \in own, y \in own : s = New(x) /\ t = New(y)
      BY <1>1, <3>1
    <3>3. Place(x) = Place(y)
      BY <1>3, <3>2
    <3>. QED
      BY <3>2, <3>3 DEF AddsUpInv, OnePerPiece, SegmentsOf
  <2>2. CASE s.job # j
    BY <1>1, <1>3, <2>2 DEF AddsUpInv, OnePerPiece, SegmentsOf
  <2>. QED
    BY <2>1, <2>2
<1>5. Cardinality(SegmentsOf(j)') = Cardinality(own)
  BY <1>1, RunCounts DEF New
<1>6. PlansAreWhole'
  <2>. SUFFICES ASSUME NEW i \in Jobs, jobs'[i] # None
                PROVE  /\ jobs'[i].request.start <= jobs'[i].request.end
                       /\ jobs'[i].created = Cardinality(SegmentsOf(i)')
                       /\ jobs'[i].created < jobs'[i].request.max =>
                            PlacesOf(i)' = Pieces(jobs'[i].request)
    BY DEF PlansAreWhole
  <2>1. CASE i = j
    <3>1. PlacesOf(j)' = PlacesOf(j)
      <4>1. PlacesOf(j)' = {Place(New(s)) : s \in own}
        BY <1>1 DEF PlacesOf, Place
      <4>. QED
        BY <1>3, <4>1 DEF PlacesOf
    <3>. QED
      BY <1>2, <1>5, <2>1, <3>1 DEF AddsUpInv, PlansAreWhole
  <2>2. CASE i # j
    <3>1. PlacesOf(i)' = PlacesOf(i)
      BY <1>1, <2>2 DEF PlacesOf, Place
    <3>. QED
      BY <1>1, <1>2, <2>2, <3>1 DEF AddsUpInv, PlansAreWhole
  <2>. QED
    BY <2>1, <2>2
<1>7. /\ Having(j, "FAILED")' = {New(s) : s \in FailedOf(j, answers)}
      /\ Having(j, "COMPLETED")' = {New(s) : s \in done}
      /\ Having(j, "SKIPPED_UNSUPPORTED")' = {New(s) : s \in skipped}
  <2>1. FailedOf(j, answers) \subseteq own /\ done \subseteq own /\ skipped \subseteq own
    BY DEF FailedOf, FetchedBy, done, skipped
  <2>. QED
    BY <1>1, <1>3, <2>1 DEF Having
<1>8. /\ Cardinality(Having(j, "FAILED")') = Cardinality(FailedOf(j, answers))
      /\ Cardinality(Having(j, "COMPLETED")') = Cardinality(done)
      /\ Cardinality(Having(j, "SKIPPED_UNSUPPORTED")') = Cardinality(skipped)
      /\ IsFiniteSet(done) /\ IsFiniteSet(skipped)
  <2>1. FailedOf(j, answers) \subseteq own /\ done \subseteq own /\ skipped \subseteq own
    BY DEF FailedOf, FetchedBy, done, skipped
  <2>2. \A S \in SUBSET own : IsFiniteSet(S) /\ Cardinality({New(s) : s \in S}) = Cardinality(S)
    BY RunCounts DEF New
  <2>. QED
    BY <1>7, <2>1, <2>2
<1>9. /\ jobs'[j].completed = Cardinality(done) + Cardinality(dropped)
      /\ Cardinality(dropped) <= Cardinality(skipped)
      /\ Cardinality(done) \in Nat /\ Cardinality(dropped) \in Nat /\ Cardinality(skipped) \in Nat
  <2>1. {s \in own : Tried(s)} \ FailedOf(j, answers) = done \cup dropped
    BY DEF FailedOf, FetchedBy, done, Fetches
  <2>2. done \cap dropped = {} /\ dropped \in SUBSET skipped
    BY DEF done, skipped
  <2>. HIDE DEF dropped
  <2>3. IsFiniteSet(dropped) /\ Cardinality(dropped) <= Cardinality(skipped)
    BY <1>8, <2>2, FS_Subset
  <2>4. Cardinality(done \cup dropped) = Cardinality(done) + Cardinality(dropped) - 0
    BY <1>8, <2>2, <2>3, FS_Union, FS_EmptySet
  <2>5. Cardinality(done) \in Nat /\ Cardinality(dropped) \in Nat /\ Cardinality(skipped) \in Nat
    BY <1>8, <2>3, FS_CardinalityType
  <2>6. jobs'[j].completed = Cardinality(done \cup dropped)
    BY <1>2, <2>1
  <2>. QED
    BY <2>3, <2>4, <2>5, <2>6
<1>10. CountersMatchSegments'
  <2>. SUFFICES ASSUME NEW i \in Jobs PROVE CountersOf(i)'
    BY DEF CountersMatchSegments, CountersOf, Having
  <2>1. CASE i = j
    <3>1. jobs'[j].created = Cardinality(SegmentsOf(j)')
      BY <1>2, <1>5 DEF AddsUpInv, PlansAreWhole
    <3>. HIDE DEF dropped
    <3>2. jobs'[j].completed >= Cardinality(done)
          /\ jobs'[j].completed - Cardinality(done) <= Cardinality(skipped)
      BY <1>9
    <3>. QED
      BY <1>2, <1>8, <2>1, <3>1, <3>2 DEF CountersOf
  <2>2. CASE i # j
    BY <1>1, <1>2, <2>2, CountersByJob DEF AddsUpInv, CountersOf, Having
  <2>. QED
    BY <2>1, <2>2
<1>. QED
  BY <1>4, <1>6, <1>10

LEMMA AddsUpStep ==
  ASSUME AddsUpInv, [BackfillNext]_backfillVars
  PROVE  AddsUpInv'
<1>1. BackfillInv'
  BY InvStep DEF AddsUpInv
<1>2. ASSUME NEW j \in Jobs, NEW r \in Requests, CreateBackfillJob(j, r)
      PROVE  AddsUpInv'
  BY <1>1, <1>2, CreateAddsUp DEF AddsUpInv
<1>3. ASSUME NEW j \in Jobs, NEW answers, NEW force, RunBackfillJob(j, answers, force)
      PROVE  AddsUpInv'
  BY <1>1, <1>3, RunAddsUp DEF AddsUpInv
<1>4. ASSUME UNCHANGED <<jobs, segments>>
      PROVE  AddsUpInv'
  BY <1>1, <1>4 DEF AddsUpInv, OnePerPiece, PlansAreWhole, CountersMatchSegments, PlacesOf,
     SegmentsOf, Place
<1>. QED
  BY <1>2, <1>3, <1>4 DEF BackfillNext, MapMarket, BackfillTick, backfillVars

(* A whole plan covers its range once.                                     *)
LEMMA WholePlansCover == AddsUpInv => PlanCoversRange
<1>. SUFFICES ASSUME AddsUpInv, NEW j \in Jobs, jobs[j] # None,
                     jobs[j].created < jobs[j].request.max,
                     NEW m \in (IF jobs[j].request.markets = {} THEN {None}
                                ELSE jobs[j].request.markets),
                     NEW e \in jobs[j].request.endpoints,
                     NEW t \in jobs[j].request.start .. (jobs[j].request.end - 1)
              PROVE  Cardinality({s \in SegmentsOf(j) : /\ s.market = m /\ s.endpoint = e
                                                        /\ s.start <= t /\ t < s.end}) = 1
  BY DEF PlanCoversRange
<1>1. PICK r : r = jobs[j].request
  OBVIOUS
<1>2. r \in Request
  BY <1>1 DEF AddsUpInv, BackfillInv, BackfillTypeOK, Job
<1>3. r.start <= r.end /\ PlacesOf(j) = Pieces(r)
  BY <1>1 DEF AddsUpInv, PlansAreWhole
<1>4. PICK w \in Windows(r.start, r.end, r.interval) :
        \A v \in Windows(r.start, r.end, r.interval) : v[1] <= t /\ t < v[2] <=> v = w
  BY <1>1, <1>2, <1>3, OneWindowEach DEF Request
<1>5. <<m, e, w>> \in Pieces(r)
  BY <1>1, <1>4 DEF Pieces
<1>6. PICK s \in SegmentsOf(j) : Place(s) = <<m, e, w>>
  BY <1>3, <1>5 DEF PlacesOf
<1>7. s.market = m /\ s.endpoint = e /\ <<s.start, s.end>> = w
  BY <1>6 DEF Place
<1>8. s.start <= t /\ t < s.end
  BY <1>4, <1>7
<1>9. ASSUME NEW x \in SegmentsOf(j), x.market = m, x.endpoint = e, x.start <= t, t < x.end
      PROVE  x = s
  <2>1. Place(x) \in Pieces(r)
    BY <1>3 DEF PlacesOf
  <2>2. <<x.start, x.end>> \in Windows(r.start, r.end, r.interval)
    BY <2>1 DEF Place, Pieces
  <2>3. <<x.start, x.end>> = w
    BY <1>4, <1>9, <2>2
  <2>4. Place(x) = Place(s)
    BY <1>6, <1>9, <2>3 DEF Place
  <2>. QED
    BY <2>4 DEF AddsUpInv, OnePerPiece, SegmentsOf
<1>10. {x \in SegmentsOf(j) : /\ x.market = m /\ x.endpoint = e
                              /\ x.start <= t /\ t < x.end} = {s}
  BY <1>7, <1>8, <1>9
<1>. QED
  BY <1>10, FS_Singleton

-----------------------------------------------------------------------------
(* The theorems.                                                           *)

(* Jobs, segments, payloads and price rows keep their shape, whatever the  *)
(* venue answers.                                                          *)
THEOREM BackfillTypes == BackfillSpec => []BackfillTypeOK
BY InvHolds, PTL DEF BackfillInv

(* A job is PARTIAL exactly when one of its stored segments is FAILED, over *)
(* any number of runs, retries and concurrent jobs (backfill.py:225).      *)
THEOREM JobStatusIsItsSegments == BackfillSpec => []StatusMatchesSegments
BY InvHolds, PTL DEF BackfillInv

(* What a job says of itself adds up over any number of reruns: counters    *)
(* and stored segments agree, and a plan that max_segments did not cut      *)
(* covers the asked range once (backfill.py:85, 201).                       *)
THEOREM JobsAddUp == BackfillSpec => []BackfillAddsUp
<1>1. AddsUpInv => BackfillAddsUp
  BY WholePlansCover DEF AddsUpInv, BackfillInv, BackfillAddsUp
<1>2. AddsUpInv /\ [BackfillNext]_backfillVars => AddsUpInv'
  BY AddsUpStep
<1>. QED
  BY <1>1, <1>2, AddsUpInit, PTL DEF BackfillSpec

(* No price row without the archived answer it was read from, and what a    *)
(* completed segment fetched stays in the archive and in the price table.  *)
THEOREM RowsStayBacked == BackfillSpec => []RowsAreBacked
<1>1. BackfillInv => RowsAreBacked
  BY DEF BackfillInv, RowsAreBacked
<1>. QED
  BY <1>1, InvHolds, PTL

(* No run removes what an earlier one stored, and a skipped segment stays  *)
(* skipped (backfill.py:205).                                              *)
THEOREM NothingIsForgotten == BackfillSpec => HistoryOnlyGrows
<1>. DEFINE Grows == /\ prices \subseteq prices'
                     /\ DOMAIN payloads \subseteq DOMAIN payloads'
                     /\ \A s \in segments : s.status = "SKIPPED_UNSUPPORTED" => s \in segments'
<1>1. ASSUME BackfillInv, BackfillNext PROVE Grows
  <2>1. ASSUME NEW j \in Jobs, NEW r \in Requests, CreateBackfillJob(j, r)
        PROVE  Grows
    BY <2>1 DEF CreateBackfillJob
  <2>2. ASSUME NEW j \in Jobs, NEW answers, NEW force, RunBackfillJob(j, answers, force)
        PROVE  Grows
    <3>1. segments' = (segments \ SegmentsOf(j))
                        \cup {After(answers, force, s) : s \in SegmentsOf(j)}
      BY <2>2, RunOfSegments
    <3>2. ASSUME NEW s \in SegmentsOf(j), s.status = "SKIPPED_UNSUPPORTED"
          PROVE  After(answers, force, s) = s
      BY <1>1, <3>2, RunSegmentShape DEF After, SegmentsOf, BackfillInv
    <3>. QED
      BY <1>1, <2>2, <3>1, <3>2, RunStores
  <2>3. ASSUME NEW m \in Markets, MapMarket(m) PROVE Grows
    BY <2>3 DEF MapMarket
  <2>4. CASE BackfillTick
    BY <2>4 DEF BackfillTick
  <2>. QED
    BY <1>1, <2>1, <2>2, <2>3, <2>4 DEF BackfillNext
<1>2. BackfillInv /\ [BackfillNext]_backfillVars => [Grows]_backfillVars
  BY <1>1
<1>. QED
  BY <1>2, InvHolds, PTL DEF BackfillSpec, HistoryOnlyGrows

-----------------------------------------------------------------------------
(* Coverage reports.                                                       *)

(* Rounding: the result is within half of the quotient, so it grows with    *)
(* the numerator.                                                           *)
LEMMA QuotientAndRest ==
  ASSUME NEW n \in Nat, NEW d \in Nat \ {0}
  PROVE  /\ n \div d \in Nat /\ n % d \in 0 .. (d - 1)
         /\ n = d * (n \div d) + (n % d)
OBVIOUS

LEMMA RoundedNearby ==
  ASSUME NEW n \in Nat, NEW d \in Nat \ {0}
  PROVE  /\ HalfEven(n, d) \in Nat
         /\ 2 * (d * HalfEven(n, d)) <= 2 * n + d
         /\ 2 * n - d <= 2 * (d * HalfEven(n, d))
<1>1. PICK q \in Nat, r \in 0 .. (d - 1) : q = n \div d /\ r = n % d /\ n = d * q + r
  BY QuotientAndRest
<1>2. HalfEven(n, d) = IF 2 * r > d \/ (2 * r = d /\ q % 2 = 1) THEN q + 1 ELSE q
  BY <1>1 DEF HalfEven
<1>3. d * (q + 1) = d * q + d /\ d * q \in Nat
  OBVIOUS
<1>4. PICK x \in Nat : x = d * q
  BY <1>3
<1>5. CASE 2 * r > d \/ (2 * r = d /\ q % 2 = 1)
  <2>1. HalfEven(n, d) = q + 1 /\ d * HalfEven(n, d) = x + d /\ 2 * r >= d
    BY <1>2, <1>3, <1>4, <1>5
  <2>. QED
    BY <1>1, <1>4, <2>1
<1>6. CASE ~(2 * r > d \/ (2 * r = d /\ q % 2 = 1))
  <2>1. HalfEven(n, d) = q /\ d * HalfEven(n, d) = x /\ 2 * r <= d
    BY <1>2, <1>4, <1>6
  <2>. QED
    BY <1>1, <1>4, <2>1
<1>. QED
  BY <1>5, <1>6

LEMMA RoundingGrows ==
  ASSUME NEW n \in Nat, NEW m \in Nat, NEW d \in Nat \ {0}, n <= m
  PROVE  HalfEven(n, d) <= HalfEven(m, d)
<1>1. PICK h, k \in Nat : h = HalfEven(n, d) /\ k = HalfEven(m, d)
  BY RoundedNearby
<1>2. 2 * (d * h) <= 2 * n + d /\ 2 * m - d <= 2 * (d * k)
  BY <1>1, RoundedNearby
<1>3. CASE n = m
  BY <1>1, <1>3
<1>4. CASE n # m
  <2>1. SUFFICES ASSUME k < h PROVE FALSE
    BY <1>1
  <2>2. d * k + d <= d * h
    <3>1. PICK e \in Nat : h = k + 1 + e
      <4>1. h - k - 1 \in Nat /\ h = k + 1 + (h - k - 1)
        BY <2>1
      <4>. QED
        BY <4>1
    <3>2. d * h = d * k + d + d * e /\ d * e \in Nat /\ d * k \in Nat
      BY <3>1
    <3>. QED
      BY <3>2
  <2>3. d * k \in Nat /\ d * h \in Nat
    OBVIOUS
  <2>. QED
    BY <1>2, <1>4, <2>2, <2>3
<1>. QED
  BY <1>3, <1>4

(* A score is a percentage; it is 100 when nothing is missing, and below    *)
(* forty markets only then.                                                 *)
LEMMA ScoreIsPercentage ==
  ASSUME NEW n \in Nat, NEW a \in 0 .. (5 * n)
  PROVE  /\ CoverageScore(n, a) \in 0 .. 100
         /\ n > 0 /\ n < 40 => (CoverageScore(n, a) = 100 <=> a = 5 * n)
         /\ \A b \in 0 .. (5 * n) : a <= b => CoverageScore(n, a) <= CoverageScore(n, b)
<1>1. CASE n = 0
  BY <1>1 DEF CoverageScore
<1>2. CASE n # 0
  <2>1. PICK d \in Nat \ {0} : d = 5 * n
    BY <1>2
  <2>2. \A x \in 0 .. (5 * n) : CoverageScore(n, x) = HalfEven(100 * x, d)
    BY <1>2, <2>1 DEF CoverageScore
  <2>3. PICK h \in Nat : h = HalfEven(100 * a, d)
    BY <2>1, RoundedNearby
  <2>4. 2 * (d * h) <= 200 * a + d /\ 200 * a - d <= 2 * (d * h)
    <3>1. 100 * a \in Nat
      OBVIOUS
    <3>. QED
      BY <2>1, <2>3, <3>1, RoundedNearby
  <2>5. h <= 100
    <3>1. SUFFICES ASSUME h > 100 PROVE FALSE
      OBVIOUS
    <3>2. PICK e \in Nat : h = 101 + e
      <4>1. h - 101 \in Nat /\ h = 101 + (h - 101)
        BY <3>1
      <4>. QED
        BY <4>1
    <3>3. d * h = 101 * d + d * e /\ d * e \in Nat
      BY <3>2
    <3>. QED
      BY <2>1, <2>4, <3>3
  <2>6. ASSUME n < 40, h = 100 PROVE a = 5 * n
    BY <2>1, <2>4, <2>6
  <2>7. ASSUME a = 5 * n PROVE h = 100
    <3>1. 200 * d - d <= 2 * (d * h)
      BY <2>1, <2>4, <2>7
    <3>2. SUFFICES ASSUME h < 100 PROVE FALSE
      BY <2>5
    <3>3. PICK e \in Nat : 99 = h + e
      <4>1. 99 - h \in Nat /\ 99 = h + (99 - h)
        BY <3>2
      <4>. QED
        BY <4>1
    <3>4. 99 * d = d * h + d * e /\ d * e \in Nat /\ d * h \in Nat
      BY <3>3
    <3>. QED
      BY <2>1, <3>1, <3>4
  <2>8. ASSUME NEW b \in 0 .. (5 * n), a <= b
        PROVE  HalfEven(100 * a, d) <= HalfEven(100 * b, d)
    <3>1. 100 * a \in Nat /\ 100 * b \in Nat /\ 100 * a <= 100 * b
      BY <2>8
    <3>. QED
      BY <3>1, RoundingGrows
  <2>. QED
    BY <1>2, <2>2, <2>3, <2>5, <2>6, <2>7, <2>8
<1>. QED
  BY <1>1, <1>2

-----------------------------------------------------------------------------
(* What the walks over a scope know, and the report that was counted from    *)
(* the first of them.                                                        *)
ScopeIn(M, scope, t) == IF scope = "GLOBAL" THEN [market : Listed, asof : {0}] ELSE {x \in M : x.asof <= t}
HeldIn(F, m, kind, t) == \E f \in F : f.market = m /\ f.kind = kind /\ f.at <= t

AllMissing(missing) ==
  missing["rule"] + missing["orderbook"] + missing["price"] + missing["liquidity"] + missing["quality"]

WalkTypes ==
  /\ walk.of \subseteq Entries /\ walk.left \subseteq Entries /\ walk.stale \subseteq walk.of
  /\ walk.held \in [Kinds -> SUBSET walk.of]
  /\ counted \in [of : SUBSET Entries, held : [Kinds -> SUBSET Entries],
                   since : Editions, until : Editions]
  /\ counted.held \in [Kinds -> SUBSET counted.of]
  /\ walk.since \in Editions

\* no edition is of the future
Since(e) == e.builds <= builds /\ e.arrived <= arrived /\ e.moved <= moved

\* the entries are of the scope, and what they held they hold, while no rule moves
Covers(of, held, scope, t, e) ==
  /\ Since(e)
  /\ of \subseteq ScopeIn(members, scope, t)
  /\ e.moved = moved => \A kind \in Kinds : \A x \in held[kind] : HeldIn(facts, x.market, kind, t)

\* what they missed they miss, while nothing arrives either
Misses(of, held, left, t, e) ==
  (e.moved = moved /\ e.arrived = arrived) =>
    \A kind \in Kinds : \A x \in of \ (left \cup held[kind]) : ~HeldIn(facts, x.market, kind, t)

\* the gaps found so far against the entries counted, between two editions
NamesCounted(found, e, u) ==
  (u.moved = e.moved /\ u.builds = e.builds) =>
    \A g \in found : g.type \in Kinds =>
      \E x \in counted.of \ counted.held[g.type] : x.market = g.market
CountedNamed(found, left, e, u) ==
  (u.moved = e.moved /\ u.arrived = e.arrived) =>
    \A kind \in Kinds : \A x \in counted.of \ (left \cup counted.held[kind]) :
      [market |-> x.market, type |-> kind] \in found

ReportIsCounted ==
  /\ report.total = Cardinality(counted.of)
  /\ \A kind \in Kinds : report.missing[kind] = Cardinality(counted.of \ counted.held[kind])
  /\ report.score = CoverageScore(report.total, 5 * report.total - AllMissing(report.missing))

\* a second report of the same scope and time finds what the first one found
FindsAgain ==
  (walk.scope = report.scope /\ walk.asof = report.asof /\ counted.since.moved = moved) =>
    /\ counted.of \subseteq walk.of
    /\ \A kind \in Kinds : counted.held[kind] \ walk.left \subseteq walk.held[kind]

AllOfScope == walk.since.builds = builds => walk.of = ScopeIn(members, walk.scope, walk.asof)

ReportWalk ==
  /\ AllOfScope /\ walk.left \subseteq walk.of /\ walk.found = {}
  /\ Covers(walk.of, walk.held, walk.scope, walk.asof, walk.since)
  /\ Misses(walk.of, walk.held, walk.left, walk.asof, walk.since)
  /\ FindsAgain

GapsWalk ==
  /\ walk.left \subseteq ScopeIn(members, walk.scope, walk.asof)
  /\ walk.scope = report.scope /\ walk.asof = report.asof
  /\ walk.of = counted.of /\ walk.held = counted.held /\ walk.since = counted.since
  /\ AllOfScope
  /\ NamesCounted(walk.found, counted.since, Edition)
  /\ CountedNamed(walk.found, walk.left, counted.since, Edition)

CoverageInv ==
  /\ CoverageTypeOK /\ WalkTypes /\ ReportIsCounted
  /\ Covers(counted.of, counted.held, report.scope, report.asof, counted.since)
  /\ Misses(counted.of, counted.held, {}, report.asof, counted.since)
  /\ walk.stage = "report" => ReportWalk
  /\ walk.stage = "gaps" => GapsWalk
  /\ walk.stage # "gaps" => /\ NamesCounted(gaps, counted.since, counted.until)
                            /\ CountedNamed(gaps, {}, counted.since, counted.until)

LEMMA EntriesFinite ==
  ASSUME NEW S \in SUBSET Entries
  PROVE  IsFiniteSet(S) /\ Cardinality(S) \in Nat
<1>1. IsFiniteSet(Listed) /\ IsFiniteSet(Timestamps)
  BY CoverageAssumption, FS_Interval DEF Timestamps
<1>. DEFINE f == [p \in Listed \X Timestamps |-> [market |-> p[1], asof |-> p[2]]]
<1>2. IsFiniteSet(Listed \X Timestamps)
  BY <1>1, FS_Product
<1>3. f \in Surjection(Listed \X Timestamps, Entries)
  <2>1. f \in [Listed \X Timestamps -> Entries]
    BY DEF Entries
  <2>2. ASSUME NEW x \in Entries
        PROVE  \E p \in Listed \X Timestamps : f[p] = x
    <3>1. <<x.market, x.asof>> \in Listed \X Timestamps /\ f[<<x.market, x.asof>>] = x
      BY DEF Entries
    <3>. QED
      BY <3>1
  <2>. QED
    BY <2>1, <2>2 DEF Surjection
<1>4. IsFiniteSet(Entries)
  BY <1>2, <1>3, FS_Surjection
<1>. QED
  BY <1>4, FS_Subset, FS_CardinalityType

LEMMA ScopeIsOfEntries ==
  ASSUME members \subseteq Member, NEW scope, NEW t
  PROVE  ScopeOf(scope, t) = ScopeIn(members, scope, t) /\ ScopeOf(scope, t) \subseteq Entries
BY CoverageAssumption DEF ScopeOf, ScopeIn, Entries, Member, Timestamps

LEMMA HoldsHeld == \A m, kind, t : Holds(m, kind, t) <=> HeldIn(facts, m, kind, t)
BY DEF Holds, HeldIn, Visible

LEMMA FullMeansNothingMissing ==
  ASSUME NEW missing, \A kind \in Kinds : missing[kind] \in Nat
  PROVE  AllMissing(missing) \in Nat
           /\ (AllMissing(missing) = 0 <=> \A kind \in Kinds : missing[kind] = 0)
<1>1. PICK a, b, c, d, e \in Nat :
        /\ a = missing["rule"] /\ b = missing["orderbook"] /\ c = missing["price"]
        /\ d = missing["liquidity"] /\ e = missing["quality"]
  BY DEF Kinds
<1>2. AllMissing(missing) = a + b + c + d + e
  BY <1>1 DEF AllMissing
<1>3. (\A kind \in Kinds : missing[kind] = 0) <=> a = 0 /\ b = 0 /\ c = 0 /\ d = 0 /\ e = 0
  BY <1>1 DEF Kinds
<1>. QED
  BY <1>2, <1>3

LEMMA CountsOfEntries ==
  ASSUME NEW total, NEW missing, NEW of \in SUBSET Entries, NEW held, total = Cardinality(of),
         \A kind \in Kinds : missing[kind] = Cardinality(of \ held[kind])
  PROVE  /\ total \in Nat
         /\ \A kind \in Kinds : missing[kind] \in 0 .. total
         /\ 5 * total - AllMissing(missing) \in 0 .. (5 * total)
<1>1. IsFiniteSet(of) /\ total \in Nat
  BY EntriesFinite
<1>2. ASSUME NEW kind \in Kinds PROVE missing[kind] \in 0 .. total
  <2>1. PICK W : W = of \ held[kind]
    OBVIOUS
  <2>2. W \in SUBSET of /\ missing[kind] = Cardinality(W)
    BY <2>1
  <2>. QED
    BY <1>1, <2>2, FS_Subset, FS_CardinalityType
<1>3. PICK a, b, c, d, e \in 0 .. total :
        /\ a = missing["rule"] /\ b = missing["orderbook"]
        /\ c = missing["price"] /\ d = missing["liquidity"]
        /\ e = missing["quality"]
  BY <1>2 DEF Kinds
<1>4. AllMissing(missing) = a + b + c + d + e
  BY <1>3 DEF AllMissing
<1>. QED
  BY <1>1, <1>2, <1>3, <1>4

LEMMA CountsOfReport ==
  ASSUME ReportIsCounted, WalkTypes
  PROVE  /\ report.total \in Nat
         /\ \A kind \in Kinds : report.missing[kind] \in 0 .. report.total
         /\ 5 * report.total - AllMissing(report.missing) \in 0 .. (5 * report.total)
<1>1. counted.of \in SUBSET Entries
  BY DEF WalkTypes
<1>. QED
  BY <1>1, CountsOfEntries DEF ReportIsCounted

-----------------------------------------------------------------------------
LEMMA CoverageStarts == CoverageInit => CoverageInv
<1>. SUFFICES ASSUME CoverageInit PROVE CoverageInv
  OBVIOUS
<1>. DEFINE none == [kind \in Kinds |-> {}]
            zero == [builds |-> 0, arrived |-> 0, moved |-> 0]
<1>1. /\ today = 0 /\ open = Listed /\ facts = HeldAtStart /\ members = {}
      /\ builds = 0 /\ arrived = 0 /\ moved = 0 /\ gaps = {}
      /\ walk = Idle /\ report = NoReport
      /\ counted = [of |-> {}, held |-> none, since |-> zero, until |-> zero]
  BY DEF CoverageInit, Edition
<1>2. Cardinality({}) = 0 /\ {} \ {} = {}
  BY FS_EmptySet
<1>3. CoverageScore(0, 0) = 0 /\ CoverageReasonCodes(Idle) = {"NO_MARKETS_IN_SCOPE"}
  BY DEF CoverageScore, CoverageReasonCodes, Idle
<1>4. NoReport = [scope |-> "GLOBAL", asof |-> 0, total |-> 0, missing |-> [kind \in Kinds |-> 0],
                  stale |-> 0, score |-> 0, codes |-> {"NO_MARKETS_IN_SCOPE"}]
  <2>1. CountedReport(Idle) =
          [scope |-> "GLOBAL", asof |-> 0, total |-> Cardinality({}),
           missing |-> [kind \in Kinds |-> Cardinality({}) - Cardinality(none[kind])],
           stale |-> Cardinality({}),
           score |-> CoverageScore(Cardinality({}), Cardinality(none["rule"])
                       + Cardinality(none["orderbook"]) + Cardinality(none["price"])
                       + Cardinality(none["liquidity"]) + Cardinality(none["quality"])),
           codes |-> CoverageReasonCodes(Idle)]
    BY DEF CountedReport, Idle
  <2>2. \A kind \in Kinds : Cardinality(none[kind]) = 0
    BY <1>2
  <2>3. Cardinality(none["rule"]) + Cardinality(none["orderbook"]) + Cardinality(none["price"])
          + Cardinality(none["liquidity"]) + Cardinality(none["quality"]) = 0
    BY <2>2 DEF Kinds
  <2>4. [kind \in Kinds |-> Cardinality({}) - Cardinality(none[kind])] = [kind \in Kinds |-> 0]
    BY <1>2, <2>2
  <2>. QED
    BY <1>2, <1>3, <2>1, <2>3, <2>4 DEF NoReport
<1>5. 0 \in Timestamps
  BY CoverageAssumption DEF Timestamps
<1>6. Edition \in Editions /\ zero \in Editions /\ Edition = zero
  BY <1>1 DEF Edition, Editions
<1>7. NoReport \in CoverageReport
  BY <1>4, <1>5 DEF CoverageReport, ReasonCodes
<1>8. NoReport.stale <= NoReport.total /\ \A kind \in Kinds : NoReport.missing[kind] \in 0 .. NoReport.total
  BY <1>4
<1>8a. Idle \in Walk
  BY <1>5, <1>6 DEF Idle, Walk
<1>9. CoverageTypeOK
  BY <1>1, <1>5, <1>6, <1>7, <1>8, <1>8a, HeldAssumption DEF CoverageTypeOK
<1>10. WalkTypes
  BY <1>1, <1>6 DEF WalkTypes, Idle
<1>11. ReportIsCounted
  <2>1. AllMissing(report.missing) = 0
    BY <1>1, <1>4 DEF AllMissing, Kinds
  <2>2. \A kind \in Kinds : counted.of \ counted.held[kind] = {} /\ report.missing[kind] = 0
    BY <1>1, <1>4
  <2>3. report.total = 0 /\ report.score = 0 /\ counted.of = {} /\ 5 * 0 - 0 = 0
    BY <1>1, <1>4
  <2>. QED
    BY <1>2, <1>3, <2>1, <2>2, <2>3 DEF ReportIsCounted
<1>12. Covers(counted.of, counted.held, report.scope, report.asof, counted.since)
  BY <1>1 DEF Covers, Since
<1>13. /\ Misses(counted.of, counted.held, {}, report.asof, counted.since)
       /\ NamesCounted(gaps, counted.since, counted.until)
       /\ CountedNamed(gaps, {}, counted.since, counted.until)
  BY <1>1 DEF Misses, NamesCounted, CountedNamed
<1>. QED
  BY <1>1, <1>9, <1>10, <1>11, <1>12, <1>13 DEF CoverageInv, Idle

-----------------------------------------------------------------------------
(* What others write between the steps of a cycle.                         *)
LEMMA OthersWrite ==
  ASSUME CoverageInv, CoverageTypeOK', UNCHANGED <<cycles, walk, report, gaps, counted>>,
         \/ members' = members /\ builds' = builds
         \/ members \subseteq members' /\ builds' = builds + 1,
         \/ facts' = facts /\ arrived' = arrived /\ moved' = moved
         \/ facts \subseteq facts' /\ arrived' = arrived + 1 /\ moved' = moved
         \/ arrived' = arrived /\ moved' = moved + 1
  PROVE  CoverageInv'
<1>. USE DEF CoverageInv
<1>1. builds \in Nat /\ arrived \in Nat /\ moved \in Nat
  BY DEF CoverageTypeOK, Edition, Editions
<1>2. \A scope, t : ScopeIn(members, scope, t) \subseteq ScopeIn(members', scope, t)
  <2>1. members \subseteq members'
    OBVIOUS
  <2>. QED
    BY <2>1 DEF ScopeIn
<1>2a. builds' = builds => members' = members
  BY <1>1
<1>3. moved' = moved => \A m, kind, t : HeldIn(facts, m, kind, t) => HeldIn(facts', m, kind, t)
  <2>1. moved' = moved => facts \subseteq facts'
    BY <1>1
  <2>. QED
    BY <2>1 DEF HeldIn
<1>3a. (moved' = moved /\ arrived' = arrived) => facts' = facts
  BY <1>1
<1>4. ASSUME NEW e \in Editions, Since(e)
      PROVE  /\ e.builds <= builds' /\ e.arrived <= arrived' /\ e.moved <= moved'
             /\ e.builds = builds' => e.builds = builds /\ builds' = builds
             /\ e.moved = moved' => e.moved = moved /\ moved' = moved
             /\ e.arrived = arrived' => e.arrived = arrived /\ arrived' = arrived
  BY <1>1, <1>4 DEF Since, Editions
<1>5. WalkTypes' /\ ReportIsCounted'
  BY DEF WalkTypes, ReportIsCounted
<1>6. /\ Covers(counted.of, counted.held, report.scope, report.asof, counted.since)'
      /\ Misses(counted.of, counted.held, {}, report.asof, counted.since)'
  <2>1. Since(counted.since) /\ counted.since \in Editions
    BY DEF Covers, WalkTypes
  <2>2. /\ Covers(counted.of, counted.held, report.scope, report.asof, counted.since)
        /\ Misses(counted.of, counted.held, {}, report.asof, counted.since)
    OBVIOUS
  <2>3. UNCHANGED <<report, counted>>
    OBVIOUS
  <2>. HIDE DEF CoverageInv
  <2>4. Since(counted.since)'
    BY <1>4, <2>1, <2>3 DEF Since
  <2>5. (counted.of \subseteq ScopeIn(members, report.scope, report.asof))'
    <3>1. counted.of \subseteq ScopeIn(members, report.scope, report.asof)
      BY <2>2 DEF Covers
    <3>2. ScopeIn(members, report.scope, report.asof) \subseteq ScopeIn(members', report.scope, report.asof)
      BY <1>2
    <3>. QED
      BY <2>3, <3>1, <3>2
  <2>6. (counted.since.moved = moved => \A kind \in Kinds : \A x \in counted.held[kind] : HeldIn(facts, x.market, kind, report.asof))'
    BY <1>3, <1>4, <2>1, <2>2, <2>3 DEF Covers
  <2>7. Misses(counted.of, counted.held, {}, report.asof, counted.since)'
    BY <1>3a, <1>4, <2>1, <2>2, <2>3 DEF Misses
  <2>. QED
    BY <2>4, <2>5, <2>6, <2>7 DEF Covers
<1>7. ASSUME walk.stage = "report" PROVE ReportWalk'
  <2>1. Since(walk.since) /\ walk.since \in Editions /\ Since(counted.since) /\ counted.since \in Editions
    BY <1>7 DEF ReportWalk, Covers, WalkTypes
  <2>2. AllOfScope'
    BY <1>2a, <1>4, <1>7, <2>1 DEF AllOfScope, ReportWalk
  <2>3. Covers(walk.of, walk.held, walk.scope, walk.asof, walk.since)'
    BY <1>2, <1>3, <1>4, <1>7, <2>1 DEF Covers, ReportWalk, Since
  <2>4. Misses(walk.of, walk.held, walk.left, walk.asof, walk.since)'
    BY <1>3a, <1>4, <1>7, <2>1 DEF Misses, ReportWalk
  <2>5. FindsAgain'
    BY <1>4, <1>7, <2>1 DEF FindsAgain, ReportWalk
  <2>. QED
    BY <1>7, <2>2, <2>3, <2>4, <2>5 DEF ReportWalk
<1>8. ASSUME walk.stage = "gaps" PROVE GapsWalk'
  <2>1. Since(walk.since) /\ walk.since \in Editions /\ walk.since = counted.since
    BY <1>8 DEF GapsWalk, Covers, WalkTypes
  <2>2. AllOfScope' /\ walk.left \subseteq ScopeIn(members, walk.scope, walk.asof)'
    BY <1>2, <1>2a, <1>4, <1>8, <2>1 DEF AllOfScope, GapsWalk
  <2>3. Edition = [builds |-> builds, arrived |-> arrived, moved |-> moved]
          /\ Edition' = [builds |-> builds', arrived |-> arrived', moved |-> moved']
    BY DEF Edition
  <2>4. NamesCounted(walk.found, counted.since, Edition)'
    BY <1>4, <1>8, <2>1, <2>3 DEF NamesCounted, GapsWalk
  <2>5. CountedNamed(walk.found, walk.left, counted.since, Edition)'
    BY <1>4, <1>8, <2>1, <2>3 DEF CountedNamed, GapsWalk
  <2>. QED
    BY <1>8, <2>2, <2>4, <2>5 DEF GapsWalk
<1>9. ASSUME walk.stage # "gaps"
      PROVE  /\ NamesCounted(gaps, counted.since, counted.until)'
             /\ CountedNamed(gaps, {}, counted.since, counted.until)'
  BY <1>9 DEF NamesCounted, CountedNamed
<1>. QED
  BY <1>5, <1>6, <1>7, <1>8, <1>9

-----------------------------------------------------------------------------
(* The steps of a cycle.                                                   *)
LEMMA CycleBegins ==
  ASSUME CoverageInv, NEW scope \in {"GLOBAL", "UNIVERSE"}, NEW t \in 0 .. today, BeginCycle(scope, t)
  PROVE  CoverageInv'
<1>. DEFINE S == ScopeIn(members, scope, t)
            none == [kind \in Kinds |-> {}]
<1>1. ScopeOf(scope, t) = S /\ S \subseteq Entries
  BY ScopeIsOfEntries DEF CoverageInv, CoverageTypeOK
<1>2. /\ UNCHANGED <<today, open, facts, members, builds, arrived, moved, report, gaps, counted>>
      /\ walk' = [stage |-> "report", scope |-> scope, asof |-> t, of |-> S, left |-> S,
                  held |-> none, stale |-> {}, found |-> {}, since |-> Edition]
      /\ walk.stage = "idle"
  BY <1>1 DEF BeginCycle, Idle, tables
<1>3. t \in Timestamps /\ Edition \in Editions
  BY CoverageAssumption DEF CoverageInv, CoverageTypeOK, Timestamps
<1>4. Edition' = Edition
  BY <1>2 DEF Edition
<1>. HIDE DEF S
<1>5. CoverageTypeOK'
  <2>1. walk' \in Walk
    BY <1>1, <1>2, <1>3 DEF Walk
  <2>. QED
    BY <1>2, <1>4, <2>1 DEF CoverageInv, CoverageTypeOK
<1>6. WalkTypes'
  BY <1>1, <1>2, <1>3 DEF CoverageInv, WalkTypes
<1>7. /\ ReportIsCounted'
      /\ Covers(counted.of, counted.held, report.scope, report.asof, counted.since)'
      /\ Misses(counted.of, counted.held, {}, report.asof, counted.since)'
  BY <1>2 DEF CoverageInv, ReportIsCounted, Covers, Misses, Since
<1>8. /\ NamesCounted(gaps, counted.since, counted.until)'
      /\ CountedNamed(gaps, {}, counted.since, counted.until)'
  BY <1>2 DEF CoverageInv, NamesCounted, CountedNamed
<1>9. builds \in Nat /\ arrived \in Nat /\ moved \in Nat
  BY DEF CoverageInv, CoverageTypeOK, Edition, Editions
<1>10. Covers(walk.of, walk.held, walk.scope, walk.asof, walk.since)'
  <2>1. Since(walk.since)'
    BY <1>2, <1>9 DEF Since, Edition
  <2>2. (walk.of \subseteq ScopeIn(members, walk.scope, walk.asof))'
    BY <1>2 DEF S
  <2>3. \A kind \in Kinds : walk'.held[kind] = {}
    BY <1>2
  <2>. QED
    BY <2>1, <2>2, <2>3 DEF Covers
<1>11. AllOfScope'
  BY <1>2 DEF AllOfScope, S
<1>12. Misses(walk.of, walk.held, walk.left, walk.asof, walk.since)'
  BY <1>2 DEF Misses
<1>13. FindsAgain'
  <2>1. SUFFICES ASSUME scope = report.scope, t = report.asof
                 PROVE  counted.of \subseteq S /\ \A kind \in Kinds : counted.held[kind] \ S \subseteq {}
    BY <1>2 DEF FindsAgain
  <2>2. counted.of \subseteq S
    BY <2>1 DEF CoverageInv, Covers, S
  <2>3. \A kind \in Kinds : counted.held[kind] \subseteq counted.of
    BY DEF CoverageInv, WalkTypes
  <2>. QED
    BY <2>2, <2>3
<1>. QED
  BY <1>2, <1>5, <1>6, <1>7, <1>8, <1>10, <1>11, <1>12, <1>13 DEF CoverageInv, ReportWalk

LEMMA ReportVisits ==
  ASSUME CoverageInv, NEW y \in walk.left, VisitForReport(y)
  PROVE  CoverageInv'
<1>. DEFINE t == walk.asof
            held == [kind \in Kinds |-> walk.held[kind] \cup (IF Holds(y.market, kind, t) THEN {y} ELSE {})]
<1>1. PICK stale : stale = walk.stale \cup (IF PriceOlderThan(y.market, t, StaleAfter) THEN {y} ELSE {})
  OBVIOUS
<1>2. /\ UNCHANGED <<today, open, facts, members, builds, arrived, moved, report, gaps, counted>>
      /\ walk' = [walk EXCEPT !.left = walk.left \ {y}, !.held = held, !.stale = stale]
      /\ walk.stage = "report"
  BY <1>1 DEF VisitForReport, tables
<1>3. ReportWalk /\ CoverageTypeOK /\ WalkTypes /\ walk \in Walk
  BY <1>2 DEF CoverageInv, CoverageTypeOK
<1>4. y \in walk.of /\ y \in Entries /\ walk.left \subseteq walk.of
  BY <1>3 DEF ReportWalk, WalkTypes
<1>5. /\ held \in [Kinds -> SUBSET walk.of] /\ stale \subseteq walk.of
      /\ \A kind \in Kinds : /\ walk.held[kind] \subseteq held[kind]
                             /\ held[kind] \subseteq walk.held[kind] \cup {y}
                             /\ y \in held[kind] \ walk.held[kind] => HeldIn(facts, y.market, kind, t)
                             /\ HeldIn(facts, y.market, kind, t) => y \in held[kind]
  <2>1. \A kind : Holds(y.market, kind, t) <=> HeldIn(facts, y.market, kind, t)
    BY HoldsHeld
  <2>2. walk.held \in [Kinds -> SUBSET walk.of] /\ walk.stale \subseteq walk.of
    BY <1>3 DEF WalkTypes
  <2>. QED
    BY <1>1, <1>4, <2>1, <2>2
<1>. HIDE DEF held
<1>6. /\ walk'.left = walk.left \ {y} /\ walk'.held = held /\ walk'.stale = stale
      /\ walk'.stage = "report" /\ walk'.scope = walk.scope /\ walk'.asof = walk.asof
      /\ walk'.of = walk.of /\ walk'.found = walk.found /\ walk'.since = walk.since
  BY <1>2, <1>3 DEF Walk
<1>7. CoverageTypeOK'
  <2>1. held \in [Kinds -> SUBSET Entries] /\ stale \in SUBSET Entries /\ walk.left \ {y} \in SUBSET Entries
    BY <1>3, <1>5 DEF WalkTypes
  <2>2. walk' \in Walk
    BY <1>2, <1>3, <2>1 DEF Walk
  <2>3. Edition' = Edition
    BY <1>2 DEF Edition
  <2>. QED
    BY <1>2, <1>3, <2>2, <2>3 DEF CoverageTypeOK
<1>8. WalkTypes'
  BY <1>2, <1>3, <1>5, <1>6 DEF WalkTypes
<1>9. /\ ReportIsCounted'
      /\ Covers(counted.of, counted.held, report.scope, report.asof, counted.since)'
      /\ Misses(counted.of, counted.held, {}, report.asof, counted.since)'
  BY <1>2 DEF CoverageInv, ReportIsCounted, Covers, Misses, Since
<1>10. /\ NamesCounted(gaps, counted.since, counted.until)'
       /\ CountedNamed(gaps, {}, counted.since, counted.until)'
  BY <1>2 DEF CoverageInv, NamesCounted, CountedNamed
<1>11. Covers(walk.of, walk.held, walk.scope, walk.asof, walk.since)'
  <2>1. Covers(walk.of, walk.held, walk.scope, t, walk.since)
    BY <1>3 DEF ReportWalk
  <2>2. \A kind \in Kinds : \A x \in held[kind] : x \in walk.held[kind] \/ (x = y /\ HeldIn(facts, y.market, kind, t))
    BY <1>5
  <2>3. Since(walk.since)'
    BY <1>2, <1>6, <2>1 DEF Covers, Since
  <2>4. (walk.of \subseteq ScopeIn(members, walk.scope, walk.asof))'
    BY <1>2, <1>6, <2>1 DEF Covers
  <2>5. ASSUME walk.since.moved = moved, NEW kind \in Kinds, NEW x \in held[kind]
        PROVE  HeldIn(facts, x.market, kind, t)
    BY <2>1, <2>2, <2>5 DEF Covers
  <2>. QED
    BY <1>2, <1>6, <2>3, <2>4, <2>5 DEF Covers
<1>12. AllOfScope' /\ walk'.left \subseteq walk'.of /\ walk'.found = {}
  BY <1>2, <1>3, <1>4, <1>6 DEF AllOfScope, ReportWalk
<1>13. Misses(walk.of, walk.held, walk.left, walk.asof, walk.since)'
  <2>1. Misses(walk.of, walk.held, walk.left, t, walk.since)
    BY <1>3 DEF ReportWalk
  <2>2. ASSUME walk.since.moved = moved, walk.since.arrived = arrived, NEW kind \in Kinds,
               NEW x \in walk.of \ ((walk.left \ {y}) \cup held[kind])
        PROVE  ~HeldIn(facts, x.market, kind, t)
    <3>1. CASE x = y
      BY <1>5, <2>2, <3>1
    <3>2. CASE x # y
      <4>1. x \in walk.of \ (walk.left \cup walk.held[kind])
        BY <1>5, <2>2, <3>2
      <4>. QED
        BY <2>1, <2>2, <4>1 DEF Misses
    <3>. QED
      BY <3>1, <3>2
  <2>. QED
    BY <1>2, <1>6, <2>2 DEF Misses
<1>14. FindsAgain'
  <2>1. SUFFICES ASSUME walk.scope = report.scope, t = report.asof, counted.since.moved = moved
                 PROVE  /\ counted.of \subseteq walk.of
                        /\ \A kind \in Kinds : counted.held[kind] \ (walk.left \ {y}) \subseteq held[kind]
    BY <1>2, <1>6 DEF FindsAgain
  <2>2. /\ counted.of \subseteq walk.of
        /\ \A kind \in Kinds : counted.held[kind] \ walk.left \subseteq walk.held[kind]
    BY <1>3, <2>1 DEF ReportWalk, FindsAgain
  <2>3. \A kind \in Kinds : \A x \in counted.held[kind] : HeldIn(facts, x.market, kind, t)
    BY <2>1 DEF CoverageInv, Covers
  <2>. QED
    BY <1>5, <2>2, <2>3
<1>. QED
  BY <1>6, <1>7, <1>8, <1>9, <1>10, <1>11, <1>12, <1>13, <1>14 DEF CoverageInv, ReportWalk

(* The columns of a report, from the entries it was counted from.           *)
LEMMA ReportColumns ==
  ASSUME NEW w \in Walk, w.held \in [Kinds -> SUBSET w.of], w.stale \subseteq w.of
  PROVE  LET r == CountedReport(w)
         IN  /\ r \in CoverageReport /\ r.stale <= r.total /\ r.scope = w.scope /\ r.asof = w.asof
             /\ r.total = Cardinality(w.of)
             /\ \A kind \in Kinds : r.missing[kind] = Cardinality(w.of \ w.held[kind])
             /\ \A kind \in Kinds : r.missing[kind] \in 0 .. r.total
             /\ r.score = CoverageScore(r.total, 5 * r.total - AllMissing(r.missing))
<1>1. PICK n : n = Cardinality(w.of)
  OBVIOUS
<1>2. IsFiniteSet(w.of) /\ n \in Nat
  BY <1>1, EntriesFinite DEF Walk
<1>. DEFINE count(kind) == Cardinality(w.held[kind])
<1>3. ASSUME NEW kind \in Kinds
      PROVE  /\ count(kind) \in 0 .. n
             /\ n - count(kind) = Cardinality(w.of \ w.held[kind])
  <2>1. PICK H \in SUBSET w.of : H = w.held[kind]
    OBVIOUS
  <2>2. PICK c \in 0 .. n : c = Cardinality(H)
    BY <1>1, <1>2, FS_Subset, FS_CardinalityType
  <2>3. w.of \cap H = H
    OBVIOUS
  <2>4. Cardinality(w.of \ H) = Cardinality(w.of) - Cardinality(w.of \cap H)
    BY <1>2, FS_Difference
  <2>5. Cardinality(w.of \ H) = n - c
    BY <1>1, <2>2, <2>3, <2>4
  <2>6. count(kind) = c /\ w.of \ w.held[kind] = w.of \ H
    BY <2>1, <2>2
  <2>. HIDE DEF count
  <2>. QED
    BY <1>2, <2>5, <2>6
<1>4. Cardinality(w.stale) \in 0 .. n
  BY <1>1, <1>2, FS_Subset, FS_CardinalityType
<1>. HIDE DEF count
<1>5. PICK missing \in [Kinds -> 0 .. n] : missing = [kind \in Kinds |-> n - count(kind)]
  <2>1. ASSUME NEW kind \in Kinds PROVE n - count(kind) \in 0 .. n
    <3>1. PICK c \in 0 .. n : c = count(kind)
      BY <1>3
    <3>. QED
      BY <1>2, <3>1
  <2>. QED
    BY <2>1
<1>6. PICK available \in 0 .. (5 * n) :
        /\ available = count("rule") + count("orderbook") + count("price") + count("liquidity")
                         + count("quality")
        /\ available = 5 * n - AllMissing(missing)
  <2>1. PICK a, b, c, d, e \in 0 .. n :
          /\ a = count("rule") /\ b = count("orderbook") /\ c = count("price")
          /\ d = count("liquidity") /\ e = count("quality")
    BY <1>3 DEF Kinds
  <2>2. /\ missing["rule"] = n - a /\ missing["orderbook"] = n - b /\ missing["price"] = n - c
        /\ missing["liquidity"] = n - d /\ missing["quality"] = n - e
    BY <1>5, <2>1 DEF Kinds
  <2>3. AllMissing(missing) = (n - a) + (n - b) + (n - c) + (n - d) + (n - e)
    BY <2>2 DEF AllMissing
  <2>4. /\ a + b + c + d + e \in 0 .. (5 * n)
        /\ a + b + c + d + e = 5 * n - ((n - a) + (n - b) + (n - c) + (n - d) + (n - e))
    BY <1>2
  <2>. QED
    BY <2>1, <2>3, <2>4
<1>7. PICK codes \in SUBSET ReasonCodes : codes = CoverageReasonCodes(w)
  <2>1. CoverageReasonCodes(w) \subseteq ReasonCodes
    BY DEF CoverageReasonCodes, ReasonCodes
  <2>. QED
    BY <2>1
<1>8. PICK score \in 0 .. 100 : score = CoverageScore(n, available)
  BY <1>2, <1>6, ScoreIsPercentage
<1>9. PICK stale \in 0 .. n : stale = Cardinality(w.stale)
  BY <1>4
<1>10. CountedReport(w) =
         [scope |-> w.scope, asof |-> w.asof, total |-> n, missing |-> missing, stale |-> stale,
          score |-> score, codes |-> codes]
  <2>1. CountedReport(w) =
          [scope |-> w.scope, asof |-> w.asof, total |-> n,
           missing |-> [kind \in Kinds |-> n - count(kind)], stale |-> Cardinality(w.stale),
           score |-> CoverageScore(n, count("rule") + count("orderbook") + count("price")
                       + count("liquidity") + count("quality")),
           codes |-> CoverageReasonCodes(w)]
    BY <1>1 DEF CountedReport, count
  <2>. QED
    BY <1>5, <1>6, <1>7, <1>8, <1>9, <2>1
<1>11. missing \in [Kinds -> Nat] /\ w.scope \in {"GLOBAL", "UNIVERSE"} /\ w.asof \in Timestamps
  BY <1>2 DEF Walk
<1>12. CountedReport(w) \in CoverageReport
  BY <1>2, <1>10, <1>11 DEF CoverageReport
<1>13. \A kind \in Kinds : missing[kind] = Cardinality(w.of \ w.held[kind])
  BY <1>3, <1>5
<1>14. score = CoverageScore(n, 5 * n - AllMissing(missing))
  BY <1>6, <1>8
<1>. QED
  BY <1>1, <1>5, <1>9, <1>10, <1>12, <1>13, <1>14

LEMMA ReportSaved ==
  ASSUME CoverageInv, SaveReport
  PROVE  CoverageInv'
<1>1. /\ UNCHANGED <<today, open, facts, members, builds, arrived, moved, gaps>>
      /\ walk.stage = "report" /\ walk.left = {}
      /\ report' = CountedReport(walk)
      /\ counted' = [of |-> walk.of, held |-> walk.held, since |-> walk.since, until |-> walk.since]
      /\ walk' = [walk EXCEPT !.stage = "gaps", !.left = ScopeOf(walk.scope, walk.asof)]
  BY DEF SaveReport, tables
<1>2. ReportWalk /\ CoverageTypeOK /\ WalkTypes /\ walk \in Walk
  BY <1>1 DEF CoverageInv, CoverageTypeOK
<1>3. PICK S \in SUBSET Entries : S = ScopeOf(walk.scope, walk.asof) /\ S = ScopeIn(members, walk.scope, walk.asof)
  BY <1>2, ScopeIsOfEntries DEF CoverageTypeOK
<1>4. /\ walk'.left = S /\ walk'.stage = "gaps" /\ walk'.held = walk.held /\ walk'.stale = walk.stale
      /\ walk'.scope = walk.scope /\ walk'.asof = walk.asof
      /\ walk'.of = walk.of /\ walk'.found = walk.found /\ walk'.since = walk.since
      /\ walk' \in Walk
  BY <1>1, <1>2, <1>3 DEF Walk
<1>5. walk.held \in [Kinds -> SUBSET walk.of] /\ walk.stale \subseteq walk.of
  BY <1>2 DEF WalkTypes
<1>6. /\ report' \in CoverageReport /\ report'.stale <= report'.total
      /\ report'.scope = walk.scope /\ report'.asof = walk.asof
      /\ report'.total = Cardinality(walk.of)
      /\ \A kind \in Kinds : report'.missing[kind] = Cardinality(walk.of \ walk.held[kind])
      /\ \A kind \in Kinds : report'.missing[kind] \in 0 .. report'.total
      /\ report'.score = CoverageScore(report'.total, 5 * report'.total - AllMissing(report'.missing))
  BY <1>1, <1>2, <1>5, ReportColumns
<1>7. counted'.of = walk.of /\ counted'.held = walk.held /\ counted'.since = walk.since
        /\ counted'.until = walk.since
  BY <1>1
<1>8. CoverageTypeOK'
  <2>1. Edition' = Edition
    BY <1>1 DEF Edition
  <2>. QED
    BY <1>1, <1>2, <1>4, <1>6, <2>1 DEF CoverageTypeOK
<1>9. WalkTypes'
  <2>1. /\ walk.of \in SUBSET Entries /\ walk.since \in Editions
        /\ walk.held \in [Kinds -> SUBSET walk.of] /\ walk.stale \in SUBSET walk.of
    BY <1>2 DEF WalkTypes
  <2>2. counted' \in [of : SUBSET Entries, held : [Kinds -> SUBSET Entries],
                      since : Editions, until : Editions]
    BY <1>1, <2>1
  <2>. QED
    BY <1>3, <1>4, <1>7, <2>1, <2>2 DEF WalkTypes
<1>10. ReportIsCounted'
  BY <1>6, <1>7 DEF ReportIsCounted
<1>11. Covers(counted.of, counted.held, report.scope, report.asof, counted.since)'
  BY <1>1, <1>2, <1>6, <1>7 DEF Covers, ReportWalk, Since
<1>12. Misses(counted.of, counted.held, {}, report.asof, counted.since)'
  BY <1>1, <1>2, <1>6, <1>7 DEF Misses, ReportWalk
<1>13. walk.found = {}
  BY <1>1, <1>2 DEF ReportWalk
<1>14. NamesCounted(walk.found, counted.since, Edition)'
  BY <1>4, <1>13 DEF NamesCounted
<1>15. CountedNamed(walk.found, walk.left, counted.since, Edition)'
  <2>1. walk.of \subseteq S
    BY <1>2, <1>3 DEF ReportWalk, Covers
  <2>. QED
    BY <1>4, <1>7, <2>1 DEF CountedNamed
<1>16. AllOfScope'
  BY <1>1, <1>2, <1>4 DEF AllOfScope, ReportWalk
<1>17. GapsWalk'
  BY <1>1, <1>3, <1>4, <1>6, <1>7, <1>14, <1>15, <1>16 DEF GapsWalk
<1>. QED
  BY <1>4, <1>8, <1>9, <1>10, <1>11, <1>12, <1>17 DEF CoverageInv

LEMMA GapsVisits ==
  ASSUME CoverageInv, NEW y \in walk.left, VisitForGaps(y)
  PROVE  CoverageInv'
<1>. DEFINE t == walk.asof
<1>1. PICK new : new = GapsOfMarket(y.market, t)
  OBVIOUS
<1>2. /\ UNCHANGED <<today, open, facts, members, builds, arrived, moved, report, gaps, counted>>
      /\ walk' = [walk EXCEPT !.left = walk.left \ {y}, !.found = walk.found \cup new]
      /\ walk.stage = "gaps"
  BY <1>1 DEF VisitForGaps, tables
<1>3. GapsWalk /\ CoverageTypeOK /\ WalkTypes /\ walk \in Walk
  BY <1>2 DEF CoverageInv, CoverageTypeOK
<1>4. y \in Entries /\ y \in ScopeIn(members, walk.scope, t)
  BY <1>3 DEF GapsWalk, WalkTypes
<1>5. /\ new \subseteq DataGap
      /\ \A g \in new : g.type \in Kinds => g.market = y.market /\ ~HeldIn(facts, y.market, g.type, t)
      /\ \A kind \in Kinds : ~HeldIn(facts, y.market, kind, t) => [market |-> y.market, type |-> kind] \in new
  <2>1. "stale" \notin Kinds
    BY DEF Kinds
  <2>. QED
    BY <1>1, <1>4, <2>1, HoldsHeld DEF GapsOfMarket, DataGap, Entries
<1>6. /\ walk'.left = walk.left \ {y} /\ walk'.stage = "gaps" /\ walk'.held = walk.held
      /\ walk'.stale = walk.stale /\ walk'.scope = walk.scope /\ walk'.asof = walk.asof
      /\ walk'.of = walk.of /\ walk'.found = walk.found \cup new /\ walk'.since = walk.since
      /\ walk' \in Walk
  BY <1>2, <1>3, <1>5 DEF Walk
<1>7. Edition' = Edition
  BY <1>2 DEF Edition
<1>8. CoverageTypeOK'
  BY <1>2, <1>3, <1>6, <1>7 DEF CoverageTypeOK
<1>9. WalkTypes'
  BY <1>2, <1>3, <1>6 DEF WalkTypes
<1>10. /\ ReportIsCounted'
       /\ Covers(counted.of, counted.held, report.scope, report.asof, counted.since)'
       /\ Misses(counted.of, counted.held, {}, report.asof, counted.since)'
  BY <1>2 DEF CoverageInv, ReportIsCounted, Covers, Misses, Since
<1>11. /\ Covers(counted.of, counted.held, report.scope, t, counted.since)
       /\ Misses(counted.of, counted.held, {}, t, counted.since)
       /\ counted.since \in Editions
  BY <1>3 DEF CoverageInv, GapsWalk, WalkTypes
<1>12. NamesCounted(walk.found, counted.since, Edition)'
  <2>1. SUFFICES ASSUME Edition.moved = counted.since.moved, Edition.builds = counted.since.builds,
                        NEW g \in walk.found \cup new, g.type \in Kinds
                 PROVE  \E x \in counted.of \ counted.held[g.type] : x.market = g.market
    BY <1>2, <1>6, <1>7 DEF NamesCounted
  <2>2. CASE g \in walk.found
    BY <1>3, <2>1, <2>2 DEF GapsWalk, NamesCounted
  <2>3. CASE g \in new
    <3>1. counted.since.moved = moved /\ walk.since.builds = builds
      BY <1>3, <2>1 DEF Edition, GapsWalk
    <3>2. y \in counted.of
      BY <1>3, <1>4, <3>1 DEF GapsWalk, AllOfScope
    <3>3. y \notin counted.held[g.type] /\ y.market = g.market
      BY <1>5, <1>11, <2>1, <2>3, <3>1 DEF Covers
    <3>. QED
      BY <3>2, <3>3
  <2>. QED
    BY <2>1, <2>2, <2>3
<1>13. CountedNamed(walk.found, walk.left, counted.since, Edition)'
  <2>1. SUFFICES ASSUME Edition.moved = counted.since.moved, Edition.arrived = counted.since.arrived,
                        NEW kind \in Kinds,
                        NEW x \in counted.of \ ((walk.left \ {y}) \cup counted.held[kind])
                 PROVE  [market |-> x.market, type |-> kind] \in walk.found \cup new
    BY <1>2, <1>6, <1>7 DEF CountedNamed
  <2>2. CASE x = y
    <3>1. counted.since.moved = moved /\ counted.since.arrived = arrived
      BY <2>1 DEF Edition
    <3>2. ~HeldIn(facts, x.market, kind, t)
      BY <1>11, <2>1, <3>1 DEF Misses
    <3>. QED
      BY <1>5, <2>2, <3>2
  <2>3. CASE x # y
    <3>1. x \in counted.of \ (walk.left \cup counted.held[kind])
      BY <2>1, <2>3
    <3>. QED
      BY <1>3, <2>1, <3>1 DEF GapsWalk, CountedNamed
  <2>. QED
    BY <2>2, <2>3
<1>14. GapsWalk'
  BY <1>2, <1>3, <1>6, <1>12, <1>13 DEF GapsWalk, AllOfScope
<1>. QED
  BY <1>6, <1>8, <1>9, <1>10, <1>14 DEF CoverageInv

LEMMA GapsSaved ==
  ASSUME CoverageInv, SaveGaps
  PROVE  CoverageInv'
<1>1. /\ UNCHANGED <<today, open, facts, members, builds, arrived, moved, report>>
      /\ walk.stage = "gaps" /\ walk.left = {} /\ walk' = Idle /\ gaps' = walk.found
      /\ counted' = [counted EXCEPT !.until = Edition]
  BY DEF SaveGaps, tables
<1>2. GapsWalk /\ CoverageTypeOK /\ WalkTypes /\ walk \in Walk /\ Edition \in Editions
  BY <1>1 DEF CoverageInv, CoverageTypeOK
<1>3. /\ counted'.of = counted.of /\ counted'.held = counted.held /\ counted'.since = counted.since
      /\ counted'.until = Edition
  BY <1>1, <1>2 DEF WalkTypes
<1>4. Edition' = Edition
  BY <1>1 DEF Edition
<1>5. CoverageTypeOK'
  <2>1. 0 \in Timestamps
    BY CoverageAssumption DEF Timestamps
  <2>2. Idle \in Walk
    BY <2>1 DEF Idle, Walk, Editions
  <2>. QED
    BY <1>1, <1>2, <1>4, <2>2 DEF CoverageTypeOK, Walk
<1>6. WalkTypes'
  BY <1>1, <1>2, <1>3 DEF WalkTypes, Idle, Editions
<1>7. /\ ReportIsCounted'
      /\ Covers(counted.of, counted.held, report.scope, report.asof, counted.since)'
      /\ Misses(counted.of, counted.held, {}, report.asof, counted.since)'
  BY <1>1, <1>3 DEF CoverageInv, ReportIsCounted, Covers, Misses, Since
<1>8. NamesCounted(gaps, counted.since, counted.until)'
  BY <1>1, <1>2, <1>3 DEF GapsWalk, NamesCounted
<1>9. CountedNamed(gaps, {}, counted.since, counted.until)'
  BY <1>1, <1>2, <1>3 DEF GapsWalk, CountedNamed
<1>10. walk'.stage = "idle"
  BY <1>1 DEF Idle
<1>. QED
  BY <1>5, <1>6, <1>7, <1>8, <1>9, <1>10 DEF CoverageInv

LEMMA CoverageStep ==
  ASSUME CoverageInv, [CoverageNext]_coverageVars
  PROVE  CoverageInv'
<1>1. builds \in Nat /\ arrived \in Nat /\ moved \in Nat /\ Edition \in Editions
  BY DEF CoverageInv, CoverageTypeOK, Edition, Editions
<1>2. ASSUME NEW t \in 0 .. today, NEW force, BuildMarketUniverse(t, force)
      PROVE  CoverageInv'
  <2>1. t \in Timestamps
    BY CoverageAssumption DEF CoverageInv, CoverageTypeOK, Timestamps
  <2>2. members' \subseteq Member /\ members \subseteq members' /\ builds' = builds + 1
    BY <1>2, <2>1 DEF BuildMarketUniverse, CoverageInv, CoverageTypeOK, Member
  <2>3. UNCHANGED <<today, open, facts, arrived, moved, cycles, walk, report, gaps, counted>>
    BY <1>2 DEF BuildMarketUniverse
  <2>4. Edition' \in Editions
    BY <1>1, <2>2, <2>3 DEF Edition, Editions
  <2>5. CoverageTypeOK'
    BY <2>2, <2>3, <2>4 DEF CoverageInv, CoverageTypeOK
  <2>. QED
    BY <2>2, <2>3, <2>5, OthersWrite
<1>3. ASSUME NEW m \in Listed, NEW kind \in Kinds, NEW t \in 0 .. today, StoreFact(m, kind, t)
      PROVE  CoverageInv'
  <2>1. t \in Timestamps
    BY CoverageAssumption DEF CoverageInv, CoverageTypeOK, Timestamps
  <2>2. facts' \subseteq Fact /\ facts \subseteq facts' /\ arrived' = arrived + 1
    BY <1>3, <2>1 DEF StoreFact, CoverageInv, CoverageTypeOK, Fact
  <2>3. UNCHANGED <<today, open, members, builds, moved, cycles, walk, report, gaps, counted>>
    BY <1>3 DEF StoreFact
  <2>4. Edition' \in Editions
    BY <1>1, <2>2, <2>3 DEF Edition, Editions
  <2>5. CoverageTypeOK'
    BY <2>2, <2>3, <2>4 DEF CoverageInv, CoverageTypeOK
  <2>. QED
    BY <2>2, <2>3, <2>5, OthersWrite
<1>4. ASSUME NEW f \in facts, NEW t \in 0 .. today, RecurRule(f, t)
      PROVE  CoverageInv'
  <2>1. t \in Timestamps /\ f \in Fact
    BY CoverageAssumption DEF CoverageInv, CoverageTypeOK, Timestamps
  <2>2. [f EXCEPT !.at = t] \in Fact
    BY <2>1 DEF Fact
  <2>3. facts' \subseteq Fact /\ moved' = moved + 1
    BY <1>4, <2>2 DEF RecurRule, CoverageInv, CoverageTypeOK
  <2>4. UNCHANGED <<today, open, members, builds, arrived, cycles, walk, report, gaps, counted>>
    BY <1>4 DEF RecurRule
  <2>5. Edition' \in Editions
    BY <1>1, <2>3, <2>4 DEF Edition, Editions
  <2>6. CoverageTypeOK'
    BY <2>3, <2>4, <2>5 DEF CoverageInv, CoverageTypeOK
  <2>. QED
    BY <2>3, <2>4, <2>6, OthersWrite
<1>5. ASSUME UNCHANGED <<tables, cycles, walk, report, gaps, counted>>,
             open' \subseteq Listed, today' \in Timestamps
      PROVE  CoverageInv'
  <2>1. UNCHANGED <<facts, members, builds, arrived, moved, cycles, walk, report, gaps, counted>>
    BY <1>5 DEF tables
  <2>2. Edition' = Edition
    BY <2>1 DEF Edition
  <2>3. CoverageTypeOK'
    BY <1>5, <2>1, <2>2 DEF CoverageInv, CoverageTypeOK
  <2>. QED
    BY <2>1, <2>3, OthersWrite
<1>6. ASSUME NEW m \in Listed, ChangeStatus(m)
      PROVE  CoverageInv'
  <2>1. open' \subseteq Listed /\ today' \in Timestamps
    BY <1>6 DEF ChangeStatus, CoverageInv, CoverageTypeOK
  <2>. QED
    BY <1>5, <1>6, <2>1 DEF ChangeStatus
<1>7. CASE CoverageTick
  <2>1. open' \subseteq Listed /\ today' \in Timestamps
    BY <1>7, CoverageAssumption DEF CoverageTick, CoverageInv, CoverageTypeOK, Timestamps
  <2>. QED
    BY <1>5, <1>7, <2>1 DEF CoverageTick
<1>8. CASE UNCHANGED coverageVars
  <2>1. open' \subseteq Listed /\ today' \in Timestamps
    BY <1>8 DEF coverageVars, CoverageInv, CoverageTypeOK
  <2>. QED
    BY <1>5, <1>8, <2>1 DEF coverageVars
<1>. QED
  BY <1>2, <1>3, <1>4, <1>6, <1>7, <1>8, CycleBegins, ReportVisits, ReportSaved, GapsVisits, GapsSaved
  DEF CoverageNext

-----------------------------------------------------------------------------
(* The gaps and the report tell the same.                                  *)
LEMMA GapsAreCounted == CoverageInv => ReportMatchesGaps
<1>. SUFFICES ASSUME CoverageInv, walk.stage = "idle", NEW kind \in Kinds
              PROVE  /\ NoneMoved /\ NoneJoined => Cardinality(GapsOf(kind)) <= report.missing[kind]
                     /\ NoneMoved /\ NoneArrived /\ report.missing[kind] > 0 => GapsOf(kind) # {}
                     /\ (NoneMoved /\ NoneJoined /\ NoneArrived
                           /\ \A x, y \in counted.of : x.market = y.market => x = y) =>
                          Cardinality(GapsOf(kind)) = report.missing[kind]
  BY DEF ReportMatchesGaps
<1>1. PICK W : W = counted.of \ counted.held[kind]
  OBVIOUS
<1>2. W \in SUBSET Entries /\ W \subseteq counted.of
  BY <1>1 DEF CoverageInv, WalkTypes
<1>3. IsFiniteSet(W) /\ Cardinality(W) \in Nat /\ report.missing[kind] = Cardinality(W)
  BY <1>1, <1>2, EntriesFinite DEF CoverageInv, ReportIsCounted
<1>. DEFINE f == [x \in W |-> [market |-> x.market, type |-> kind]]
            G == {f[x] : x \in W}
<1>4. f \in Surjection(W, G)
  BY DEF Surjection
<1>5. IsFiniteSet(G) /\ Cardinality(G) <= Cardinality(W)
        /\ (Cardinality(G) = Cardinality(W) <=> f \in Injection(W, G))
  BY <1>3, <1>4, FS_Surjection
<1>6. ASSUME NoneMoved, NoneJoined PROVE GapsOf(kind) \subseteq G
  <2>1. SUFFICES ASSUME NEW g \in GapsOf(kind) PROVE g \in G
    OBVIOUS
  <2>2. g \in gaps /\ g.type = kind /\ g \in DataGap
    BY <2>1 DEF GapsOf, CoverageInv, CoverageTypeOK
  <2>3. PICK x \in W : x.market = g.market
    BY <1>1, <1>6, <2>2 DEF CoverageInv, NamesCounted, NoneMoved, NoneJoined
  <2>4. g = [market |-> g.market, type |-> g.type]
    BY <2>2 DEF DataGap
  <2>. QED
    BY <2>2, <2>3, <2>4
<1>7. ASSUME NoneMoved, NoneArrived PROVE G \subseteq GapsOf(kind)
  <2>1. SUFFICES ASSUME NEW x \in W PROVE f[x] \in GapsOf(kind)
    OBVIOUS
  <2>2. [market |-> x.market, type |-> kind] \in gaps
    BY <1>1, <1>7, <2>1 DEF CoverageInv, CountedNamed, NoneMoved, NoneArrived
  <2>. QED
    BY <2>2 DEF GapsOf
<1>8. ASSUME NoneMoved, NoneJoined PROVE Cardinality(GapsOf(kind)) <= report.missing[kind]
  <2>1. Cardinality(GapsOf(kind)) <= Cardinality(G) /\ Cardinality(GapsOf(kind)) \in Nat
          /\ Cardinality(G) \in Nat
    BY <1>5, <1>6, <1>8, FS_Subset, FS_CardinalityType
  <2>. QED
    BY <1>3, <1>5, <2>1
<1>9. ASSUME NoneMoved, NoneArrived, report.missing[kind] > 0 PROVE GapsOf(kind) # {}
  <2>1. W # {}
    BY <1>3, <1>9, FS_EmptySet
  <2>2. PICK x : x \in W
    BY <2>1
  <2>3. f[x] \in G
    BY <2>2
  <2>. QED
    BY <1>7, <1>9, <2>3
<1>10. ASSUME NoneMoved, NoneJoined, NoneArrived,
              \A x, y \in counted.of : x.market = y.market => x = y
       PROVE  Cardinality(GapsOf(kind)) = report.missing[kind]
  <2>1. GapsOf(kind) = G
    BY <1>6, <1>7, <1>10
  <2>2. f \in Injection(W, G)
    <3>1. \A x, y \in W : f[x] = f[y] => x = y
      BY <1>2, <1>10
    <3>. QED
      BY <1>4, <3>1 DEF Injection, IsInjective, Surjection
  <2>. QED
    BY <1>3, <1>5, <2>1, <2>2
<1>. QED
  BY <1>8, <1>9, <1>10

LEMMA FullScoresAreTrue == CoverageInv => FullScoreMeansComplete
<1>. SUFFICES ASSUME CoverageInv, walk.stage = "idle", report.total > 0, report.total < 40, NoneMoved
              PROVE  /\ report.score = 100 /\ NoneJoined => \A g \in gaps : g.type = "stale"
                     /\ report.score < 100 /\ NoneArrived => \E g \in gaps : g.type # "stale"
  BY DEF FullScoreMeansComplete
<1>1. /\ report.total \in Nat
      /\ \A kind \in Kinds : report.missing[kind] \in Nat
      /\ 5 * report.total - AllMissing(report.missing) \in 0 .. (5 * report.total)
      /\ report.score = CoverageScore(report.total, 5 * report.total - AllMissing(report.missing))
  BY CountsOfReport DEF CoverageInv, ReportIsCounted
<1>2. PICK n, a : n = report.total /\ a = 5 * report.total - AllMissing(report.missing)
  OBVIOUS
<1>3. n \in Nat /\ a \in 0 .. (5 * n) /\ n > 0 /\ n < 40 /\ report.score = CoverageScore(n, a)
  BY <1>1, <1>2
<1>4. report.score \in 0 .. 100 /\ (report.score = 100 <=> a = 5 * n)
  BY <1>3, ScoreIsPercentage
<1>5. report.score = 100 <=> \A kind \in Kinds : report.missing[kind] = 0
  BY <1>1, <1>2, <1>4, FullMeansNothingMissing
<1>6. ASSUME NEW kind \in Kinds
      PROVE  report.missing[kind] = 0 <=> counted.of \ counted.held[kind] = {}
  <2>1. PICK W \in SUBSET Entries : W = counted.of \ counted.held[kind]
    BY DEF CoverageInv, WalkTypes
  <2>2. IsFiniteSet(W) /\ report.missing[kind] = Cardinality(W)
    BY <2>1, EntriesFinite DEF CoverageInv, ReportIsCounted
  <2>. QED
    BY <2>1, <2>2, FS_EmptySet
<1>7. ASSUME report.score = 100, NoneJoined, NEW g \in gaps PROVE g.type = "stale"
  <2>1. g.type \in Kinds \cup {"stale"}
    BY <1>7 DEF CoverageInv, CoverageTypeOK, DataGap
  <2>2. ASSUME g.type \in Kinds PROVE FALSE
    <3>1. \E x \in counted.of \ counted.held[g.type] : x.market = g.market
      BY <1>7, <2>2 DEF CoverageInv, NamesCounted, NoneMoved, NoneJoined
    <3>. QED
      BY <1>5, <1>6, <1>7, <2>2, <3>1
  <2>. QED
    BY <2>1, <2>2
<1>8. ASSUME report.score < 100, NoneArrived PROVE \E g \in gaps : g.type # "stale"
  <2>1. PICK kind \in Kinds : report.missing[kind] # 0
    BY <1>4, <1>5, <1>8
  <2>2. PICK x : x \in counted.of \ counted.held[kind]
    BY <1>6, <2>1
  <2>3. [market |-> x.market, type |-> kind] \in gaps
    BY <1>8, <2>2 DEF CoverageInv, CountedNamed, NoneMoved, NoneArrived
  <2>4. kind # "stale"
    BY DEF Kinds
  <2>. QED
    BY <2>3, <2>4
<1>. QED
  BY <1>7, <1>8

(* A report asked again.                                                   *)
Improves ==
  (report'.scope = report.scope /\ report'.asof = report.asof /\ report'.total = report.total
     /\ (report.total > 0 => moved = counted.since.moved)) =>
    /\ \A kind \in Kinds : report'.missing[kind] <= report.missing[kind]
    /\ report'.score >= report.score

LEMMA StepsImprove ==
  ASSUME CoverageInv, CoverageInv', CoverageNext
  PROVE  Improves
<1>1. /\ \A kind \in Kinds : report.missing[kind] \in Int
      /\ report.score \in Int
  BY DEF CoverageInv, CoverageTypeOK, CoverageReport
<1>2. CASE UNCHANGED report
  BY <1>1, <1>2 DEF Improves
<1>3. CASE SaveReport
  <2>1. SUFFICES ASSUME report'.scope = report.scope, report'.asof = report.asof,
                        report'.total = report.total, report.total > 0 => moved = counted.since.moved
                 PROVE  (\A kind \in Kinds : report'.missing[kind] <= report.missing[kind])
                          /\ report'.score >= report.score
    BY DEF Improves
  <2>2. PICK n, u, v, a, b :
          /\ n = report.total /\ u = AllMissing(report.missing) /\ v = AllMissing(report'.missing)
          /\ a = 5 * report.total - AllMissing(report.missing)
          /\ b = 5 * report'.total - AllMissing(report'.missing)
    OBVIOUS
  <2>3. /\ n \in Nat /\ \A kind \in Kinds : report.missing[kind] \in 0 .. n
        /\ a \in 0 .. (5 * n) /\ report.score = CoverageScore(n, a)
    BY <2>2, CountsOfReport DEF CoverageInv, ReportIsCounted
  <2>4. /\ \A kind \in Kinds : report'.missing[kind] \in 0 .. n
        /\ b \in 0 .. (5 * n) /\ report'.score = CoverageScore(n, b)
    <3>1. ReportIsCounted' /\ WalkTypes' /\ counted.of' \in SUBSET Entries
      BY DEF CoverageInv, WalkTypes
    <3>2. /\ \A kind \in Kinds : report'.missing[kind] \in 0 .. report'.total
          /\ 5 * report'.total - AllMissing(report'.missing) \in 0 .. (5 * report'.total)
      BY <3>1, CountsOfEntries DEF ReportIsCounted
    <3>3. report'.score = CoverageScore(report'.total, 5 * report'.total - AllMissing(report'.missing))
      BY <3>1 DEF ReportIsCounted
    <3>. QED
      BY <2>1, <2>2, <3>2, <3>3
  <2>5. CASE n = 0
    BY <1>1, <2>2, <2>3, <2>4, <2>5 DEF CoverageScore
  <2>6. CASE n # 0
    <3>1. /\ report'.scope = walk.scope /\ report'.asof = walk.asof /\ ReportWalk /\ walk.left = {}
          /\ report'.total = Cardinality(walk.of)
          /\ \A kind \in Kinds : report'.missing[kind] = Cardinality(walk.of \ walk.held[kind])
      BY <1>3, ReportColumns DEF SaveReport, CoverageInv, CoverageTypeOK, WalkTypes
    <3>2. moved = counted.since.moved
      BY <2>1, <2>2, <2>3, <2>6
    <3>3. counted.of \subseteq walk.of /\ \A kind \in Kinds : counted.held[kind] \subseteq walk.held[kind]
      BY <2>1, <3>1, <3>2 DEF ReportWalk, FindsAgain
    <3>4. counted.of = walk.of
      <4>1. report.total = Cardinality(counted.of)
        BY DEF CoverageInv, ReportIsCounted
      <4>2. IsFiniteSet(walk.of)
        BY EntriesFinite DEF CoverageInv, WalkTypes
      <4>. QED
        BY <2>1, <3>1, <3>3, <4>1, <4>2, FS_Subset
    <3>5. ASSUME NEW kind \in Kinds PROVE report'.missing[kind] <= report.missing[kind]
      <4>1. PICK V, W \in SUBSET Entries : V = walk.of \ walk.held[kind] /\ W = counted.of \ counted.held[kind]
        BY DEF CoverageInv, WalkTypes
      <4>2. V \subseteq W /\ IsFiniteSet(W)
        BY <3>3, <3>4, <4>1, EntriesFinite
      <4>3. report'.missing[kind] = Cardinality(V) /\ report.missing[kind] = Cardinality(W)
        BY <3>1, <4>1 DEF CoverageInv, ReportIsCounted
      <4>. QED
        BY <4>2, <4>3, FS_Subset
    <3>6. a <= b
      <4>1. v <= u /\ u \in Int /\ v \in Int
        <5>1. PICK p, q, r, s, t \in 0 .. n :
                /\ p = report.missing["rule"] /\ q = report.missing["orderbook"]
                /\ r = report.missing["price"] /\ s = report.missing["liquidity"]
                /\ t = report.missing["quality"]
          BY <2>3 DEF Kinds
        <5>2. PICK h, i, j, k, l \in 0 .. n :
                /\ h = report'.missing["rule"] /\ i = report'.missing["orderbook"]
                /\ j = report'.missing["price"] /\ k = report'.missing["liquidity"]
                /\ l = report'.missing["quality"]
          BY <2>4 DEF Kinds
        <5>3. h <= p /\ i <= q /\ j <= r /\ k <= s /\ l <= t
          BY <3>5, <5>1, <5>2 DEF Kinds
        <5>4. u = p + q + r + s + t /\ v = h + i + j + k + l
          BY <2>2, <5>1, <5>2 DEF AllMissing
        <5>. QED
          BY <2>3, <5>3, <5>4
      <4>. QED
        BY <2>1, <2>2, <2>3, <4>1
    <3>7. CoverageScore(n, a) <= CoverageScore(n, b)
      BY <2>3, <2>4, <3>6, ScoreIsPercentage
    <3>8. CoverageScore(n, a) \in 0 .. 100 /\ CoverageScore(n, b) \in 0 .. 100
      BY <2>3, <2>4, ScoreIsPercentage
    <3>. QED
      BY <2>3, <2>4, <3>5, <3>7, <3>8
  <2>. QED
    BY <2>5, <2>6
<1>. QED
  BY <1>2, <1>3 DEF CoverageNext, BuildMarketUniverse, BeginCycle, VisitForReport, VisitForGaps, SaveGaps,
                    StoreFact, RecurRule, ChangeStatus, CoverageTick

(* The report, its score and the gaps of a cycle tell the same of their     *)
(* scope but for what others write between its two walks, and a report      *)
(* asked again of the same members only improves until a rule recurs,       *)
(* however rows, builds and status changes interleave (runner.py:48, 57,    *)
(* coverage.py:141, 262, gaps.py:70).                                       *)
THEOREM CoverageIsSound == CoverageSpec => CoverageSound
<1>1. CoverageInv => CoverageTypeOK /\ ReportMatchesGaps /\ FullScoreMeansComplete
  BY GapsAreCounted, FullScoresAreTrue DEF CoverageInv
<1>2. CoverageInv /\ [CoverageNext]_coverageVars => CoverageInv'
  BY CoverageStep
<1>3. CoverageInv /\ CoverageInv' /\ [CoverageNext]_coverageVars => [Improves]_coverageVars
  BY StepsImprove
<1>. QED
  BY <1>1, <1>2, <1>3, CoverageStarts, PTL DEF CoverageSpec, CoverageSound, ReportsOnlyImprove, Improves
=============================================================================
