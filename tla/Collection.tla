----------------------------- MODULE Collection -----------------------------
(***************************************************************************)
(* One collection run at a time (dataops/orchestrator.py) over the venues  *)
(* it names: per venue the payloads of every endpoint are collected under  *)
(* what is left of the payload limit (ingestion/service.py), ingested one  *)
(* by one with errors recorded per payload, and cursors are written for    *)
(* every mapping of the venue (ingestion/scheduler.py).  The whole run is  *)
(* one transaction: it may crash between any two steps and then leaves     *)
(* nothing behind.                                                         *)
(***************************************************************************)
EXTENDS DeskBase, FiniteSets, SequencesExt

CONSTANTS
  VenueMarkets,     \* VenueMarkets[v]: the markets of venue v, by external id
  Fixtures,         \* Fixtures[v]: the committed payloads of venue v
  Tokens,           \* Tokens[m]: outcome tokens a polymarket catalog brings for m
  ClosedBooks,      \* tokens whose market reports enableOrderBook = false
  GammaIds,         \* markets whose mapping names a Gamma id
  CollectionRequests,
  MaxCatalog,       \* bound: payloads of one catalog fetch
  MaxCollections    \* bound: collection runs

VenueNames == {"kalshi", "polymarket"}
PublicEndpoints == {"MARKET_LIST", "MARKET_DETAIL", "ORDERBOOK", "PRICE_HISTORY"}
CollectedMarkets == UNION {ToSet(VenueMarkets[v]) : v \in VenueNames}
VenueOf(m) == CHOOSE v \in VenueNames : m \in ToSet(VenueMarkets[v])

\* payloads carry the endpoint and what it is about; None for a catalog
Payloads(v) == [endpoint : PublicEndpoints, market : ToSet(VenueMarkets[v]) \cup {None}]

ASSUME CollectionAssumption == MaxCollections \in Nat /\ MaxCatalog \in Nat

\* a market belongs to one venue, and the committed payloads of a venue are about its own
ASSUME VenuesAssumption ==
  /\ None \notin CollectedMarkets
  /\ ToSet(VenueMarkets["kalshi"]) \cap ToSet(VenueMarkets["polymarket"]) = {}
  /\ \A v \in VenueNames : /\ VenueMarkets[v] \in Seq(CollectedMarkets)
                            /\ Fixtures[v] \in Seq(Payloads(v))
  /\ \A m \in CollectedMarkets : Tokens[m] \in Seq(ToSet(Tokens[m]))

\* the endpoint types a request may name, the ones that are refused included
EndpointNames == PublicEndpoints \cup UNION {ToSet(q.endpoints) : q \in CollectionRequests}

ASSUME CollectionRequestsAssumption ==
  \A q \in CollectionRequests :
    /\ q.mode \in {"FIXTURE", "MANUAL_PUBLIC_FETCH", "MIXED"} /\ q.network \in BOOLEAN
    /\ q.venues \in Seq(VenueNames) /\ q.endpoints \in Seq(EndpointNames)
    /\ q.max \in Nat \cup {None} /\ q.planMax \in Nat \cup {None}

\* what the call keeps of a run until it ends
RunsInProgress ==
  [id : 1 .. MaxCollections, mode : {"FIXTURE", "MANUAL_PUBLIC_FETCH", "MIXED"},
   network : BOOLEAN, venues : Seq(VenueNames), endpoints : Seq(EndpointNames),
   markets : {q.markets : q \in CollectionRequests}, limit : Nat, archived : Nat, errors : Nat,
   venue : VenueNames \cup {None}, step : {"venue", "collect", "ingest"}, left : Nat,
   asked : Seq(EndpointNames), queue : Seq([endpoint : PublicEndpoints, market : CollectedMarkets \cup {None}]),
   types : SUBSET PublicEndpoints, got : Nat, failed : Nat]

ASSUME NoRunAssumption == None \notin RunsInProgress

VARIABLES
  db,               \* the tables as the run's session sees them
  committed,        \* the tables every other session sees
  run,              \* the run in progress, or None
  collections       \* runs started
collectionVars == <<db, committed, run, collections>>

EmptyTables ==
  [mapped |-> {}, tokens |-> {}, books |-> {}, prices |-> {},
   ingestions |-> {}, runs |-> {}, cursors |-> {}]

-----------------------------------------------------------------------------
(* Start: what the call resolves before it saves the RUNNING row.          *)
DefaultLimit(q) ==
  IF q.max # None THEN q.max
  ELSE IF q.planMax # None THEN q.planMax
  ELSE IF q.mode = "MANUAL_PUBLIC_FETCH" THEN 5 ELSE 100

ResolvedEndpoints(q) ==
  IF q.endpoints = <<>> THEN <<"MARKET_LIST">> ELSE q.endpoints

StartCollection(q) ==
  /\ run = None /\ collections < MaxCollections
  /\ q.mode = "MANUAL_PUBLIC_FETCH" => q.network
  /\ collections' = collections + 1
  /\ run' = [id |-> collections + 1, mode |-> q.mode, network |-> q.network,
             venues |-> q.venues, endpoints |-> ResolvedEndpoints(q),
             markets |-> q.markets, limit |-> DefaultLimit(q), archived |-> 0,
             errors |-> 0, venue |-> None, step |-> "venue", left |-> 0,
             asked |-> <<>>, queue |-> <<>>, types |-> {}, got |-> 0, failed |-> 0]
  /\ db' = [db EXCEPT !.runs = @ \cup {[id |-> collections + 1, status |-> "RUNNING",
                                        archived |-> 0, errors |-> 0]}]
  /\ UNCHANGED committed

(* The next venue, unless the limit is used up.                            *)
TypesOf(queue) == {queue[i].endpoint : i \in 1 .. Len(queue)}

StartVenue ==
  /\ run # None /\ run.step = "venue" /\ run.venues # <<>>
  /\ run.archived < run.limit
  /\ LET v == Head(run.venues)
         r == [run EXCEPT !.venues = Tail(@), !.venue = v, !.got = 0, !.failed = 0,
                          !.left = run.limit - run.archived, !.queue = <<>>, !.types = {}]
         refused == [r EXCEPT !.errors = @ + 1]
     IN  run' = IF run.mode = "FIXTURE"
                THEN [r EXCEPT !.step = "ingest", !.queue = Fixtures[v],
                               !.types = TypesOf(Fixtures[v])]
                ELSE IF ~run.network THEN refused
                ELSE IF \E i \in 1 .. Len(run.endpoints) : run.endpoints[i] \notin PublicEndpoints
                THEN refused
                ELSE [r EXCEPT !.step = "collect", !.asked = run.endpoints]
  /\ UNCHANGED <<db, committed, collections>>

-----------------------------------------------------------------------------
(* Collecting: one endpoint type at a time.                                *)
TargetedSupported(v, endpoint) == endpoint = "PRICE_HISTORY" => v = "polymarket"

\* the elements of s at the positions in I, in the order of s
Picked(s, I) == FlattenSeq([i \in 1 .. Len(s) |-> IF i \in I THEN <<s[i]>> ELSE <<>>])
Among(s, S) == Picked(s, {i \in 1 .. Len(s) : s[i] \in S})

MappingsOf(v) == Among(VenueMarkets[v], db.mapped)

\* limit is what was left when the venue started
TargetMappings(v, limit) ==
  IF run.markets # {} THEN Among(MappingsOf(v), run.markets)
  ELSE SubSeq(MappingsOf(v), 1, IF Len(MappingsOf(v)) < limit THEN Len(MappingsOf(v)) ELSE limit)

\* what a targeted endpoint asks for: a market, or a token of it; "missing" is an
\* error recorded without a fetch
TokensToAsk(m, endpoint) ==
  IF m \notin db.tokens \/ Tokens[m] = <<>> THEN <<[market |-> m, ask |-> FALSE]>>
  ELSE [i \in 1 .. Len(Tokens[m]) |->
          [market |-> m, ask |-> ~(endpoint = "ORDERBOOK" /\ Tokens[m][i] \in ClosedBooks)]]

Asks(v, endpoint, m) ==
  IF v = "kalshi" THEN <<[market |-> m, ask |-> TRUE]>>
  ELSE IF endpoint = "MARKET_DETAIL" THEN <<[market |-> m, ask |-> m \in GammaIds]>>
  ELSE TokensToAsk(m, endpoint)

AsksOf(v, endpoint, limit) ==
  LET ms == TargetMappings(v, limit)
  IN  FlattenSeq([i \in 1 .. Len(ms) |-> Asks(v, endpoint, ms[i])])

\* the loop stops once `left` payloads are fetched: positions it visits
Visited(asks, ok, left) ==
  {i \in 1 .. Len(asks) :
     Cardinality({k \in 1 .. (i - 1) : asks[k].ask /\ ok[k]}) < left}

CollectTargeted(endpoint, asks, ok) ==
  LET visited == Visited(asks, ok, run.left)
      taken == {i \in visited : asks[i].ask /\ ok[i]}
      payloads == [i \in 1 .. Len(asks) |-> [endpoint |-> endpoint, market |-> asks[i].market]]
  IN  run' = [run EXCEPT
                !.queue = @ \o Picked(payloads, taken),
                !.left = @ - Cardinality(taken),
                !.failed = @ + Cardinality(visited \ taken),
                !.asked = Tail(@)]

FaultyCollectCatalog(fetched) ==
  run' = [run EXCEPT
            !.queue = @ \o [n \in 1 .. fetched |-> [endpoint |-> "MARKET_LIST", market |-> None]],
            !.left = 0, !.asked = Tail(@)]

CollectCatalog(fetched) ==
  LET taken == IF fetched < run.left THEN fetched ELSE run.left
  IN  run' = [run EXCEPT
                !.queue = @ \o [n \in 1 .. taken |-> [endpoint |-> "MARKET_LIST", market |-> None]],
                !.left = @ - taken, !.asked = Tail(@)]

CollectNothing == run' = [run EXCEPT !.failed = @ + 1, !.asked = Tail(@)]

Collect ==
  /\ run # None /\ run.step = "collect" /\ run.asked # <<>> /\ run.left > 0
  /\ LET endpoint == Head(run.asked)
         asks == AsksOf(run.venue, endpoint, run.limit - run.archived)
     IN  \/ endpoint = "MARKET_LIST" /\ \E n \in 0 .. MaxCatalog : CollectCatalog(n)
         \/ endpoint = "MARKET_LIST" /\ CollectNothing            \* the fetch failed
         \/ endpoint # "MARKET_LIST"
            /\ (~TargetedSupported(run.venue, endpoint) \/ asks = <<>>)
            /\ CollectNothing
         \/ endpoint # "MARKET_LIST"
            /\ TargetedSupported(run.venue, endpoint)
            /\ \E ok \in [1 .. Len(asks) -> BOOLEAN] : asks # <<>> /\ CollectTargeted(endpoint, asks, ok)
  /\ UNCHANGED <<db, committed, collections>>

CollectDone ==
  /\ run # None /\ run.step = "collect" /\ (run.asked = <<>> \/ run.left <= 0)
  /\ run' = [run EXCEPT !.step = "ingest", !.types = TypesOf(run.queue)]
  /\ UNCHANGED <<db, committed, collections>>

-----------------------------------------------------------------------------
(* Ingesting one payload: it is archived, then normalized and stored; a    *)
(* failure keeps what was stored and is recorded as the payload's error.   *)
Upsert(endpoint, ms) ==
  CASE endpoint \in {"MARKET_LIST", "MARKET_DETAIL"} ->
         [db EXCEPT !.mapped = @ \cup ms,
                    !.tokens = @ \cup {m \in ms : VenueOf(m) = "polymarket"}]
    [] endpoint = "ORDERBOOK" -> [db EXCEPT !.books = @ \cup (ms \cap db.mapped)]
    [] endpoint = "PRICE_HISTORY" -> [db EXCEPT !.prices = @ \cup (ms \cap db.mapped)]

\* ms: the markets whose rows were stored before the payload ended or failed
IngestPayload(ms, fails) ==
  /\ run # None /\ run.step = "ingest" /\ run.queue # <<>>
  /\ LET p == Head(run.queue)
     IN  /\ IF p.market = None
            THEN \A m \in ms : VenueOf(m) = run.venue
            ELSE ms \subseteq {p.market} /\ (~fails => ms # {})
         /\ db' = Upsert(p.endpoint, ms)
         /\ run' = [run EXCEPT !.queue = Tail(@), !.got = @ + 1,
                               !.failed = IF fails THEN @ + 1 ELSE @]
  /\ UNCHANGED <<committed, collections>>

\* the ingestion run is closed and a cursor written for every mapping of the venue,
\* whether or not one of the run's payloads was about it
CursorTypes == IF run.types = {} THEN {"UNKNOWN"} ELSE run.types

FinishVenue ==
  /\ run # None /\ run.step = "ingest" /\ run.queue = <<>>
  /\ db' = [db EXCEPT
       !.ingestions = @ \cup {[run |-> run.id, venue |-> run.venue, archived |-> run.got,
                               status |-> IF run.failed = 0 THEN "COMPLETED" ELSE "PARTIAL"]},
       !.cursors = {c \in @ : ~(c.endpoint \in CursorTypes /\ VenueOf(c.market) = run.venue)}
                   \cup [market : {m \in db.mapped : VenueOf(m) = run.venue},
                         endpoint : CursorTypes, run : {run.id}]]
  /\ run' = [run EXCEPT !.step = "venue", !.archived = @ + run.got, !.errors = @ + run.failed,
                        !.got = 0, !.failed = 0]
  /\ UNCHANGED <<committed, collections>>

FinishCollection ==
  /\ run # None /\ run.step = "venue"
  /\ run.venues = <<>> \/ run.archived >= run.limit
  /\ db' = [db EXCEPT !.runs = {r \in @ : r.id # run.id} \cup
              {[id |-> run.id, archived |-> run.archived, errors |-> run.errors,
                status |-> IF run.errors = 0 THEN "COMPLETED" ELSE "PARTIAL"]}]
  /\ committed' = db'
  /\ run' = None
  /\ UNCHANGED collections

\* any other exception, or a crash, rolls the transaction back
FaultyAbort ==
  /\ run # None
  /\ run' = None
  /\ UNCHANGED <<db, committed, collections>>

Abort ==
  /\ run # None
  /\ run' = None
  /\ db' = committed
  /\ UNCHANGED <<committed, collections>>

CollectionInit ==
  /\ db = EmptyTables /\ committed = EmptyTables /\ run = None /\ collections = 0

CollectionStep ==
  \/ StartVenue \/ Collect \/ CollectDone \/ FinishVenue \/ FinishCollection
  \/ \E ms \in SUBSET CollectedMarkets, fails \in BOOLEAN : IngestPayload(ms, fails)

CollectionNext ==
  \/ \E q \in CollectionRequests : StartCollection(q)
  \/ CollectionStep
  \/ Abort

CollectionSpec == CollectionInit /\ [][CollectionNext]_collectionVars

-----------------------------------------------------------------------------
\* the shape of the rows
CursorRow == [market : CollectedMarkets, endpoint : PublicEndpoints \cup {"UNKNOWN"}, run : 1 .. MaxCollections]
IngestionRow ==
  [run : 1 .. MaxCollections, venue : VenueNames, archived : Nat, status : {"COMPLETED", "PARTIAL"}]
CollectedRuns == [id : 1 .. MaxCollections, status : {"RUNNING", "COMPLETED", "PARTIAL"},
                  archived : Nat, errors : Nat]

\* The tables keep their shape, also across aborted runs.
CollectionTypeOK ==
  /\ collections \in 0 .. MaxCollections
  /\ \A t \in {db, committed} :
       /\ t.mapped \cup t.tokens \cup t.books \cup t.prices \subseteq CollectedMarkets
       /\ t.runs \subseteq CollectedRuns
       /\ \A r1, r2 \in t.runs : r1.id = r2.id => r1 = r2
       /\ t.ingestions \subseteq IngestionRow /\ t.cursors \subseteq CursorRow

\* A public run never archives more payloads than its limit, over all its venues,
\* endpoint types, mappings and tokens (orchestrator.py:147, service.py:366).
PayloadLimitHolds ==
  /\ run # None /\ run.mode # "FIXTURE" => run.archived + run.got + Len(run.queue) <= run.limit
  /\ run # None => run.left >= 0

\* Nobody else ever sees a run RUNNING, and a run they see COMPLETED has one
\* COMPLETED ingestion run for every venue it reached (orchestrator.py:218).
CommittedRunsAreFinal ==
  \A r \in committed.runs :
    /\ r.status # "RUNNING"
    /\ \A i \in committed.ingestions :
         i.run = r.id /\ r.status = "COMPLETED" => i.status = "COMPLETED"

\* Everything others can read of a run appears with the run: no cursor, ingestion or
\* mapping of an aborted run is left behind.
NothingOfAbortedRuns ==
  LET ids == {r.id : r \in committed.runs}
  IN  /\ {i.run : i \in committed.ingestions} \subseteq ids
      /\ {c.run : c \in committed.cursors} \subseteq ids
      /\ run = None => db = committed

\* Books and prices are only stored of a market whose mapping is known, and every
\* mapped market of an ingested venue has a cursor of one and the same, latest run.
CursorsFollowMappings ==
  /\ committed.books \cup committed.prices \subseteq committed.mapped
  /\ \A c, d \in committed.cursors :
       c.endpoint = d.endpoint /\ VenueOf(c.market) = VenueOf(d.market) => c.run = d.run
  /\ \A i \in committed.ingestions, m \in committed.mapped :
       VenueOf(m) = i.venue => \E c \in committed.cursors : c.market = m

\* A collection run is all or nothing: its rows, the ingestion runs under it and the cursors
\* of its venues appear together and finished, or not at all (orchestrator.py:129).
CollectionIsAtomic ==
  CollectionTypeOK /\ CommittedRunsAreFinal /\ NothingOfAbortedRuns /\ CursorsFollowMappings
=============================================================================
