------------------------------ MODULE VendorData ------------------------------
(***************************************************************************)
(* The evaluation of vendor samples: sources, sample files, inspections,   *)
(* validations, dry runs and evaluation reports (vendor_data/).  A row is  *)
(* a function of its columns, a value is the class the parsers put it in,  *)
(* and the roles of a column (what the suffix match of the inspector finds *)
(* in its name) are a constant.  A sample keeps the path of its file: the  *)
(* file is read again on every call, and may have been edited since.       *)
(***************************************************************************)
EXTENDS DeskBase, FiniteSets, Sequences, SequencesExt

CONSTANTS
  Columns,          \* the columns of the files, in sorted order
  Roles,            \* what the inspector takes a column for, by its name
  Files,            \* the contents a file may have: sequences of rows
  Mappings,         \* the mapping configurations a request may name
  Licenses,         \* the licence states a source may be registered with
  SampleKinds,      \* the kinds a dry run may ask for
  RowLimits,        \* the row limits a request may give
  MaxVendorCalls    \* bound: the calls modelled

VARIABLES
  vendorSources, \* licence by registered source: a set of records
  disk,          \* what the local file holds now
  edited,        \* whether it was edited after the first sample was loaded
  samples, inspections, validations, dryRuns, reports,
  vendorCalls
vendorVars == <<vendorSources, disk, edited, samples, inspections, validations, dryRuns, reports,
                vendorCalls>>

-----------------------------------------------------------------------------
(* Values.  A numeric zero read from JSON is a value, and false.           *)
Numbers == [negative |-> -1, zero |-> 0, low |-> 4, high |-> 6, over |-> 15]
At(row, c) == IF c \in DOMAIN row THEN row[c] ELSE None
Given(v) == v \notin {None, "zero"}
Probability(v) == v \in {"zero", "low", "high"}
Stamp(v) == v \in {"stamp", "naive"}
First(row, columns) ==
  LET found == SelectSeq(columns, LAMBDA c : At(row, c) # None)
  IN  IF found = <<>> THEN None ELSE At(row, Head(found))
Has(row, names) == \E c \in names : At(row, c) # None

(* A column may be of several roles: a price is also a sign of a trade.    *)
Detected(file) == SelectSeq(Columns, LAMBDA c : \E i \in DOMAIN file : c \in DOMAIN file[i])
Merge(columns, more) == columns \o SelectSeq(more, LAMBDA c : ~ Contains(columns, c))
Inspection(sample, file, mapping) ==
  LET of(role) == SelectSeq(Detected(file), LAMBDA c : role \in Roles[c])
      with(role) == IF mapping = None THEN of(role) ELSE Merge(of(role), mapping.columns[role])
  IN  [columns |-> Detected(file), size |-> of("size"),
       time |-> with("time"), market |-> with("market"), token |-> with("token"),
       price |-> IF mapping = None THEN of("price") ELSE Merge(with("price"), mapping.quotes),
       book |-> with("book"), trade |-> with("trade"), resolution |-> with("resolution")]

-----------------------------------------------------------------------------
(* Validation: issues are named by row and column, so each counts once.    *)
Quoted(mapping) == mapping # None /\ mapping.quotes # <<>>
TokenLevel(seen) == seen.book # <<>> \/ seen.trade # <<>> \/ Contains(seen.columns, "token_id")
TokenIssues(file, seen, mapping) ==
  (IF seen.market = <<>> THEN {<<"NO_MARKET_IDENTIFIER_COLUMN">>} ELSE {})
  \cup (IF seen.token = <<>> /\ (TokenLevel(seen) \/ Quoted(mapping))
        THEN {<<"NO_TOKEN_IDENTIFIER_COLUMN">>} ELSE {})
  \cup {<<i, "MISSING_TOKEN_ID">> :
          i \in {j \in DOMAIN file : seen.token # <<>> /\ First(file[j], seen.token) = None}}

TimestampIssues(file, seen) ==
  (IF seen.time = <<>> THEN {<<"NO_TIMESTAMP_COLUMN">>} ELSE {})
  \cup {p \in (DOMAIN file) \X ToSet(seen.time) :
          At(file[p[1]], p[2]) # None /\ ~ Stamp(At(file[p[1]], p[2]))}

Crossed(row, mapping) ==
  /\ {"yes_bid", "yes_ask"} \subseteq ToSet(mapping.quotes)
  /\ \A c \in {"yes_bid", "yes_ask"} : At(row, c) \in DOMAIN Numbers
  /\ Numbers[row["yes_bid"]] > Numbers[row["yes_ask"]]
PriceIssues(file, seen, mapping) ==
  {p \in (DOMAIN file) \X ToSet(seen.price) :
     At(file[p[1]], p[2]) # None /\ ~ Probability(At(file[p[1]], p[2]))}
  \cup {<<i, "YES_BID_GT_ASK">> :
          i \in {j \in DOMAIN file : mapping # None /\ Crossed(file[j], mapping)}}

\* counted on the first column of each role only
Duplicates(file, seen) ==
  LET keys == {Head(c) : c \in {seen.time, seen.market, seen.token, seen.price} \ {<<>>}}
      key(i) == [c \in keys |-> At(file[i], c)]
  IN  /\ Cardinality(keys) >= 2
      /\ \E i, j \in DOMAIN file : i # j /\ key(i) = key(j) /\ Has(file[i], keys)

\* a row with no split book column at all has a complete shape
BookShape(row) ==
  \/ Has(row, {"bids", "asks"})
  \/ \A c \in {"bid_price", "bid_size", "ask_price", "ask_size"} \cap DOMAIN row : row[c] # None
  \/ /\ Has(row, {"side"})
     /\ Has(row, {"price", "bid_price", "ask_price"})
     /\ Has(row, {"size", "quantity", "bid_size", "ask_size"})
RowWarnings(file, seen, mapping) ==
  \E i \in DOMAIN file :
    \/ \E c \in ToSet(seen.time) : At(file[i], c) = "naive"
    \/ \E c \in ToSet(seen.size) :
         At(file[i], c) # None /\ (At(file[i], c) \notin DOMAIN Numbers \/ At(file[i], c) = "negative")
    \/ seen.book # <<>> /\ ~ BookShape(file[i])
    \/ mapping # None /\ mapping.resolved # None
       /\ \/ At(file[i], mapping.resolved) \notin {None, "yes", "no", "zero"}
          \/ At(file[i], mapping.resolved) = "yes" /\ At(file[i], mapping.winner) = None

ValidationStatus(file, stamps, prices, others) ==
  IF file = <<>> \/ prices # {} \/ (stamps \ {<<"NO_TIMESTAMP_COLUMN">>}) # {} THEN "FAIL"
  ELSE IF others \/ stamps # {} THEN "WARNING"
  ELSE "PASS"
NoTimes(seen) == ToSet(seen.columns) \cap {"timestamp", "observed_at"} = {}
Validation(key, file, seen, mapping) ==
  LET tokens == TokenIssues(file, seen, mapping)
      stamps == TimestampIssues(file, seen)
      prices == PriceIssues(file, seen, mapping)
  IN  [key |-> key, rows |-> Len(file), tokens |-> Cardinality(tokens), stamps |-> Cardinality(stamps),
       prices |-> Cardinality(prices), points |-> IF NoTimes(seen) THEN 1 ELSE 0,
       status |-> ValidationStatus(file, stamps, prices,
                    tokens # {} \/ NoTimes(seen) \/ Duplicates(file, seen)
                    \/ RowWarnings(file, seen, mapping))]

-----------------------------------------------------------------------------
(* The dry run counts what an import would create, row by row.             *)
TradeEvidence(row) == Has(row, {"trade_id", "fill_id"}) \/ (Has(row, {"side"}) /\ Has(row, {"executed_at"}))
PriceAndSize(row, seen) == Given(First(row, seen.price)) /\ Given(First(row, seen.size))
BookEvidence(row, seen, kind) ==
  \/ Cardinality({c \in {"bid_price", "bid_size", "ask_price", "ask_size"} : At(row, c) # None}) >= 2
  \/ Has(row, {"bids", "asks"})
  \/ Has(row, {"level", "depth"}) /\ PriceAndSize(row, seen)
  \/ kind = "orderbook" /\ Has(row, {"token_id"}) /\ Has(row, {"side"}) /\ PriceAndSize(row, seen)
HistoryEvidence(row, seen) ==
  Has(row, {"mid", "bid", "ask"}) \/ (Given(First(row, seen.price)) /\ ~ PriceAndSize(row, seen))

SkippedFor(market, token, stamp, price) ==
  IF ~ Given(market) /\ ~ Given(token) THEN "missing_market_or_token_identifier"
  ELSE IF Given(stamp) /\ ~ Stamp(stamp) THEN "invalid_timestamp"
  ELSE IF price = "nan" THEN "raised"
  ELSE IF Given(price) /\ ~ Probability(price) THEN "invalid_price"
  ELSE None
SkipReason(row, seen) ==
  SkippedFor(First(row, seen.market), First(row, seen.token), First(row, seen.time),
             First(row, seen.price))

CountsPrice(row, seen, kind) ==
  /\ Given(First(row, seen.price))
  /\ Given(First(row, seen.time))
  /\ CASE kind \in {"price_history", "market_data"} -> TRUE
       [] kind = "orderbook" -> BookEvidence(row, seen, kind)
       [] kind = "trades" -> TradeEvidence(row)
       [] OTHER -> \/ BookEvidence(row, seen, kind)
                   \/ TradeEvidence(row)
                   \/ HistoryEvidence(row, seen)
CountsBook(row, seen, kind) ==
  /\ kind \in {None, "mixed", "orderbook"} \/ seen.book # <<>>
  /\ BookEvidence(row, seen, kind)
CountsTrade(row, seen, kind) ==
  /\ kind \in {None, "mixed", "trades"} \/ seen.trade # <<>>
  /\ TradeEvidence(row)
  /\ PriceAndSize(row, seen)

Quotes(row, mapping) == \E c \in ToSet(mapping.quotes) : Probability(At(row, c))
SuppressedRows(file, kept, seen, kind) ==
  \E i \in kept :
    /\ PriceAndSize(file[i], seen)
    /\ \/ seen.trade # <<>> /\ ~ TradeEvidence(file[i])
       \/ Has(file[i], {"side"}) /\ seen.book # <<>> /\ ~ BookEvidence(file[i], seen, kind)
       \/ kind \in {None, "mixed"} /\ ~ TradeEvidence(file[i]) /\ ~ BookEvidence(file[i], seen, kind)
Mismatch(kind, seen, prices, books, trades) ==
  CASE kind \in {"price_history", "market_data"} -> seen.price = <<>> \/ prices = 0
    [] kind = "orderbook" -> books = 0
    [] kind = "trades" -> trades = 0
    [] kind = "mixed" -> Cardinality({n \in {<<1, prices>>, <<2, books>>, <<3, trades>>} : n[2] > 0}) < 2
    [] kind = "top_of_book_quotes" -> prices = 0
    [] OTHER -> FALSE

\* one resolution by market and winner when mapped, one by row otherwise
MappedCounts(kept, file, seen, mapping) ==
  LET resolved(row) == At(row, mapping.resolved) = "yes" /\ Given(First(row, seen.market))
  IN  [prices |-> Cardinality({i \in kept : Quotes(file[i], mapping)}), books |-> 0, trades |-> 0,
       resolutions |->
         Cardinality({<<First(file[i], seen.market), At(file[i], mapping.winner)>> :
                        i \in {j \in kept : mapping.resolved # None /\ resolved(file[j])}})]
EvidentCounts(kept, file, seen, kind) ==
  [prices |-> Cardinality({i \in kept : CountsPrice(file[i], seen, kind)}),
   books |-> Cardinality({i \in kept : CountsBook(file[i], seen, kind)}),
   trades |-> Cardinality({i \in kept : CountsTrade(file[i], seen, kind)}),
   resolutions |-> IF kind \in {None, "mixed"} /\ seen.resolution # <<>> THEN Cardinality(kept) ELSE 0]

Warned(counts, mapped, kept, kind, file, seen, mapping) ==
  \/ mapped /\ counts.prices > 0
  \/ ~ mapped /\ SuppressedRows(file, kept, seen, kind)
  \/ /\ seen.token = <<>>
     /\ counts.books > 0 \/ kind \in {"orderbook", "trades"} \/ Quoted(mapping)
  \/ Mismatch(kind, seen, counts.prices, counts.books, counts.trades)
TryResult(counts, mapped, kept, key, asked, kind, file, seen, mapping) ==
  [key |-> key, kind |-> asked, rows |-> Len(file), prices |-> counts.prices, books |-> counts.books,
   trades |-> counts.trades, resolutions |-> counts.resolutions,
   skipped |-> {SkipReason(file[i], seen) : i \in DOMAIN file \ kept},
   status |-> IF file = <<>> THEN "FAIL"
              ELSE IF Warned(counts, mapped, kept, kind, file, seen, mapping) \/ kept # DOMAIN file
              THEN "WARNING" ELSE "PASS"]
TryRows(mapped, kept, key, asked, kind, file, seen, mapping) ==
  TryResult(IF mapped THEN MappedCounts(kept, file, seen, mapping)
            ELSE EvidentCounts(kept, file, seen, kind),
            mapped, kept, key, asked, kind, file, seen, mapping)
TryAs(kind, key, asked, file, seen, mapping) ==
  TryRows(mapping # None /\ kind = "top_of_book_quotes",
          {i \in DOMAIN file : SkipReason(file[i], seen) = None},
          key, asked, kind, file, seen, mapping)
DryRun(key, asked, file, seen, mapping) ==
  TryAs(IF asked # None \/ mapping = None THEN asked ELSE mapping.kind,
        key, asked, file, seen, mapping)

-----------------------------------------------------------------------------
(* The scores of an evaluation.                                            *)
LicenseScore == [APPROVED |-> 100, INTERNAL_RESEARCH |-> 75, SAMPLE_ONLY |-> 50,
                 COMMERCIAL_RESTRICTED |-> 45, UNKNOWN |-> 20]
Total(S, F(_)) == FoldSet(LAMBDA x, n : F(x) + n, 0, S)
Some(S, P(_)) == IF \E x \in S : P(x) THEN 20 ELSE 0
ColumnScore(seen, runs) ==
  Some(seen, LAMBDA s : s.market # <<>>) + Some(seen, LAMBDA s : s.token # <<>>)
  + Some(runs, LAMBDA r : r.prices > 0) + Some(runs, LAMBDA r : r.books > 0)
  + Some(runs, LAMBDA r : r.trades + r.resolutions > 0)
TokenScore(seen, checks) ==
  IF \A s \in seen : s.token = <<>>
  THEN IF \E s \in seen : s.market # <<>> THEN 30 ELSE 0
  ELSE 100 - Lesser(10 * Total(checks, LAMBDA c : c.tokens), 80)
StampScore(seen, checks) ==
  IF \A s \in seen : s.time = <<>> THEN 0
  ELSE 100 - Lesser(15 * Total(checks, LAMBDA c : c.stamps), 80)
BookScore(seen, runs) ==
  IF \A s \in seen : s.book = <<>> THEN 20
  ELSE IF \E r \in runs : r.books > 0 THEN 100 ELSE 55
PriceScore(seen, runs, checks) ==
  IF \A s \in seen : s.price = <<>> THEN 10
  ELSE Greater(10, (IF \E r \in runs : r.prices > 0 THEN 100 ELSE 50)
                   - Lesser(15 * Total(checks, LAMBDA c : c.prices), 80))
ReplayScore(stamp, checks) ==
  Greater(0, stamp - Lesser(10 * Total(checks, LAMBDA c : c.points), 50))

Overall(average, token, replay) ==
  IF average >= 80 /\ token >= 70 /\ replay >= 70 THEN "PROMISING"
  ELSE IF average >= 55 THEN "NEEDS_CLARIFICATION"
  ELSE IF average >= 35 THEN "HOLD"
  ELSE "REJECT_SAMPLE"
Evaluation(license, seen, checks, runs) ==
  LET token == TokenScore(seen, checks)
      stamp == StampScore(seen, checks)
      replay == ReplayScore(stamp, checks)
      total == ColumnScore(seen, runs) + token + stamp + BookScore(seen, runs)
               + PriceScore(seen, runs, checks) + replay + LicenseScore[license]
  IN  Overall(total \div 7, token, replay)

-----------------------------------------------------------------------------
(* The service.  Rows are saved by id: source, hash and limit for a        *)
(* sample; sample, hash, mapping name and limit for what is read of it.    *)
\* Faulty: a requested limit replaces the one the sample was loaded with.
FaultyEffectiveRows(loaded, asked) == IF asked # None THEN asked ELSE loaded
EffectiveRows(loaded, asked) ==
  IF loaded # None /\ asked # None THEN Lesser(loaded, asked)
  ELSE IF asked # None THEN asked ELSE loaded
Cut(file, limit) == IF limit = None \/ limit > Len(file) THEN file ELSE SubSeq(file, 1, limit)
Key(sample, mapping, limit) ==
  [sample |-> sample.id, mapping |-> IF mapping = None THEN None ELSE mapping.name, limit |-> limit]
Saved(table, row) == {r \in table : r.key # row.key} \cup {row}
SavedRun(row) == {r \in dryRuns : r.key # row.key \/ r.kind # row.kind} \cup {row}

Read(sample, asked) == Cut(disk, EffectiveRows(sample.max, asked))
\* what is validated or tried is preceded by an inspection of the whole sample
Whole(sample, mapping) == Inspection(sample, Read(sample, None), mapping)
InspectionRow(sample, mapping, asked) ==
  [key |-> Key(sample, mapping, EffectiveRows(sample.max, asked)),
   seen |-> Inspection(sample, Read(sample, asked), mapping)]
ValidationRow(sample, mapping, asked) ==
  Validation(Key(sample, mapping, EffectiveRows(sample.max, asked)), Read(sample, asked),
             Whole(sample, mapping), mapping)
DryRunRow(sample, mapping, asked, kind) ==
  DryRun(Key(sample, mapping, EffectiveRows(sample.max, asked)), kind, Read(sample, asked),
         Whole(sample, mapping), mapping)
\* a NaN cannot be ordered: comparing it raises, and the whole call is rolled back
Ordered(file, columns) == \A i \in DOMAIN file, c \in ToSet(columns) : At(file[i], c) # "nan"
Comparable(file, seen) == Ordered(file, seen.price) /\ Ordered(file, seen.size)
Validates(sample, mapping, asked) == Comparable(Read(sample, asked), Whole(sample, mapping))
Runs(row, sample, mapping, asked) ==
  /\ "raised" \notin row.skipped
  /\ mapping # None => Ordered(Read(sample, asked), mapping.quotes)

Call == vendorCalls < MaxVendorCalls /\ vendorCalls' = vendorCalls + 1

RegisterSource(source, license) ==
  /\ Call
  /\ vendorSources' = {s \in vendorSources : s.id # source} \cup {[id |-> source, license |-> license]}
  /\ UNCHANGED <<disk, edited, samples, inspections, validations, dryRuns, reports>>

LoadSample(source, limit) ==
  /\ Call
  /\ \E s \in vendorSources : s.id = source
  /\ samples' = {s \in samples : s.id # <<source, disk, limit>>}
                \cup {[id |-> <<source, disk, limit>>, source |-> source, max |-> limit,
                       rows |-> Len(Cut(disk, limit))]}
  /\ UNCHANGED <<vendorSources, disk, edited, inspections, validations, dryRuns, reports>>

\* somebody writes the file again, in its place; bound: once, after a sample was loaded
EditFile(file) ==
  /\ ~ edited /\ samples # {}
  /\ file # disk
  /\ disk' = file
  /\ edited' = TRUE
  /\ UNCHANGED <<vendorSources, samples, inspections, validations, dryRuns, reports, vendorCalls>>

InspectSample(sample, mapping, limit) ==
  /\ Call
  /\ inspections' = Saved(inspections, InspectionRow(sample, mapping, limit))
  /\ UNCHANGED <<vendorSources, disk, edited, samples, validations, dryRuns, reports>>

ValidateSample(sample, mapping, limit) ==
  /\ Call
  /\ Validates(sample, mapping, limit)
  /\ inspections' = Saved(inspections, InspectionRow(sample, mapping, None))
  /\ validations' = Saved(validations, ValidationRow(sample, mapping, limit))
  /\ UNCHANGED <<vendorSources, disk, edited, samples, dryRuns, reports>>

StoreDryRun(row, sample, mapping, limit) ==
  /\ Runs(row, sample, mapping, limit)
  /\ inspections' = Saved(inspections, InspectionRow(sample, mapping, None))
  /\ dryRuns' = SavedRun(row)
DryRunImport(sample, mapping, limit, kind) ==
  /\ Call
  /\ StoreDryRun(DryRunRow(sample, mapping, limit, kind), sample, mapping, limit)
  /\ UNCHANGED <<vendorSources, disk, edited, samples, validations, reports>>

\* the rows of an evaluation replace those with their ids
StoreEvaluation(source, chosen, seen, checked, tried) ==
  /\ inspections' = {r \in inspections : \A t \in seen : r.key # t.key} \cup seen
  /\ validations' = {r \in validations : \A t \in checked : r.key # t.key} \cup checked
  /\ dryRuns' = {r \in dryRuns : \A t \in tried : r.key # t.key \/ r.kind # t.kind} \cup tried
  /\ reports' = reports \cup
       {[source |-> source.id, samples |-> {s.id : s \in chosen}, at |-> vendorCalls, runs |-> tried,
         status |-> Evaluation(source.license, {r.seen : r \in seen}, checked, tried)]}
\* with no samples named, all of the source; each is inspected, validated and tried
Evaluate(source, chosen, mapping) ==
  /\ Call
  /\ \A s \in chosen :
       Validates(s, mapping, None) /\ Runs(DryRunRow(s, mapping, None, None), s, mapping, None)
  /\ StoreEvaluation(source, chosen, {InspectionRow(s, mapping, None) : s \in chosen},
                     {ValidationRow(s, mapping, None) : s \in chosen},
                     {DryRunRow(s, mapping, None, None) : s \in chosen})
  /\ UNCHANGED <<vendorSources, disk, edited, samples>>

-----------------------------------------------------------------------------
VendorInit ==
  /\ disk \in Files
  /\ edited = FALSE /\ vendorCalls = 0
  /\ vendorSources = {} /\ samples = {} /\ inspections = {} /\ validations = {} /\ dryRuns = {}
  /\ reports = {}
VendorNext ==
  \/ \E source \in {"vendor"}, license \in Licenses : RegisterSource(source, license)
  \/ \E limit \in RowLimits : LoadSample("vendor", limit)
  \/ \E file \in Files : EditFile(file)
  \/ \E s \in samples, m \in Mappings, limit \in RowLimits :
       \/ InspectSample(s, m, limit)
       \/ ValidateSample(s, m, limit)
       \/ \E kind \in SampleKinds : DryRunImport(s, m, limit, kind)
  \/ \E source \in vendorSources, m \in Mappings :
       \E chosen \in SUBSET {s \in samples : s.source = source.id} \ {{}} : Evaluate(source, chosen, m)

-----------------------------------------------------------------------------
(* Properties.                                                             *)

\* A row that an evaluation's dry run would skip for its timestamp or its
\* price makes the validation of the same evaluation fail: the two read the
\* same columns by different rules (every column, or the first with a value).
SkipsAreFailures ==
  [][\A d \in dryRuns' \ dryRuns, v \in validations' \ validations :
       d.key = v.key /\ d.skipped \cap {"invalid_timestamp", "invalid_price"} # {} => v.status = "FAIL"
    ]_vendorVars

\* What is read of a sample that was not edited since stays within the rows it
\* was loaded with, whatever limit the later request gives.
ReadsStayInTheSample ==
  ~ edited => \A s \in samples : \A r \in validations \cup dryRuns :
                r.key.sample = s.id => r.rows <= s.rows

\* The kind a request gives a sample never makes trades of rows that are none:
\* without a kind at least as many are counted in the same rows.
KindNeverOverridesEvidence ==
  ~ edited => \A d, e \in dryRuns :
                d.key = e.key /\ d.key.mapping = None /\ e.kind = None => d.trades <= e.trades

\* A sample is called promising only when one of its dry runs would create something.
PromisingSamplesCreate ==
  \A r \in reports : r.status = "PROMISING" =>
    \E d \in r.runs : d.prices + d.books + d.trades + d.resolutions > 0

\* What is concluded about a vendor's sample rests on its own rows, on evidence in them and
\* not on what was declared, and the two readings of a row agree on the broken ones.
SamplesSound ==
  [](ReadsStayInTheSample /\ KindNeverOverridesEvidence /\ PromisingSamplesCreate) /\ SkipsAreFailures
=============================================================================
