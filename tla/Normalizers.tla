----------------------------- MODULE Normalizers -----------------------------
(***************************************************************************)
(* How one payload of a venue becomes rows: Kalshi's and Polymarket's      *)
(* market entries, order books and price histories                         *)
(* (ingestion/normalizers), the identifiers a targeted follow-up adds to   *)
(* a payload, and the order in which the rows are stored                   *)
(* (ingestion/service.py).                                                 *)
(*                                                                         *)
(* Prices are in thousandths; a level's raw price is a thousand times the  *)
(* number the venue writes, so a legacy Kalshi price of 58 is 58000 and a  *)
(* price of 0.58 is 580.  A market and its mapping are named by the        *)
(* identifier they are derived from, a book is a set of levels (sorted, it *)
(* is the same book), and a row's content stands for the hash in its id.   *)
(* A run's payloads are fetched before the first of them is stored.        *)
(***************************************************************************)
EXTENDS DeskBase, Sequences, FiniteSets, TLC

CONSTANTS
  KalshiEntries,    \* market entries of Kalshi payloads
  KalshiBodies,     \* order books of Kalshi payloads
  GammaEntries,     \* market entries of Polymarket payloads
  TokenBodies,      \* committed order books and histories of Polymarket tokens
  LiveBodies,       \* what the venue answers about a token
  ConditionIds,     \* identifiers that start with 0x
  MaxFeeds          \* bound: ingestion runs

VARIABLES
  listings,         \* markets: [market, status]
  outcomeRows,      \* outcomes: [market, label, token]
  ruleRows,         \* rule snapshots: [market, text, at]
  mappings,         \* market mappings: [venue, external, market, event, canonical, symbol, meta]
  tokenRows,        \* outcome token mappings
  books,            \* order book snapshots
  quotes,           \* derived and historical prices
  feeds,            \* the time: one ingestion run a step
  feedErrors        \* payloads that raised
tableVars == <<listings, outcomeRows, ruleRows, mappings, tokenRows, books, quotes>>
feedVars == <<tableVars, feeds, feedErrors>>

FirstOf(s) ==
  LET found == {i \in 1 .. Len(s) : s[i] # None}
  IN  IF found = {} THEN None ELSE s[CHOOSE i \in found : \A j \in found : i <= j]

-----------------------------------------------------------------------------
(* A quote of a catalog entry: a missing side is put two cents away.       *)
FaultyTwoSided(bid, ask) ==
  IF bid = None /\ ask = None THEN None
  ELSE [bid |-> IF bid = None THEN Greater(10, ask - 20) ELSE bid,
        ask |-> IF ask = None THEN Lesser(970, bid + 20) ELSE ask]

TwoSided(bid, ask) ==
  IF bid = None /\ ask = None THEN None
  ELSE [bid |-> IF bid = None THEN Greater(10, ask - 20) ELSE bid,
        ask |-> IF ask = None THEN Lesser(990, bid + 20) ELSE ask]

Cents(v) == IF v = None \/ v <= 0 THEN None ELSE 10 * v
Dollars(v) == IF v = None \/ v <= 0 THEN None ELSE v
KalshiSides(e) ==
  [bid |-> FirstOf(<<Cents(e.bidCents), Dollars(e.bidDollars)>>),
   ask |-> FirstOf(<<Cents(e.askCents), Dollars(e.askDollars)>>)]

Inside(v) == IF v # None /\ 0 < v /\ v < 1000 THEN v ELSE None
GammaSides(e) ==
  IF Inside(e.bid) = None /\ Inside(e.ask) = None /\ Inside(e.mid) # None
  THEN [bid |-> Greater(10, e.mid - 10), ask |-> Lesser(990, e.mid + 10)]
  ELSE [bid |-> Inside(e.bid), ask |-> Inside(e.ask)]

-----------------------------------------------------------------------------
(* Market entries.                                                         *)
KalshiStatus(word) ==
  CASE word \in {"paused", "halted"} -> "PAUSED"
    [] word \in {"closed", "finalized"} -> "CLOSED"
    [] word \in {"settled", "resolved"} -> "SETTLED"
    [] word \in {"canceled", "cancelled"} -> "CANCELED"
    [] OTHER -> "ACTIVE"

GammaStatus(e) ==
  IF e.resolved THEN "SETTLED"
  ELSE IF e.closed \/ ~e.active THEN "CLOSED" ELSE "ACTIVE"

GammaExternal(e, fallback) == FirstOf(<<e.condition, e.gamma, fallback>>)

\* outcomes and token ids each come from an array or, without one, from the token objects; an
\* empty list of outcomes is a list, an empty list of ids is none
OfObjects(e, f(_)) ==
  LET named == SelectSeq(e.objects, LAMBDA o : f(o) # None)
  IN  [i \in 1 .. Len(named) |-> f(named[i])]
Labels(e) ==
  IF e.outcomes # None THEN e.outcomes
  ELSE LET l == OfObjects(e, LAMBDA o : o.outcome) IN IF l = <<>> THEN <<"Yes", "No">> ELSE l
TokenIds(e) ==
  IF e.clob # None /\ e.clob # <<>> THEN e.clob ELSE OfObjects(e, LAMBDA o : o.id)

Side(label) == CASE label = "Yes" -> "YES" [] label = "No" -> "NO" [] OTHER -> "OTHER"

TokenOf(e, i) == IF i <= Len(TokenIds(e)) THEN TokenIds(e)[i] ELSE None

GammaOutcomes(e, market) ==
  {[market |-> market, label |-> Labels(e)[i], token |-> TokenOf(e, i)] : i \in 1 .. Len(Labels(e))}

\* a row without a token, which is never asked for, is keyed by its place in the list
TokenRowsOf(e, external) ==
  {[key |-> FirstOf(<<TokenOf(e, i), <<external, Side(Labels(e)[i]), i>>>>),
    market |-> external, label |-> Labels(e)[i], side |-> Side(Labels(e)[i]),
    token |-> TokenOf(e, i), gamma |-> e.gamma, open |-> e.open] : i \in 1 .. Len(Labels(e))}

NoMeta == [k \in {} |-> None]

\* what one normalized payload brings
Nothing ==
  [external |-> None, listing |-> None, outcomes |-> {}, rules |-> None, mapping |-> None,
   tokens |-> {}, book |-> None, history |-> {}]

CatalogBook(market, sides) ==
  [catalog |-> TRUE, market |-> market, token |-> None, sides |-> sides,
   quote |-> TwoSided(sides.bid, sides.ask), content |-> None]
DepthBook(market, token, quote, content) ==
  [catalog |-> FALSE, market |-> market, token |-> token, sides |-> [bid |-> None, ask |-> None],
   quote |-> quote, content |-> content]

NormalizeKalshiEntry(e, fallback) ==
  LET ticker == FirstOf(<<e.ticker, fallback>>)
      event == FirstOf(<<e.event, e.series, ticker>>)
  IN  [Nothing EXCEPT
         !.external = ticker,
         !.listing = [market |-> ticker, status |-> KalshiStatus(e.status)],
         !.outcomes = {[market |-> ticker, label |-> l, token |-> None] : l \in {"YES", "NO"}},
         !.rules = e.rules,
         !.mapping = [venue |-> "kalshi", external |-> ticker, market |-> ticker, event |-> event,
                      canonical |-> event, symbol |-> ticker, meta |-> NoMeta],
         !.book = CatalogBook(ticker, KalshiSides(e))]

NormalizeGammaEntry(e, fallback) ==
  LET external == GammaExternal(e, fallback)
      market == FirstOf(<<e.condition, external>>)
      event == FirstOf(<<e.event, e.slug>>)
  IN  [Nothing EXCEPT
         !.external = external,
         !.listing = [market |-> market, status |-> GammaStatus(e)],
         !.outcomes = GammaOutcomes(e, market),
         !.rules = e.rules,
         !.mapping = [venue |-> "polymarket", external |-> external, market |-> market,
                      event |-> event, canonical |-> FirstOf(<<event, e.condition, external>>),
                      symbol |-> e.condition,
                      meta |-> [condition |-> e.condition, gamma |-> e.gamma]],
         !.tokens = TokenRowsOf(e, external),
         !.book = CatalogBook(market, GammaSides(e))]

-----------------------------------------------------------------------------
(* Order books and histories.                                              *)
KalshiPrice(raw) == IF raw > 1000 THEN raw \div 100 ELSE raw

Top(bids, asks) ==
  [bid |-> IF bids = {} THEN None ELSE CHOOSE p \in bids : \A q \in bids : p >= q,
   ask |-> IF asks = {} THEN None ELSE CHOOSE p \in asks : \A q \in asks : p <= q]
Offered(levels) == {l.price : l \in {k \in levels : k.size > 0}}

\* the venue sends two lists of bids; the bids for NO are the asks for YES
NormalizeKalshiBook(b, fallback) ==
  LET ticker == FirstOf(<<b.ticker, fallback>>)
  IN  [Nothing EXCEPT
         !.external = ticker,
         !.mapping = [venue |-> "kalshi", external |-> ticker, market |-> ticker, event |-> b.event,
                      canonical |-> b.event, symbol |-> ticker, meta |-> NoMeta],
         !.book = DepthBook(ticker, None,
                            Top({KalshiPrice(p) : p \in Offered(b.yes)},
                                {1000 - KalshiPrice(p) : p \in Offered(b.no)}), b)]

\* no level may have a negative price
InvalidKalshiBook(b) == \E p \in Offered(b.no) : KalshiPrice(p) > 1000

\* what the follow-up of a mapping's token adds to the payload; without one the payload
\* has to say what it is about
NoTags == [market |-> None, external |-> None, condition |-> None, token |-> None]
Tags(m, t) ==
  [market |-> m.market, external |-> m.external, token |-> t.token,
   condition |-> IF "condition" \in DOMAIN m.meta
                 THEN FirstOf(<<m.meta.condition, m.symbol>>) ELSE m.symbol]

\* "about" is the identifier the payload is filed by, "asked" the token its request names
BookToken(tags, b) == FirstOf(<<tags.token, b.asset, b.asked>>)
BookExternal(tags, b) ==
  FirstOf(<<tags.condition, b.condition, tags.external, b.market, BookToken(tags, b), b.about>>)

NormalizeTokenBook(tags, b) ==
  LET external == BookExternal(tags, b)
      market == FirstOf(<<tags.market, external>>)
      condition == FirstOf(<<tags.condition, b.condition>>)
      token == BookToken(tags, b)
  IN  [Nothing EXCEPT
         !.external = external,
         !.mapping = [venue |-> "polymarket", external |-> external, market |-> market,
                      event |-> None, canonical |-> None, symbol |-> condition,
                      meta |-> [condition |-> condition, token |-> token]],
         !.book = DepthBook(market, token, Top(Offered(b.bids), Offered(b.asks)), b)]

\* a point may name its token and the time it may be used from; the capture's is the default
NormalizeHistory(tags, b) ==
  LET external == FirstOf(<<tags.condition, tags.external, b.about, b.asked, b.market>>)
      market == FirstOf(<<tags.market, external>>)
  IN  [Nothing EXCEPT
         !.external = external,
         !.mapping = [venue |-> "polymarket", external |-> external, market |-> market,
                      event |-> None, canonical |-> None, symbol |-> None,
                      meta |-> [source |-> "polymarket_price_history"]],
         !.history = {[market |-> market, token |-> FirstOf(<<p.token, tags.token>>),
                       bid |-> None, ask |-> None, twiceMid |-> 2 * p.price,
                       observed |-> p.at, captured |-> feeds,
                       available |-> FirstOf(<<p.available, feeds>>)] : p \in b.points}]

InvalidBook(b) == \E p \in Offered(b.bids) \cup Offered(b.asks) : p \notin 0 .. 1000
InvalidHistory(b) == \E p \in b.points : p.price \notin 0 .. 1000

-----------------------------------------------------------------------------
(* Storing one normalized payload.  A mapping keeps the identifiers the    *)
(* new one does not bring; of its metadata only the keys brought are new.  *)
MergeMapping(old, new) ==
  [new EXCEPT !.event = FirstOf(<<@, old.event>>), !.symbol = FirstOf(<<@, old.symbol>>),
              !.canonical = FirstOf(<<@, old.canonical>>),
              !.market = FirstOf(<<@, old.market>>), !.meta = @ @@ old.meta]

SameMapping(m, n) == m.venue = n.venue /\ m.external = n.external
Mapped(rows, new) ==
  LET old == {m \in rows : SameMapping(m, new)}
  IN  (rows \ old) \cup (IF old = {} THEN {new} ELSE {MergeMapping(m, new) : m \in old})

\* a rule text is stored when it is not the market's latest; an earlier row of it is overwritten
Ruled(rows, market, text) ==
  LET of == {r \in rows : r.market = market}
      latest == {r \in of : \A o \in of : o.at <= r.at}
  IN  IF text = None \/ (latest # {} /\ (CHOOSE r \in latest : TRUE).text = text) THEN rows
      ELSE {r \in rows : r.market # market \/ r.text # text}
           \cup {[market |-> market, text |-> text, at |-> feeds]}

\* a catalog's book is named by the market and the time, a venue's by its content
SameBook(r, s) ==
  IF s.book.catalog THEN r.book.catalog /\ r.book.market = s.book.market /\ r.at = s.at
  ELSE r.book = s.book

Tables == [listings |-> listings, outcomes |-> outcomeRows, rules |-> ruleRows,
           mappings |-> mappings, tokens |-> tokenRows, books |-> books, quotes |-> quotes]

\* a book with any level gives a price, which has a middle only with both sides
Derived(b) ==
  IF b.quote.bid = None /\ b.quote.ask = None THEN {}
  ELSE {[market |-> b.market, token |-> None, bid |-> b.quote.bid, ask |-> b.quote.ask,
         twiceMid |-> IF None \in {b.quote.bid, b.quote.ask} THEN None
                      ELSE b.quote.bid + b.quote.ask,
         observed |-> feeds, captured |-> feeds, available |-> feeds]}

\* only the book of a known market is stored
UpsertNormalized(t, n) ==
  LET listed == IF n.listing = None THEN t.listings
                ELSE {l \in t.listings : l.market # n.listing.market} \cup {n.listing}
      kept == /\ n.book # None /\ n.book.quote # None
              /\ \E l \in listed : l.market = n.book.market
      stored == [book |-> n.book, at |-> feeds]
  IN  [listings |-> listed,
       outcomes |-> {o \in t.outcomes : \A k \in n.outcomes : <<k.market, k.label>> # <<o.market, o.label>>}
                    \cup n.outcomes,
       rules |-> IF n.listing = None THEN t.rules ELSE Ruled(t.rules, n.listing.market, n.rules),
       mappings |-> Mapped(t.mappings, n.mapping),
       tokens |-> {r \in t.tokens : \A k \in n.tokens : k.key # r.key} \cup n.tokens,
       books |-> IF kept THEN {r \in t.books : ~SameBook(r, stored)} \cup {stored} ELSE t.books,
       quotes |-> t.quotes \cup n.history \cup (IF kept THEN Derived(n.book) ELSE {})]

\* a payload is normalized as a whole before its first row is stored
Payload(items, invalid) == [items |-> items, invalid |-> invalid]
Raises(p) == p.invalid \/ \E i \in 1 .. Len(p.items) : p.items[i].external = None

UpsertAll(t, p) ==
  LET after[i \in 0 .. Len(p.items)] ==
        IF i = 0 THEN t ELSE UpsertNormalized(after[i - 1], p.items[i])
  IN  IF Raises(p) THEN t ELSE after[Len(p.items)]

Ingest(payloads) ==
  LET after[i \in 0 .. Len(payloads)] ==
        IF i = 0 THEN Tables ELSE UpsertAll(after[i - 1], payloads[i])
      t == after[Len(payloads)]
  IN  /\ feeds <= MaxFeeds
      /\ feeds' = feeds + 1
      /\ feedErrors' = feedErrors + Cardinality({i \in 1 .. Len(payloads) : Raises(payloads[i])})
      /\ listings' = t.listings /\ outcomeRows' = t.outcomes /\ ruleRows' = t.rules
      /\ mappings' = t.mappings /\ tokenRows' = t.tokens
      /\ books' = t.books /\ quotes' = t.quotes

-----------------------------------------------------------------------------
(* The payloads.                                                           *)
KalshiMarkets(es, fallback) ==
  Payload([i \in 1 .. Len(es) |-> NormalizeKalshiEntry(es[i], fallback)], FALSE)
KalshiDepth(b, fallback) ==
  Payload(<<NormalizeKalshiBook(b, fallback)>>, InvalidKalshiBook(b))
GammaMarkets(es, fallback) ==
  Payload([i \in 1 .. Len(es) |-> NormalizeGammaEntry(es[i], fallback)], FALSE)
TokenDepth(tags, b) == Payload(<<NormalizeTokenBook(tags, b)>>, InvalidBook(b))
TokenHistory(tags, b) == Payload(<<NormalizeHistory(tags, b)>>, InvalidHistory(b))

KalshiList(es) == Ingest(<<KalshiMarkets(es, None)>>)
GammaList(es) == Ingest(<<GammaMarkets(es, None)>>)
KalshiBook(b) == Ingest(<<KalshiDepth(b, None)>>)

\* Kalshi is asked by the ticker of a mapping
FollowKalshi(m, e, b) ==
  /\ m.venue = "kalshi" /\ {e.ticker, b.ticker} \subseteq {None, m.external}
  /\ \/ Ingest(<<KalshiMarkets(<<e>>, m.external)>>)
     \/ Ingest(<<KalshiMarkets(<<e>>, m.external), KalshiDepth(b, m.external)>>)

\* a detail follow-up asks by the Gamma id, and files the answer by what it says itself; the
\* tokens are listed NO first
FirstToken(m) ==
  LET rows == {t \in tokenRows : t.market = m.market /\ t.token # None /\ t.gamma # None}
      of(side) == {t \in rows : t.side = side}
      first == CHOOSE s \in {of("NO"), of("OTHER"), of("YES")} :
                 s # {} /\ (of("NO") # {} => s = of("NO")) /\ (of("OTHER") # {} => s # of("YES"))
  IN  IF rows = {} THEN None ELSE (CHOOSE t \in first : TRUE).gamma
GammaIdentifier(m) ==
  FirstOf(<<IF "gamma" \in DOMAIN m.meta THEN m.meta.gamma ELSE None,
            IF m.external \in ConditionIds THEN None ELSE m.external,
            FirstToken(m)>>)
Detail(m, e) == GammaMarkets(<<e>>, GammaIdentifier(m))
AsksDetail(m, e) ==
  m.venue = "polymarket" /\ GammaIdentifier(m) # None /\ e.gamma \in {None, GammaIdentifier(m)}
FollowDetail(m, e) == AsksDetail(m, e) /\ Ingest(<<Detail(m, e)>>)

\* a token of the mapping's market is asked for by its id
Followed(m, t) == m.venue = "polymarket" /\ m.market = t.market /\ t.token # None
LiveAnswer(t, b) == [b EXCEPT !.about = t.token, !.asked = t.token]
AnswersFor(t, b) == b.asset \in {None, t.token}
AsksBook(m, t, b) == Followed(m, t) /\ AnswersFor(t, b) /\ t.open # FALSE
FollowBook(m, t, b) == AsksBook(m, t, b) /\ Ingest(<<TokenDepth(Tags(m, t), LiveAnswer(t, b))>>)
FollowHistory(m, t, b) ==
  Followed(m, t) /\ AnswersFor(t, b) /\ Ingest(<<TokenHistory(Tags(m, t), LiveAnswer(t, b))>>)

FollowUp ==
  \E m \in mappings, t \in tokenRows, b \in LiveBodies : FollowBook(m, t, b) \/ FollowHistory(m, t, b)

\* one run may ask for a market's detail and for its book: the book's tags are those of the
\* mapping before the detail was stored
FollowBoth(m, e, t, b) ==
  /\ AsksDetail(m, e) /\ AsksBook(m, t, b)
  /\ Ingest(<<Detail(m, e), TokenDepth(Tags(m, t), LiveAnswer(t, b))>>)

\* a committed payload has no tags
FixtureBook(b) == Ingest(<<TokenDepth(NoTags, b)>>)
FixtureHistory(b) == Ingest(<<TokenHistory(NoTags, b)>>)

FeedInit ==
  /\ listings = {} /\ outcomeRows = {} /\ ruleRows = {} /\ mappings = {} /\ tokenRows = {}
  /\ books = {} /\ quotes = {} /\ feeds = 1 /\ feedErrors = 0

FeedNext ==
  \/ \E e, f \in KalshiEntries : KalshiList(IF e = f THEN <<e>> ELSE <<e, f>>)
  \/ \E b \in KalshiBodies : KalshiBook(b)
  \/ \E m \in mappings, e \in KalshiEntries, b \in KalshiBodies : FollowKalshi(m, e, b)
  \/ \E e, f \in GammaEntries : GammaList(IF e = f THEN <<e>> ELSE <<e, f>>)
  \/ \E m \in mappings, e \in GammaEntries : FollowDetail(m, e)
  \/ FollowUp
  \/ \E m \in mappings, e \in GammaEntries, t \in tokenRows, b \in LiveBodies : FollowBoth(m, e, t, b)
  \/ \E b \in TokenBodies : FixtureBook(b) \/ FixtureHistory(b)

FeedSpec == FeedInit /\ [][FeedNext]_feedVars

-----------------------------------------------------------------------------
\* Rows keep their shape: one listing per market, one mapping per identifier, one token row per
\* token, one rule row per text, and a middle price between zero and a dollar unless a book's own
\* bid is above it (ingestion/service.py:842).
FeedTypeOK ==
  /\ feeds \in 1 .. MaxFeeds + 1 /\ feedErrors \in 0 .. 2 * feeds
  /\ \A l, k \in listings : l.market = k.market => l = k
  /\ \A m, k \in mappings : SameMapping(m, k) => m = k
  /\ \A t, k \in tokenRows : t.key = k.key => t = k
  /\ \A r, k \in ruleRows : r.market = k.market /\ r.text = k.text => r = k
  /\ \A b \in books : b.at \in 1 .. feeds /\ \E l \in listings : l.market = b.book.market
  /\ \A q \in quotes : q.twiceMid # None /\ q.bid = None => q.twiceMid \in 0 .. 2000

\* No rule text is lost, and a text that comes back takes the later time (service.py:916).
RuleTextsAreKept ==
  [][\A r \in ruleRows : \E k \in ruleRows' : k.market = r.market /\ k.text = r.text /\ k.at >= r.at]_feedVars

\* A catalog's synthetic book is crossed only by the venue's own two quotes, or by a single
\* quote closer than a cent to 0 or 1 (kalshi.py:158, polymarket.py:485).
SyntheticBooksUncrossed ==
  \A b \in books :
    b.book.catalog /\ b.book.quote.bid > b.book.quote.ask =>
      IF b.book.sides.bid # None /\ b.book.sides.ask # None
      THEN b.book.sides.bid > b.book.sides.ask
      ELSE (IF b.book.sides.bid # None THEN b.book.sides.bid ELSE b.book.sides.ask) \notin 10 .. 990

InDollars(p) == IF p > 1000 THEN p \div 100 ELSE p

\* A Kalshi book crosses exactly when a YES bid and a NO bid of the raw levels add up to more
\* than a dollar, whatever the unit they are written in.  A bare price of one, a legacy cent,
\* is left out: it is read as a dollar (kalshi.py:375).
KalshiCrossesAsQuoted ==
  \A b \in {k \in books : ~k.book.catalog /\ "yes" \in DOMAIN k.book.content} :
    LET yes == Offered(b.book.content.yes)
        no == Offered(b.book.content.no)
    IN  yes # {} /\ no # {} /\ 1000 \notin yes \cup no =>
          (b.book.quote.bid > b.book.quote.ask
             <=> \E p \in yes, q \in no : InDollars(p) + InDollars(q) > 1000)

\* An outcome is asked for by a token that the venue published for it: labels and ids come
\* from two lists that fall back separately (polymarket.py:590, 613).
TokensBelongToTheirOutcome ==
  \A t \in tokenRows : t.token # None =>
    \E e \in GammaEntries, i \in 1 .. 2 :
      e.published[i] = [outcome |-> t.label, id |-> t.token]

\* A follow-up files what it finds under the market of the token it asked for, adds no
\* mapping, and no mapping forgets an identifier by it (service.py:780, polymarket.py:248).  Only
\* a run that also asks for the detail may file the book of a token that has just moved.
FollowUpsStayHome ==
  [][FollowUp =>
       /\ {m.external : m \in mappings'} = {m.external : m \in mappings}
       /\ \A b \in books' \ books :
            \E t \in tokenRows : t.token = b.book.token /\ t.market = b.book.market
       /\ \A q \in quotes' \ quotes :
            \E t \in tokenRows : t.market = q.market /\ (q.token # None => t.token = q.token)
       /\ \A m \in mappings, n \in mappings' : SameMapping(m, n) =>
            /\ n.market = m.market
            /\ m.event # None => n.event = m.event
            /\ m.symbol # None => n.symbol = m.symbol
            /\ \A k \in DOMAIN m.meta \ {"token"} : m.meta[k] # None => n.meta[k] = m.meta[k]]_feedVars

\* Prices, tokens, rules and identifiers keep their meaning from the payload to the rows, whatever
\* the order in which payloads of a market arrive.
FeedsSound ==
  /\ [](FeedTypeOK /\ SyntheticBooksUncrossed /\ KalshiCrossesAsQuoted /\ TokensBelongToTheirOutcome)
  /\ FollowUpsStayHome /\ RuleTextsAreKept
=============================================================================
