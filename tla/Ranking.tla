------------------------------ MODULE Ranking ------------------------------
(***************************************************************************)
(* What is answered from the cache: filterAndScore, behind rank, book and  *)
(* sample, and buildRouteQuoteResponse, behind quote; with the adapter     *)
(* that turns RunPod's catalogue rows into facts.                          *)
(*                                                                         *)
(* Prices and limits are in tenths of a cent, the effective cost of a quote *)
(* in cents and ages in minutes.  Scores are whole numbers: the code's     *)
(* score times ten (the weights), sixty (the minutes) and the range of the *)
(* prices.  A region is the sequence of its parts, so that the      *)
(* prefix test on names is one on sequences.                               *)
(*                                                                         *)
(* A list a filter has been over is a function on the places it kept, and  *)
(* an element of the cache's facts, taken together, is its place: the feed *)
(* and the row.  Lists that are sorted, and answers, are sequences.        *)
(***************************************************************************)
EXTENDS Integers, SequencesExt

CONSTANTS
  Feeds,           \* the providers, in the order of PROVIDER_ADAPTERS
  RunPod,          \* the one provider with a live feed
  Catalogues,      \* sequences of rows RunPod may answer with
  Lambda,          \* the two providers read from fixture files,
  CoreWeave,
  FixtureRows,     \* [{Lambda, CoreWeave} -> Seq(rows)]: and what the files hold
  Bookable,        \* providers a VendorBooker is registered for
  CacheTTL,        \* CACHE_TTL_SECONDS, in minutes: nothing older is served
  Ages,            \* ages facts may have when they are read
  RankRequests,    \* [gpu, minVram, region, maxPrice, preference]
  QuoteRequests,   \* [region, workload, maxCost, maxRisk]
  Unset            \* an optional field of a request that is left out

Providers == Range(Feeds)

Preferences == {"cheapest", "fastest", "balanced"}

\* Whole numbers of tenths of a cent and of GPUs; what a row says beyond them is free.
ASSUME RankingAssumption ==
  /\ Feeds \in Seq(Providers)
  /\ Providers = {RunPod, Lambda, CoreWeave}
  /\ \A m, n \in DOMAIN Feeds : Feeds[m] = Feeds[n] => m = n
  /\ Bookable \subseteq Providers
  /\ \A rows \in Catalogues :
       /\ rows \in Seq(Range(rows))
       /\ \A row \in Range(rows) : {row.onDemand, row.spot, row.count} \subseteq Int
  /\ \A p \in {Lambda, CoreWeave} :
       /\ FixtureRows[p] \in Seq(Range(FixtureRows[p]))
       /\ \A row \in Range(FixtureRows[p]) : {row.hourly, row.count} \subseteq Int
  /\ CacheTTL \in Nat
  /\ Ages \subseteq 0 .. CacheTTL
  /\ \A request \in RankRequests : request.preference \in Preferences
  /\ \A request \in QuoteRequests : request.maxCost \in Int \cup {Unset}

VARIABLES
  cache,    \* what getStates returns: status and facts of each provider
  answer    \* the answer being given, with its request

vars == <<cache, answer>>

NoAnswer == [route |-> "none"]

NoFacts == << >>

Init ==
  /\ cache = [p \in Providers |-> [status |-> "failed", facts |-> NoFacts]]
  /\ answer = NoAnswer

----------------------------------------------------------------------------
(* The adapters.                                                           *)

NoPrice == -1

\* On demand if there is a price for it, else spot; NoPrice if there is neither.
Rate(row) == IF row.onDemand # NoPrice THEN row.onDemand ELSE row.spot

\* A bug that takes a free row for a bargain.
UsableAnyPrice(row) ==
  /\ Rate(row) # NoPrice
  /\ row.complete
  /\ row.count > 0

\* A row without a usable rate, without its specs, or that the schema refuses,
\* is rejected; the rest become facts, whatever availability RunPod reports.
Usable(row) ==
  /\ Rate(row) # NoPrice
  /\ row.complete
  /\ row.count > 0
  /\ row.count * Rate(row) > 0

\* The rate of the node, for all its GPUs.
Fact(row, age) ==
  [provider     |-> RunPod,
   sku          |-> row.sku,
   gpu          |-> row.gpu,
   vram         |-> row.vram,
   count        |-> row.count,
   infiniband   |-> row.infiniband,
   region       |-> row.region,
   hourly       |-> row.count * Rate(row),
   capacity     |-> IF row.onDemand # NoPrice THEN "on_demand" ELSE "spot",
   availability |-> row.availability,
   age          |-> age]

RunPodFacts(rows, age) ==
  [i \in {k \in DOMAIN rows : Usable(rows[k])} |-> Fact(rows[i], age)]

RefreshRunPod ==
  /\ \E rows \in Catalogues, age \in Ages :
       cache' = [cache EXCEPT ![RunPod] =
                   [status |-> "ok", facts |-> RunPodFacts(rows, age)]]
  /\ answer' = NoAnswer

\* Lambda's adapter drops what Lambda does not report as available.
FixtureUsable(p, row) ==
  /\ p = Lambda => row.offered
  /\ row.complete
  /\ row.count > 0
  /\ row.hourly > 0

\* The rate is the node's already, and no availability tier is reported.
FixtureFact(p, row, age) ==
  [provider     |-> p,
   sku          |-> row.sku,
   gpu          |-> row.gpu,
   vram         |-> 80,
   count        |-> row.count,
   infiniband   |-> row.infiniband,
   region       |-> row.region,
   hourly       |-> row.hourly,
   capacity     |-> row.capacity,
   availability |-> "unreported",
   age          |-> age]

FixtureFacts(p, age) ==
  [i \in {k \in DOMAIN FixtureRows[p] : FixtureUsable(p, FixtureRows[p][k])} |->
     FixtureFact(p, FixtureRows[p][i], age)]

RefreshFixture(p) ==
  /\ \E age \in Ages :
       cache' = [cache EXCEPT ![p] = [status |-> "ok", facts |-> FixtureFacts(p, age)]]
  /\ answer' = NoAnswer

\* A bug that keeps the last good facts of a feed that has failed.
KeepFacts(p) ==
  /\ \E status \in {"failed", "stale"} :
       cache' = [cache EXCEPT ![p].status = status]
  /\ answer' = NoAnswer

\* A failed or stale feed serves nothing.
LoseFacts(p) ==
  /\ \E status \in {"failed", "stale"} :
       cache' = [cache EXCEPT ![p] = [status |-> status, facts |-> NoFacts]]
  /\ answer' = NoAnswer

----------------------------------------------------------------------------
(* filterAndScore.                                                         *)

\* The facts of all feeds, by their places; in getStates' order of the feeds,
\* and in a feed in the order of its rows.
AllFacts ==
  UNION {{<<n, i>> : i \in DOMAIN cache[Feeds[n]].facts} : n \in DOMAIN Feeds}

At(e) == cache[Feeds[e[1]]].facts[e[2]]

Earlier(d, e) == d[1] < e[1] \/ (d[1] = e[1] /\ d[2] < e[2])

\* A bug that offers what nobody can book.
StockOfAll == AllFacts

Stock == {e \in AllFacts : At(e).provider \in Bookable}

Matches(request, f) ==
  /\ request.gpu \in {Unset, f.gpu}
  /\ f.vram >= request.minVram
  /\ request.maxPrice = Unset \/ f.hourly <= request.maxPrice
  /\ request.region = Unset \/ IsPrefix(request.region, f.region)

\* Weights in tenths.
Weights ==
  [cheapest |-> [price |-> 8, freshness |-> 2],
   fastest  |-> [price |-> 2, freshness |-> 8],
   balanced |-> [price |-> 5, freshness |-> 5]]

Cheapest(facts) == Min({f.hourly : f \in facts})
Dearest(facts) == Max({f.hourly : f \in facts})

\* maxPrice - minPrice || 1
PriceRange(facts) == Max({Dearest(facts) - Cheapest(facts), 1})

\* A bug that takes the price above the cheapest for a merit.
ScoreInverted(f, facts, preference) ==
  LET w == Weights[preference]
  IN  w.price * 60 * (f.hourly - Cheapest(facts))
        + w.freshness * PriceRange(facts) * (60 - Min({f.age, 60}))

Score(f, facts, preference) ==
  LET w == Weights[preference]
  IN  w.price * 60 * (PriceRange(facts) - (f.hourly - Cheapest(facts)))
        + w.freshness * PriceRange(facts) * (60 - Min({f.age, 60}))

\* By score, then price, then age; Array.sort is stable.
Precedes(d, e, facts, preference) ==
  LET f == At(d)
      g == At(e)
      S(h) == Score(h, facts, preference)
  IN  \/ S(f) > S(g)
      \/ S(f) = S(g) /\ f.hourly < g.hourly
      \/ S(f) = S(g) /\ f.hourly = g.hourly /\ f.age < g.age
      \/ S(f) = S(g) /\ f.hourly = g.hourly /\ f.age = g.age /\ Earlier(d, e)

\* S as a sequence in the strict total order `before`, a set of pairs.
Sorted(S, before) ==
  [k \in 1 .. Cardinality(S) |->
     CHOOSE e \in S : Cardinality({d \in S : <<d, e>> \in before}) = k - 1]

FactsAt(S) == {At(e) : e \in S}

\* A bug that weighs every request as if it asked for the balanced order.
RankedBalanced(S, preference) ==
  Sorted(S, {p \in S \X S : Precedes(p[1], p[2], FactsAt(S), "balanced")})

Ranked(S, preference) ==
  Sorted(S, {p \in S \X S : Precedes(p[1], p[2], FactsAt(S), preference)})

\* What an answer lists: the facts themselves.
Listed(places) == [k \in DOMAIN places |-> At(places[k])]

FilterAndScore(request) ==
  LET filtered == {e \in Stock : Matches(request, At(e))}
  IN  IF Stock = {} THEN [status |-> "no_inventory", ranked |-> << >>]
      ELSE IF filtered = {} THEN [status |-> "no_match", ranked |-> << >>]
      ELSE [status |-> "ok", ranked |-> Listed(Ranked(filtered, request.preference))]

AnswerRank(request) ==
  /\ answer' = [route |-> "rank", request |-> request, result |-> FilterAndScore(request)]
  /\ UNCHANGED cache

\* The fixed query of the anonymous sample.
SampleRequest == [gpu |-> Unset, minVram |-> 0, region |-> Unset, maxPrice |-> Unset,
                  preference |-> "cheapest"]

AnswerSample ==
  /\ answer' = [route |-> "sample", request |-> SampleRequest,
                result |-> FilterAndScore(SampleRequest)]
  /\ UNCHANGED cache

\* book ranks again and takes the first; a provider nobody can book is refused.
AnswerBook(request) ==
  LET result == FilterAndScore(request)
  IN  /\ answer' = [route |-> "book", request |-> request,
                    result |->
                      IF result.status = "ok" /\ result.ranked[1].provider \notin Bookable
                      THEN [result EXCEPT !.status = "unsupported_provider"]
                      ELSE result]
      /\ UNCHANGED cache

----------------------------------------------------------------------------
(* buildRouteQuoteResponse.                                                *)

\* n / d to the nearest whole number, halves up.
Rounded(n, d) == (2 * n + d) \div (2 * d)

\* Estimated storage and egress per hour, in cents.
Storage == Rounded(500 * 23, 10 * 720)
Egress(workload) == Rounded((IF workload = "inference" THEN 2000 ELSE 200) * 9, 720)

\* The sum, in tenths of a cent: a price has them, the estimates are whole cents.
Summed(f, workload) == f.hourly + 10 * (Storage + Egress(workload))

\* In cents again.
EffectiveCost(f, workload) == Rounded(Summed(f, workload), 10)

Risk(f) == CASE f.capacity = "reserved"  -> 0
             [] f.capacity = "on_demand" -> 1
             [] f.capacity = "spot"      -> 2

TargetSku(f) ==
  /\ f.count = 8 /\ f.gpu = "H100" /\ f.vram = 80
  /\ f.infiniband
  /\ IsPrefix(<<"us">>, f.region)

\* A bug that holds the price, not the effective cost, against the limit.
QuotableByPrice(request, f) ==
  /\ TargetSku(f)
  /\ request.region \in {Unset, f.region}
  /\ request.maxCost = Unset \/ f.hourly <= request.maxCost
  /\ request.maxRisk = Unset \/ Risk(f) <= request.maxRisk

Quotable(request, f) ==
  /\ TargetSku(f)
  /\ request.region \in {Unset, f.region}
  /\ request.maxCost = Unset \/ 10 * EffectiveCost(f, request.workload) <= request.maxCost
  /\ request.maxRisk = Unset \/ Risk(f) <= request.maxRisk

Excluded == {p \in Providers : cache[p].status # "ok"}

\* Only feeds that are ok contribute.
Quoted(request) ==
  {e \in AllFacts : Feeds[e[1]] \notin Excluded /\ Quotable(request, At(e))}

\* By effective cost; the sort is stable.
BuildQuotes(request) ==
  LET cost(f) == EffectiveCost(f, request.workload)
      cheaper == {p \in Quoted(request) \X Quoted(request) :
                    \/ cost(At(p[1])) < cost(At(p[2]))
                    \/ cost(At(p[1])) = cost(At(p[2])) /\ Earlier(p[1], p[2])}
      quotes == Listed(Sorted(Quoted(request), cheaper))
  IN  [quotes   |-> quotes,
       costs    |-> [i \in DOMAIN quotes |-> cost(quotes[i])],
       excluded |-> Excluded]

AnswerQuote(request) ==
  /\ answer' = [route |-> "quote", request |-> request, result |-> BuildQuotes(request)]
  /\ UNCHANGED cache

Next ==
  \/ RefreshRunPod
  \/ \E p \in {Lambda, CoreWeave} : RefreshFixture(p)
  \/ \E p \in Providers : LoseFacts(p)
  \/ \E request \in RankRequests : AnswerRank(request) \/ AnswerBook(request)
  \/ AnswerSample
  \/ \E request \in QuoteRequests : AnswerQuote(request)

Spec == Init /\ [][Next]_vars

----------------------------------------------------------------------------
(* Properties.                                                             *)

Ranking == answer.route \in {"rank", "sample", "book"}

Offers == IF Ranking THEN answer.result.ranked
          ELSE IF answer.route = "quote" THEN answer.result.quotes ELSE << >>

TypeOK ==
  /\ \A p \in Providers : cache[p].status \in {"ok", "failed", "stale"}
  /\ Ranking => answer.result.status \in {"no_inventory", "no_match", "ok"}
  /\ \A f \in Range(Offers) : f.hourly > 0 /\ f.count > 0

Occurrences(f) == Cardinality({k \in DOMAIN Offers : Offers[k] = f})
Copies(f) == Cardinality({e \in AllFacts : At(e) = f})

\* A ranking is complete and no more: every bookable fact that meets the request
\* is in it as often as in the cache, and nothing else is.  The status says "ok"
\* exactly when something is ranked, "no_inventory" exactly when nothing in the
\* cache can be booked, so "no_match" only when there is something to book and
\* none of it fits (rankedScoring.ts:111-148, 168-196).
RankingIsComplete ==
  Ranking =>
    /\ \A f \in FactsAt(AllFacts) \cup Range(Offers) :
         Occurrences(f) = IF f.provider \in Bookable /\ Matches(answer.request, f)
                          THEN Copies(f) ELSE 0
    /\ answer.result.status = "ok" <=> Offers # << >>
    /\ answer.result.status = "no_inventory" <=>
         \A f \in FactsAt(AllFacts) : f.provider \notin Bookable

\* Whatever the preference, nothing is listed above an offer that is cheaper
\* and no older, or as cheap and fresher (rankedScoring.ts:155-172).
NothingAboveABetterOffer ==
  Ranking =>
    \A i, j \in DOMAIN Offers :
      LET f == Offers[i]
          g == Offers[j]
          Better == \/ g.hourly < f.hourly /\ g.age <= f.age
                    \/ g.hourly = f.hourly /\ g.age < f.age
      IN  Better => j < i

\* What a preference is worth: no fact outlives the cache's TTL, so freshness
\* moves a score by the TTL's share of an hour at most, and the recommendation
\* costs no more above the cheapest match than that is worth in its weights: for
\* three minutes 1/80 of the price range for "cheapest", 1/20 for "balanced" and
\* 1/5 for "fastest" (rankedScoring.ts:71-75, 150-172; index.ts:39-49).
PreferenceIsHonoured ==
  (Ranking /\ Offers # << >>) =>
    LET above == Offers[1].hourly - Cheapest(Range(Offers))
        range == Dearest(Range(Offers)) - Cheapest(Range(Offers))
        Within(price, freshness) == price * 60 * above <= freshness * CacheTTL * range
    IN  /\ answer.request.preference = "cheapest" => Within(8, 2)
        /\ answer.request.preference = "balanced" => Within(5, 5)
        /\ answer.request.preference = "fastest" => Within(2, 8)

\* No answer holds a fact of a feed that has failed or gone stale, although
\* filterAndScore never looks at a feed's status (cache.ts:20-30, 59-74).
NothingFromABadFeed ==
  \A f \in Range(Offers) : cache[f.provider].status = "ok"

\* No quote costs more than the caller's limit once storage and egress are in,
\* and what it comes to before the last rounding is above the limit by less than
\* half a cent; quotes come cheapest first (router.ts:40-72,
\* costCalculator.ts:31-36).
QuotesKeepTheLimit ==
  answer.route = "quote" =>
    LET costs == answer.result.costs
        limit == answer.request.maxCost
        before(i) == Summed(answer.result.quotes[i], answer.request.workload)
    IN  \A i \in DOMAIN costs :
          /\ limit = Unset \/ (10 * costs[i] <= limit /\ before(i) < limit + 5)
          /\ i > 1 => costs[i - 1] <= costs[i]

\* rankedScoring.ts:55-58 "every fact reaching this cache has ALREADY passed
\* availability filtering during ingestion".
RankedIsAvailable ==
  Ranking => \A f \in Range(Offers) : f.availability # "none"
=============================================================================
