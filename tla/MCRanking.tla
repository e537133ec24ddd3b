----------------------------- MODULE MCRanking -----------------------------
\* Five catalogues of RunPod's, with rows that are dropped, sold out, doubled
\* or dearer; two fixtures, each with a row to drop.  Lambda can be booked too,
\* CoreWeave cannot.  Some prices have tenths of a cent, and for inference two
\* come to 266.5 and 276.4 cents with storage and egress in: the limits are such
\* that rounding moves the one over its limit and the other under it.
EXTENDS Ranking

Row(sku, onDemand, spot, region, availability) ==
  [sku |-> sku, onDemand |-> onDemand, spot |-> spot, count |-> 1,
   complete |-> TRUE, gpu |-> "H100", vram |-> 80, infiniband |-> FALSE,
   region |-> region, availability |-> availability]

Secure == Row("secure", 2540, NoPrice, <<"us", "ca">>, "high")
Community == Row("community", NoPrice, 2204, <<"us", "tx">>, "none")
Big == [Row("big", 2600, NoPrice, <<"us", "ca">>, "low") EXCEPT !.gpu = "B200", !.vram = 180]
Unpriced == Row("unpriced", NoPrice, NoPrice, <<"eu">>, "low")
Free == Row("free", 0, NoPrice, <<"us", "ca">>, "low")
Bare == [Secure EXCEPT !.complete = FALSE]

MCCatalogues ==
  { << >>, <<Bare, Unpriced>>, <<Secure>>, <<Community, Secure>>, <<Big, Free, Big>> }

Node(sku, hourly, capacity, region) ==
  [sku |-> sku, gpu |-> "H100", count |-> 8, infiniband |-> TRUE,
   region |-> region, hourly |-> hourly, capacity |-> capacity,
   offered |-> TRUE, complete |-> TRUE]

Gone == [Node("gone", 2000, "on_demand", <<"us", "ca">>) EXCEPT !.offered = FALSE]
Torn == [Node("torn", 2100, "on_demand", <<"us", "ca">>) EXCEPT !.complete = FALSE]

MCFeeds == <<"lambda_labs", "runpod", "coreweave">>

MCFixtureRows ==
  [lambda_labs |-> << Gone, Node("sxm5", 2494, "on_demand", <<"us", "ca">>),
                      Node("sxm5", 3500, "on_demand", <<"us", "tx">>) >>,
   coreweave   |-> << Node("pool", 2800, "reserved", <<"us", "tx">>), Torn,
                      Node("spot-pool", 2395, "spot", <<"us", "ca">>) >>]

MCRankRequests ==
  [gpu : {Unset}, minVram : {0}, region : {Unset}, maxPrice : {Unset, 2550},
   preference : {"cheapest", "fastest", "balanced"}]
    \cup
  [gpu : {Unset, "B200"}, minVram : {90}, region : {<<"us", "ca">>},
   maxPrice : {2600}, preference : {"fastest"}]

MCQuoteRequests ==
  [region : {Unset, <<"us", "ca">>}, workload : {"inference", "fine_tuning"},
   maxCost : {Unset, 2665, 2760}, maxRisk : {Unset, 1}]
=============================================================================
