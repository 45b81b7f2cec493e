------------------------------- MODULE MCPricing -------------------------------
(***************************************************************************)
(* A chain on the pattern of Berachain, one handler of every kind: HONEY   *)
(* is stable, WBERA and OHM price each other and HONEY in a circle, and    *)
(* two handlers share the OHM-HONEY island.  DEAD has no way to a stable   *)
(* coin, NEW is not active yet.  A third share of the island is owned but  *)
(* prices nothing.  One other snapshot reads the island at an earlier      *)
(* block.                                                                  *)
(***************************************************************************)
EXTENDS Pricing

Source(id, kind, tokens) ==
    [id |-> id, kind |-> kind, tokens |-> tokens, coins |-> tokens, pool |-> id, start |-> 1,
     known |-> TRUE, balance |-> <<>>, supply |-> 0, lp |-> "", depth |-> 0, ratio |-> 0]

MCHandlers ==
    << Source("stable", "stable", <<"HONEY">>),
       [Source("feed", "chainlink", <<"USDC">>) EXCEPT !.ratio = 12],
       [Source("HONEY-WBERA", "univ3", <<"HONEY", "WBERA">>) EXCEPT
           !.balance = "HONEY" :> 24 @@ "WBERA" :> 4, !.depth = 9],
       [Source("OHM-HONEY", "kodiak", <<"HONEY", "OHM">>) EXCEPT !.pool = "island", !.lp = "island",
           !.balance = "HONEY" :> 40 @@ "OHM" :> 2, !.depth = 5, !.supply = 8],
       [Source("OHM-HONEY vault", "kodiak", <<"HONEY", "OHM">>) EXCEPT !.pool = "island", !.lp = "vault",
           !.balance = "HONEY" :> 40 @@ "OHM" :> 2, !.depth = 5, !.supply = 8],
       [Source("OHM-WBERA", "univ2", <<"OHM", "WBERA">>) EXCEPT
           !.balance = "OHM" :> 2 @@ "WBERA" :> 6, !.supply = 4],
       [Source("OHM-WBERA new", "univ3", <<"OHM", "WBERA">>) EXCEPT !.start = 3],
       Source("DEAD-NEW", "univ3", <<"DEAD", "NEW">>),
       [Source("BERA", "remap", <<"BERA">>) EXCEPT !.coins = <<"WBERA">>],
       [Source("LBGT-BERA", "balancer", <<"LBGT", "BERA", "BPT">>) EXCEPT !.coins = <<"LBGT", "BERA">>,
           !.lp = "BPT", !.balance = "LBGT" :> 3 @@ "BERA" :> 6, !.supply = 6],
       [Source("index", "gohm", <<"gOHM">>) EXCEPT !.coins = <<"OHM">>, !.ratio = 3],
       [Source("sHONEY", "erc4626", <<"sHONEY">>) EXCEPT !.coins = <<"HONEY">>, !.ratio = 2],
       [Source("curve", "curve", <<"CRV">>) EXCEPT !.coins = <<"OHM", "gOHM", "sHONEY">>,
           !.balance = "OHM" :> 0 @@ "gOHM" :> 2 @@ "sHONEY" :> 3, !.supply = 2],
       [Source("frax", "fraxswap", <<"FRAX">>) EXCEPT !.coins = <<"DEAD", "USDC">>,
           !.balance = "DEAD" :> 5 @@ "USDC" :> 4, !.supply = 2] >>

MCOwned ==
    { [Source("OHM-HONEY infrared", "kodiak", <<"HONEY", "OHM">>) EXCEPT !.pool = "island", !.lp = "infrared",
           !.balance = "HONEY" :> 40 @@ "OHM" :> 2, !.depth = 5, !.supply = 8] }

MCBlockOf == "snapshot" :> 2 @@ "other" :> 1

MCInvariant == {<<"weights", "LBGT-BERA">>}

MCReads == {<<"reserves", "island">>, <<"weights", "LBGT-BERA">>}

MCRequests ==
    {PriceKey(t, NoPool) : t \in {"OHM", "LBGT", "BPT", "CRV", "FRAX", "DEAD"}}
    \cup {<<"total", "OHM-HONEY", {"OHM"}>>, <<"unit", "OHM-HONEY">>,
          <<"total", "OHM-HONEY infrared", {"OHM"}>>}
=============================================================================
