------------------------------ MODULE MCSnapshot ------------------------------
(***************************************************************************)
(* Three chains with one instance of what each builder treats: Ethereum,   *)
(* Arbitrum and a chain whose OHM token is gOHM.  The block thresholds lie *)
(* inside the run.  Amounts are small; those of the auctions are multiples *)
(* of 12, so that the pro-rated bids of two auctions are whole.            *)
(***************************************************************************)
EXTENDS GlobalSnapshot, TLC

CONSTANTS
    MCDeposits,  \* Treasure deposit slots of a wallet
    m1, m2

Token(t, category) == [Undefined(t) EXCEPT !.category = category]

Plain ==
    [tokens |-> {}, wallets |-> {"treasury"}, circulating |-> {"treasury"}, blacklist |-> {},
     ohm |-> "OHM", ohmStart |-> 1, gohm |-> FALSE, native |-> "", handlers |-> {}, deposits |-> {},
     coolers |-> {}, nftPools |-> {}, equivalents |-> {}, amos |-> {}, markets |-> {}, vaults |-> {},
     offsets |-> {}, bondStart |-> 1, staking |-> {}]

MCConfig ==
    "ethereum" :>
        [Plain EXCEPT
            !.tokens = {Token("DAI", "Stable"), Token("ETH", "Volatile"),
                        [Token("LUSD", "Stable") EXCEPT !.liability = TRUE, !.start = 2],
                        [Token("veFXS", "Volatile") EXCEPT !.liquid = FALSE, !.nonStandard = TRUE]},
            !.wallets = {"treasury", "amo", "clearinghouse"},
            !.blacklist = {<<"ETH", "amo">>},
            !.native = "ETH",
            !.handlers = {[id |-> "OHM-DAI", lp |-> "SLP", tokens |-> {"OHM", "DAI"}, start |-> 1],
                          [id |-> "feed", lp |-> "", tokens |-> {"DAI"}, start |-> 1]},
            !.coolers = {[id |-> "clearinghouse", label |-> "DAI - Borrowed", token |-> "DAI",
                           priceToken |-> "DAI", start |-> 2, mono |-> FALSE],
                         [id |-> "monocooler", label |-> "USDS - Borrowed", token |-> "USDS",
                           priceToken |-> "DAI", start |-> 3, mono |-> TRUE]},
            !.nftPools = {[id |-> "OHM-ETH", token0 |-> "OHM", token1 |-> "ETH", start |-> 1]},
            !.equivalents = {[start |-> 2, token |-> "gOHM", viaIndex |-> TRUE]},
            !.vaults = {[id |-> "vault", start |-> 1]},
            !.offsets = {[start |-> 1, end |-> 3, ohm |-> 2]},
            !.staking = {[id |-> "v1", start |-> 0], [id |-> "v2", start |-> 1]}]
    @@ "arbitrum" :>
        [Plain EXCEPT
            !.tokens = {Token("JONES", "Volatile"), Token("MAGIC", "Volatile")},
            !.deposits = MCDeposits,
            !.amos = {"silo"},
            !.markets = {[id |-> "euler", start |-> 1]}]
    @@ "polygon" :>
        [Plain EXCEPT
            !.tokens = {Token("DAI", "Stable")},
            !.gohm = TRUE,
            !.handlers = {[id |-> "gOHM-DAI", lp |-> "SLP", tokens |-> {"OHM", "DAI"}, start |-> 1]}]

EthereumReading ==
    <<"supply">> :> 200 @@ <<"bondActive">> :> 1 @@ <<"staked">> :> 7 
    @@ <<"distribution", "v1">> :> 2 @@ <<"distribution", "v2">> :> 1
    @@ <<"price", "OHM">> :> 11 @@ <<"price", "DAI">> :> 1 @@ <<"price", "ETH">> :> 3
    @@ <<"price", "LUSD">> :> 1 @@ <<"price", "veFXS">> :> 2
    @@ <<"ledger", "DAI", "treasury">> :> 20 @@ <<"ledger", "DAI", "amo">> :> 5
    @@ <<"ledger", "LUSD", "treasury">> :> 2 @@ <<"balanceOf", "veFXS", "treasury">> :> 4
    @@ <<"native", "treasury">> :> 1 @@ <<"native", "amo">> :> 6
    @@ <<"ledger", "SLP", "treasury">> :> 2 @@ <<"total", "OHM-DAI">> :> 40
    @@ <<"included", "OHM-DAI">> :> 20 @@ <<"unit", "OHM-DAI">> :> 10
    @@ <<"underlying", "OHM-DAI", "treasury">> :> 2
    @@ <<"receivable", "clearinghouse">> :> 9 @@ <<"debt", "monocooler">> :> 4
    @@ <<"nft", "treasury", "OHM-ETH", "OHM">> :> 3 @@ <<"nft", "treasury", "OHM-ETH", "ETH">> :> 8
    @@ <<"ledger", "OHM", "treasury">> :> 6 @@ <<"ledger", "gOHM", "treasury">> :> 1
    @@ <<"blv", "vault">> :> 13

(* Later in the day the price has moved, and sOHM and a staking call fail. *)
EthereumMoved ==
    <<"price", "OHM">> :> 12 @@ <<"staked">> :> 0 @@ <<"distribution", "v1">> :> 0 @@ EthereumReading

ArbitrumReading ==
    <<"supply">> :> 50 @@ <<"price", "JONES">> :> 2 @@ <<"price", "MAGIC">> :> 3
    @@ <<"ledger", "JONES", "treasury">> :> 4 @@ <<"jones", "treasury">> :> 5
    @@ <<"deposit", "treasury", 1>> :> 6 @@ <<"deposit", "treasury", 2>> :> 7
    @@ <<"amo", "silo">> :> 8 @@ <<"ledger", "euler", "treasury">> :> 9

(* Before the first rebase there is nothing to report.                     *)
PolygonReading == <<"supply">> :> 5 @@ <<"ledger", "OHM", "treasury">> :> 1
                  @@ <<"underlying", "gOHM-DAI", "treasury">> :> 1

MCReadings ==
    "ethereum" :> <<{EthereumReading}, {EthereumReading}, {EthereumReading, EthereumMoved}>>
    @@ "arbitrum" :> <<{ArbitrumReading}, {ArbitrumReading}>>
    @@ "polygon" :> <<{PolygonReading}>>

Symmetric == Permutations(Market)
=============================================================================
