---------------------------- MODULE GlobalSnapshot ----------------------------
(***************************************************************************)
(* The eight-hour snapshots of all chains and the rows they share.  A      *)
(* snapshot builds the records and supplies of its chain, stores them,     *)
(* replaces the chain's ChainMetricValues of the day and recomputes the    *)
(* day's GlobalMetricSnapshot, which every chain writes, from what it      *)
(* finds of the other chains.  Chains are indexed independently of each    *)
(* other.  One action is one onBlock callback: Envio commits the entity    *)
(* operations of a callback together.                                      *)
(*                                                                         *)
(* Snapshot n of a chain stands for the block and the time it is taken at. *)
(***************************************************************************)
EXTENDS BondAuctions

CONSTANTS
    Readings,      \* of each chain, in order: what a snapshot may read, whose
                   \* number bounds the snapshots
    PerDay,        \* snapshots in one UTC day
    MaxIndex       \* bound: largest sOHM index

ASSUME GlobalAssumption == PerDay \in Nat \ {0} /\ DOMAIN Readings = Chain

VARIABLES
    at,            \* number of the last snapshot of each chain
    values,        \* ChainMetricValues, by <<date, chain>>
    global,        \* GlobalMetricSnapshot, by date
    categories,    \* ChainSupplyCategory, by <<date, chain, type>>
    stored,        \* TokenRecord and TokenSupply rows of the last snapshot
    native,        \* NativeBalanceState, by <<chain, wallet>>
    index,         \* OhmIndexState, 0 before the first rebase
    canonical      \* history: what Ethereum last computed for each date

snapshotVars == <<at, values, global, categories, stored, native, canonical>>
vars == <<snapshotVars, index, bondVars>>

Date(n) == n \div PerDay

Init ==
    /\ BondInit
    /\ at = [c \in Chain |-> 0]
    /\ values = <<>> /\ global = <<>> /\ categories = <<>> /\ native = <<>>
    /\ stored = [c \in Chain |-> [records |-> <<>>, supplies |-> {}]]
    /\ index = 0 /\ canonical = <<>>

-----------------------------------------------------------------------------
(* computePerChainAggregate                                                *)

(* OHM counts at the buyback wallet only.  The builders make records of    *)
(* stable and volatile tokens and of pool positions, and no table has a    *)
(* token of another category, so that the rule never comes to bear.        *)
IsOhm(record) == record.category = "OHM"
IsBuyback(record, block) == block >= BuybackInclusion /\ record.source = BuybackMs

MarketValue(records, block) ==
    SumOf({x \in records : ~IsOhm(x) \/ IsBuyback(x, block)}, LAMBDA x : x.value)

LiquidBacking(records) ==
    SumOf({x \in records : ~IsOhm(x) /\ x.liquid}, LAMBDA x : x.excluding)

SupplyOf(supplies, types) ==
    SumOf({s \in supplies : s.type \in types}, LAMBDA s : s.supply)

OutOfCirculation ==
    {"Total Supply", "Treasury", "Offset", "Preminted", "VestingDeposits", "BondDeposits"}

PerChain(c, block, records, supplies) ==
    LET circulating == SupplyOf(supplies, OutOfCirculation
                          \cup IF c = ETHEREUM /\ block < BlvInclusion THEN {"BLV"} ELSE {})
    IN [total       |-> SupplyOf(supplies, {"Total Supply"}),
        circulating |-> circulating,
        floating    |-> circulating + SupplyOf(supplies, {"Liquidity"}),
        backed      |-> SupplyOf(supplies, OutOfCirculation \cup {"Liquidity", "BLV", "Lending"}),
        market      |-> MarketValue(records, block),
        liquid      |-> LiquidBacking(records)]

Bucket(supplies, type) ==
    [balance |-> SumOf({s \in supplies : s.type = type}, LAMBDA s : s.balance),
     supply  |-> SupplyOf(supplies, {type})]

(* aggregateAcrossChains: of is a function from chains to their values.    *)
Additive == {"total", "circulating", "floating", "backed", "market", "liquid"}

Across(of) ==
    [sums     |-> [f \in Additive |-> SumOf(DOMAIN of, LAMBDA c : of[c][f])],
     indexed  |-> DOMAIN of,
     missing  |-> Chain \ DOMAIN of,
     complete |-> {ARBITRUM, ETHEREUM} \subseteq DOMAIN of]

(* A quotient is kept as its two terms, <<0, 0>> standing for the code's 0.*)
Ratio(a, b) == IF a = 0 \/ b = 0 THEN <<0, 0>> ELSE <<a, b>>

(* Price, staked supply and growth: the fields only Ethereum knows.        *)
NoCanonical == [price |-> 0, staked |-> 0, apy |-> <<0, 0>>]

CanonicalOf(block, r) ==
    [price  |-> Price(r, Config[ETHEREUM].ohm),
     staked |-> StakedSupply(r),
     apy    |-> Ratio(NextDistribution(ETHEREUM, block, r), StakedSupply(r))]

(* The derived fields of the shared row.                                   *)
Derived(sums, known) ==
    [marketCap |-> known.price * sums.circulating,
     gOhmPrice |-> known.price * index,
     locked    |-> known.staked * known.price,
     gOhmBacked |-> Ratio(sums.backed, index),
     perFloating |-> Ratio(sums.liquid, sums.floating),
     perBacked   |-> Ratio(sums.liquid, sums.backed),
     perGOhm     |-> IF index = 0 THEN <<0, 0>> ELSE Ratio(sums.liquid * index, sums.backed)]

(* The chains whose row of the day the query shows.  Its own row was set   *)
(* just before and may be missing (stale).                                 *)
Shown(c, date, stale) ==
    {x \in Chain \ {c} : <<date, x>> \in DOMAIN values} \cup (IF stale THEN {} ELSE {c})

(* Mutants: the chain's own values are not added when the query does not   *)
(* show its row, and the row of an earlier snapshot is preferred to them.  *)
SeenOnly(c, date, mine, stale) ==
    [x \in Shown(c, date, stale) |-> IF x = c THEN mine ELSE values[<<date, x>>]]

SeenBefore(c, date, mine, stale) ==
    [x \in Shown(c, date, stale) \cup {c} |->
        IF <<date, x>> \in DOMAIN values THEN values[<<date, x>>] ELSE mine]

(* The values of the day as the snapshot of c combines them.               *)
Combined(c, date, mine, stale) ==
    [x \in Shown(c, date, stale) \cup {c} |-> IF x = c THEN mine ELSE values[<<date, x>>]]

(* Mutant: other chains write zeros.                                       *)
KnownToWriter(c, date, r) == IF c = ETHEREUM THEN CanonicalOf(at[c] + 1, r) ELSE NoCanonical

Known(c, date, r) ==
    IF c = ETHEREUM THEN CanonicalOf(at[c] + 1, r)
    ELSE IF date \in DOMAIN global THEN global[date].known ELSE NoCanonical

UpdateGlobal(c, date, r, records, supplies) ==
    \E mine \in {PerChain(c, at[c] + 1, records, supplies)} :
    \E all \in {Across(Combined(c, date, mine, stale)) : stale \in BOOLEAN},
       known \in {Known(c, date, r)} :
       /\ values' = Upsert(values, <<date, c>>, mine)
       /\ global' = Upsert(global, date, [aggregate |-> all, known |-> known, index |-> index,
                                          derived |-> Derived(all.sums, known)])
       /\ categories' = UpsertAll(categories,
                [k \in {<<date, c, s.type>> : s \in supplies} |-> Bucket(supplies, k[3])])
       /\ canonical' = IF c = ETHEREUM THEN Upsert(canonical, date, known) ELSE canonical

(* Rows are stored in the order they were built: of rows with one id the   *)
(* last stays.                                                             *)
LastById(rows) ==
    [i \in {x.id : x \in rows} |->
        CHOOSE x \in rows : x.id = i /\ \A y \in rows : y.id = i => y.part <= x.part]

Snapshot(c) ==
    LET n == at[c] + 1 IN
    /\ n \in DOMAIN Readings[c]
    /\ at' = [at EXCEPT ![c] = n]
    /\ \E r \in Readings[c][n] :
       \E records \in {Records(c, n, r)},
          supplies \in {PlainSupplies(c, n, r, index) \cup BondSupply(c, n, r)} :
          /\ stored' = [stored EXCEPT ![c] = [records |-> LastById(records), supplies |-> supplies]]
          /\ native' = UpsertAll(native,
                [k \in {c} \X DOMAIN NativeRows(c, n, r) |-> NativeRows(c, n, r)[k[2]]])
          /\ \/ /\ records = {} /\ supplies = {}
                /\ UNCHANGED <<values, global, categories, canonical>>
             \/ /\ records # {} \/ supplies # {}
                /\ UpdateGlobal(c, Date(n), r, records, supplies)
    /\ UNCHANGED <<index, bondVars>>

(* A rebase on Ethereum, HandleReport of PoolLedger.                       *)
Rebase ==
    /\ index < MaxIndex
    /\ index' = index + 1
    /\ UNCHANGED <<snapshotVars, bondVars>>

BondEvent ==
    /\ \/ \E m \in Market : GnosisAuctionLaunched(m, Capacity, Term)
       \/ \E m \in Market : AuctionCleared(m, Bid, at[ETHEREUM])
       \/ BurnBonds(Bid)
    /\ UNCHANGED <<snapshotVars, index>>

Next == (\E c \in Chain : Snapshot(c)) \/ Rebase \/ BondEvent

Spec == Init /\ [][Next]_vars

-----------------------------------------------------------------------------
(* The shared row of a day is the sum of the values its chains last wrote  *)
(* for that day, lists exactly these chains and is complete once Arbitrum  *)
(* and Ethereum are among them (updateGlobalMetricSnapshot), in whatever   *)
(* order and however often the chains write.                               *)
RowSumsChains ==
    \A d \in {k[1] : k \in DOMAIN values} :
        /\ d \in DOMAIN global
        /\ global[d].aggregate = Across([c \in {k[2] : k \in {x \in DOMAIN values : x[1] = d}}
                                            |-> values[<<d, c>>]])

(* Once Ethereum has had a snapshot of a day, price, staked supply and     *)
(* growth in the day's row are those of its last one, whichever chains     *)
(* wrote the row before, between and after.                                *)
CanonicalSurvives ==
    \A d \in DOMAIN canonical :
        d \in DOMAIN global /\ global[d].known = canonical[d]

(* "If Ethereum has not produced a snapshot yet for this date, these       *)
(* fields hold the previous canonical values until it does" (lines 42-45   *)
(* of schema.graphql): the row of a new day starts with the values of the  *)
(* last day that Ethereum computed.  The code starts it with zeros: it     *)
(* reads no row but that of the day itself (updateGlobalMetricSnapshot).   *)
CanonicalHeld ==
    [][\A d \in DOMAIN global' \ DOMAIN canonical', e \in DOMAIN canonical :
          (d \notin DOMAIN global /\ e < d /\ \A o \in DOMAIN canonical : o <= e)
              => global'[d].known = canonical[e]]_vars

(* A day that was complete stays complete, which is what lets the publisher*)
(* treat the latest complete day as progress (fetchBounds).                *)
CompleteStaysComplete ==
    [][\A d \in DOMAIN global :
          global[d].aggregate.complete => global'[d].aggregate.complete]_vars

(* The rows of a snapshot attribute to the bond manager the OHM that it    *)
(* holds, up to the bids of all cleared auctions, as long as some auction  *)
(* has vested: burns reduce the vested deposits and nothing else.          *)
BondDepositsWithinBalance ==
    [][(at'[ETHEREUM] # at[ETHEREUM] /\ \E s \in stored'[ETHEREUM].supplies : s.type = "BondDeposits")
        => LET now == at'[ETHEREUM]
               all == BidsOf(Vesting(now)) + BidsOf(Vested(now))
           IN SumOf(DepositRows(stored'[ETHEREUM].supplies), LAMBDA s : s.balance)
                = IF bondHeld < all THEN bondHeld ELSE all]_vars

(* The TokenRecord rows of a chain's last snapshot add up to the market    *)
(* value and the liquid backing that ChainMetricValues shows for it: a     *)
(* reader of the records can recompute the metrics.                        *)
RecordsAddUp ==
    \A c \in Chain :
        LET rows == {stored[c].records[i] : i \in DOMAIN stored[c].records}
        IN (rows # {} \/ stored[c].supplies # {}) =>
              /\ values[<<Date(at[c]), c>>].market = MarketValue(rows, at[c])
              /\ values[<<Date(at[c]), c>>].liquid = LiquidBacking(rows)

(* Backed, floating and circulating supply each leave out more than the    *)
(* next, and none exceeds the total, whatever auctions, vaults, lending    *)
(* and burns do and on both sides of the inclusion block of the vaults.    *)
SuppliesNested ==
    \A k \in DOMAIN values :
        /\ values[k].backed <= values[k].floating
        /\ values[k].floating <= values[k].circulating
        /\ values[k].circulating <= values[k].total

(* An auction that has vested is deducted from the supply with the OHM     *)
(* that is still at the bond manager, "fully vested -> deposits at         *)
(* BondManager, scaled down by any partial OHM burns" (GnosisAuctions.ts). *)
VestedDepositsDeducted ==
    [][LET now == at'[ETHEREUM]
       IN (/\ now # at[ETHEREUM] /\ stored'[ETHEREUM].supplies # {}
           /\ Vested(now) # {} /\ bondHeld > BidsOf(Vesting(now)))
        => \E s \in stored'[ETHEREUM].supplies : s.type = "BondDeposits" /\ s.balance > 0]_vars
=============================================================================
