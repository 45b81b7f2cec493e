--------------------------- MODULE SnapshotRecords ---------------------------
(***************************************************************************)
(* The rows one snapshot of one chain is made of: the TokenRecord builders *)
(* (what the treasury holds) and the TokenSupply builders (what is taken   *)
(* off the OHM supply) of BlockHandlers.ts and of the per-protocol files   *)
(* beside it.                                                              *)
(*                                                                         *)
(* Everything a builder reads at the snapshot block is an entry of the     *)
(* snapshot's readings r, a function from what is read to an integer:      *)
(* ledgers, balanceOf results, prices, pool values, effects.  The builders *)
(* treat an absent row, a zero and an unreadable value ("", null) alike,   *)
(* so an absent entry reads as 0.  Amounts are in whole units; the index   *)
(* is the sOHM index, 0 before Ethereum's first rebase.                    *)
(***************************************************************************)
EXTENDS Rows, Integers, FiniteSets, FiniteSetsExt

CONSTANTS
    Chain,            \* the chains of CHAIN_CONFIGS
    ETHEREUM,         \* the chain that knows price, index and auctions
    ARBITRUM,         \* the chain with Jones, Treasure and lending
    Config,           \* the configuration of each chain, snapshot/chains/
    JonesWriteOff,    \* block from which staked JONES are worth nothing
    DynamicLending,   \* block from which AMOs count as lending
    BlvInclusion,     \* block from which vaults no longer reduce circulation
    BuybackInclusion, \* block from which OHM at the buyback wallet counts
    BuybackMs         \* that wallet

ASSUME SnapshotAssumption ==
    /\ {ETHEREUM, ARBITRUM} \subseteq Chain /\ ETHEREUM # ARBITRUM
    /\ DOMAIN Config = Chain
    /\ \A c \in Chain : /\ Config[c].circulating \subseteq Config[c].wallets
                        /\ Config[c].deposits \subseteq Nat
                        /\ \A o \in Config[c].offsets : o.ohm \in Nat
                        /\ IsFiniteSet(Config[c].wallets) /\ IsFiniteSet(Config[c].nftPools)
                        /\ IsFiniteSet(Config[c].handlers) /\ IsFiniteSet(Config[c].equivalents)
                        /\ IsFiniteSet(Config[c].amos) /\ IsFiniteSet(Config[c].markets)
                        /\ IsFiniteSet(Config[c].vaults) /\ IsFiniteSet(Config[c].offsets)

Read(r, what) == IF what \in DOMAIN r THEN r[what] ELSE 0

Price(r, t) == Read(r, <<"price", t>>)

Active(definition, block) == block >= definition.start

(* getTokenDefinition, and the defaults for what is not a token.           *)
Undefined(t) ==
    [id |-> t, start |-> 0, category |-> "Unknown", multiplier |-> 1,
     liability |-> FALSE, liquid |-> TRUE, nonStandard |-> FALSE]

Definition(c, t) ==
    LET found == {d \in Config[c].tokens : d.id = t}
    IN IF found = {} THEN Undefined(t) ELSE CHOOSE d \in found : TRUE

SumOf(rows, F(_)) == MapThenSumSet(F, rows)

-----------------------------------------------------------------------------
(* The effects: reads of contracts at the block of the snapshot.  A call   *)
(* that reverts reads as nothing; of several calls only its own part is    *)
(* left out.                                                               *)

BalanceOf(r, t, wallet) == Read(r, <<"balanceOf", t, wallet>>)

NativeBalance(r, wallet) == Read(r, <<"native", wallet>>)

PrincipalReceivables(r, k) == Read(r, <<"receivable", k>>)

MonoCoolerDebt(r, k) == Read(r, <<"debt", k>>)

(* What a wallet's NFT positions in a pool hold of a token, summed.        *)
PositionAmount(r, wallet, pool, t) == Read(r, <<"nft", wallet, pool, t>>)

(* The vaults of the registry that answer; one that does not is left out.  *)
VaultShares(c, r) ==
    [v \in {x \in Config[c].vaults : Read(r, <<"blv", x.id>>) # 0} |-> Read(r, <<"blv", v.id>>)]

BondManagerActive(r) == Read(r, <<"bondActive">>) # 0

StakedSupply(r) == Read(r, <<"staked">>)

(* The next rebase of the staking contracts that have started.             *)
NextDistribution(c, block, r) ==
    SumOf({s \in Config[c].staking : block > s.start}, LAMBDA s : Read(r, <<"distribution", s.id>>))

-----------------------------------------------------------------------------
(* Token records.  A row's id is made of the names of its source and token *)
(* (date, chain and block are those of the snapshot); part tells rows with *)
(* one id apart.                                                           *)

(* Mutant: the id without the source.                                      *)
RecordIdOfToken(source, name) == <<name>>

RecordId(source, name) == <<source, name>>

TokenRecord(c, t, name, source, rate, balance) ==
    LET d     == Definition(c, t)
        value == IF d.liability THEN -(balance * rate) ELSE balance * rate
    IN [id |-> RecordId(source, name), part |-> 0, source |-> source,
        value |-> value, excluding |-> value * d.multiplier,
        category |-> d.category, liquid |-> d.liquid]

(* A pool position: its value is split by the pool's share of other tokens.*)
PoolRecord(c, pool, wallet, rate, balance, included, total) ==
    [TokenRecord(c, pool, pool, wallet, rate, balance) EXCEPT
        !.excluding = (balance * rate * included) \div total,
        !.category = "POL"]

LedgerBalance(c, t, wallet, r) ==
    IF Definition(c, t).nonStandard
    THEN BalanceOf(r, t, wallet)
    ELSE Read(r, <<"ledger", t, wallet>>)

Balance(c, t, wallet, r) ==
    IF t = Config[c].native THEN NativeBalance(r, wallet)
    ELSE LedgerBalance(c, t, wallet, r)

Priced(c, block, r) ==
    {d \in Config[c].tokens :
        /\ d.category \in {"Stable", "Volatile"}
        /\ Active(d, block)
        /\ Price(r, d.id) # 0}

WalletsFor(c, t) == {w \in Config[c].wallets : <<t, w>> \notin Config[c].blacklist}

TokenBalanceRecords(c, block, r) ==
    UNION {{TokenRecord(c, d.id, d.id, w, Price(r, d.id), Balance(c, d.id, w, r)) :
                w \in {x \in WalletsFor(c, d.id) : Balance(c, d.id, x, r) # 0}} :
           d \in Priced(c, block, r)}

(* readNativeBalance also keeps what it read in NativeBalanceState.        *)
NativeRows(c, block, r) ==
    [w \in {x \in Config[c].wallets : \E d \in Priced(c, block, r) :
                d.id = Config[c].native /\ x \in WalletsFor(c, d.id)}
        |-> NativeBalance(r, w)]

(* Handlers whose LP is a token; the other kinds have lp = "".             *)
OwnedLiquidityRecords(c, block, r) ==
    LET valued == {h \in Config[c].handlers :
                      /\ Active(h, block) /\ h.lp # ""
                      /\ Read(r, <<"total", h.id>>) # 0
                      /\ Read(r, <<"unit", h.id>>) # 0}
    IN UNION {{PoolRecord(c, h.id, w, Read(r, <<"unit", h.id>>), LedgerBalance(c, h.lp, w, r),
                          Read(r, <<"included", h.id>>), Read(r, <<"total", h.id>>)) :
                   w \in {x \in Config[c].wallets : LedgerBalance(c, h.lp, x, r) # 0}} :
              h \in valued}

Staked(c, block, r, t) ==
    c = ARBITRUM /\ (\E d \in Config[c].tokens : d.id = t /\ Active(d, block)) /\ Price(r, t) # 0

JonesRecords(c, block, r) ==
    {[TokenRecord(c, "JONES", "JONES - Staked", w, Price(r, "JONES"), Read(r, <<"jones", w>>))
        EXCEPT !.excluding = IF block >= JonesWriteOff THEN 0 ELSE @] :
        w \in {x \in Config[c].wallets : Staked(c, block, r, "JONES") /\ Read(r, <<"jones", x>>) # 0}}

(* One row per deposit, all of a wallet's under one id.                    *)
TreasureRecords(c, block, r) ==
    UNION {{[TokenRecord(c, "MAGIC", "MAGIC - Staked", w, Price(r, "MAGIC"), Read(r, <<"deposit", w, n>>))
                EXCEPT !.liquid = FALSE, !.part = n] :
                n \in {k \in Config[c].deposits : Read(r, <<"deposit", w, k>>) # 0}} :
           w \in {x \in Config[c].wallets : Staked(c, block, r, "MAGIC")}}

Receivable(k, r) == IF k.mono THEN MonoCoolerDebt(r, k.id) ELSE PrincipalReceivables(r, k.id)

CoolerRecords(c, block, r) ==
    {TokenRecord(c, k.token, k.label, k.id, Price(r, k.priceToken), Receivable(k, r)) :
        k \in {x \in Config[c].coolers :
                  /\ Active(x, block)
                  /\ Receivable(x, r) # 0
                  /\ Price(r, x.priceToken) # 0}}

(* The two sides of a wallet's NFT positions in a pool, summed.            *)
NftValue(r, w, p, t) == PositionAmount(r, w, p.id, t) * Price(r, t)
NftTotal(r, w, p) == NftValue(r, w, p, p.token0) + NftValue(r, w, p, p.token1)

NftPositions(c, block, r, w) ==
    {p \in Config[c].nftPools : Active(p, block) /\ NftTotal(r, w, p) > 0}

NftRecords(c, block, r) ==
    UNION {{PoolRecord(c, p.id, w, NftTotal(r, w, p), 1,
                NftTotal(r, w, p) - (IF Config[c].ohm \in {p.token0, p.token1}
                                     THEN NftValue(r, w, p, Config[c].ohm) ELSE 0),
                NftTotal(r, w, p)) : p \in NftPositions(c, block, r, w)} :
           w \in Config[c].wallets}

Records(c, block, r) ==
    TokenBalanceRecords(c, block, r) \cup OwnedLiquidityRecords(c, block, r)
        \cup JonesRecords(c, block, r) \cup TreasureRecords(c, block, r)
        \cup CoolerRecords(c, block, r) \cup NftRecords(c, block, r)

-----------------------------------------------------------------------------
(* Token supplies.                                                         *)

TokenSupply(type, token, pool, source, balance, sign) ==
    [id |-> <<token, type, pool, source>>, type |-> type,
     balance |-> balance, supply |-> sign * balance]

Deduction(type, token, pool, source, balance) ==
    TokenSupply(type, token, pool, source, balance, -1)

(* getOhmEquivalentMultiplier; 0 where the code has null.                  *)
Multiplier(c, index) == IF Config[c].gohm THEN index ELSE 1

TotalSupply(c, block, r, index) ==
    LET balance == Read(r, <<"supply">>) * Multiplier(c, index)
    IN IF block < Config[c].ohmStart \/ balance = 0 THEN {}
       ELSE {TokenSupply("Total Supply", Config[c].ohm, "", "", balance, 1)}

TreasuryOhm(c, block, r, index) ==
    LET kept == [start |-> Config[c].ohmStart, token |-> Config[c].ohm, viaIndex |-> Config[c].gohm]
        raw(e, w) == IF e = kept THEN LedgerBalance(c, e.token, w, r)
                     ELSE Read(r, <<"ledger", e.token, w>>)
        units(e)  == IF e.viaIndex THEN index ELSE 1
    IN IF block < Config[c].ohmStart \/ Multiplier(c, index) = 0 THEN {}
       ELSE UNION {{Deduction("Treasury", e.token, "", w, raw(e, w) * units(e)) :
                        w \in {v \in Config[c].circulating : raw(e, v) * units(e) # 0}} :
                   e \in {x \in {kept} \cup Config[c].equivalents : Active(x, block)}}

OwnedLiquiditySupply(c, block, r, index) ==
    LET ohm(h, w) == Read(r, <<"underlying", h.id, w>>) * Multiplier(c, index)
    IN UNION {{Deduction("Liquidity", Config[c].ohm, h.id, w, ohm(h, w)) :
                   w \in {v \in Config[c].circulating : ohm(h, v) # 0}} :
              h \in {x \in Config[c].handlers : Active(x, block) /\ Config[c].ohm \in x.tokens}}

NftSupply(c, block, r) ==
    UNION {{Deduction("Liquidity", Config[c].ohm, p.id, w, PositionAmount(r, w, p.id, Config[c].ohm)) :
                p \in {q \in NftPositions(c, block, r, w) :
                          /\ Config[c].ohm \in {q.token0, q.token1}
                          /\ PositionAmount(r, w, q.id, Config[c].ohm) # 0}} :
           w \in Config[c].wallets}

(* The AMOs that are active at the snapshot, and the two older markets.    *)
LendingSupply(c, block, r) ==
    {Deduction("Lending", Config[c].ohm, "", a, Read(r, <<"amo", a>>)) :
        a \in {x \in Config[c].amos : block >= DynamicLending /\ Read(r, <<"amo", x>>) # 0}}
    \cup
    UNION {{Deduction("Lending", Config[c].ohm, m.id, w, Read(r, <<"ledger", m.id, w>>)) :
                w \in {v \in WalletsFor(c, m.id) : Read(r, <<"ledger", m.id, v>>) # 0}} :
           m \in {x \in Config[c].markets : Active(x, block)}}

(* Mutant: the vaults' OHM is added.                                       *)
BlvSupplyAdded(c, block, r) ==
    {TokenSupply("BLV", Config[c].ohm, "", v.id, VaultShares(c, r)[v], 1) :
        v \in {x \in DOMAIN VaultShares(c, r) : Active(x, block)}}

BlvSupply(c, block, r) ==
    {Deduction("BLV", Config[c].ohm, "", v.id, VaultShares(c, r)[v]) :
        v \in {x \in DOMAIN VaultShares(c, r) : Active(x, block)}}

(* The migration offset counts from its start to before its end.           *)
OffsetSupply(c, block, index) ==
    {Deduction("Offset", Config[c].ohm, "", "migration", o.ohm * index) :
        o \in {x \in Config[c].offsets : Active(x, block) /\ block < x.end /\ x.ohm * index # 0}}

(* All but the bonds.                                                      *)
PlainSupplies(c, block, r, index) ==
    NftSupply(c, block, r) \cup TotalSupply(c, block, r, index)
        \cup TreasuryOhm(c, block, r, index) \cup OwnedLiquiditySupply(c, block, r, index)
        \cup LendingSupply(c, block, r) \cup BlvSupply(c, block, r)
        \cup OffsetSupply(c, block, index)
=============================================================================
