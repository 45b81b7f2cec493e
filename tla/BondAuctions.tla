----------------------------- MODULE BondAuctions -----------------------------
(***************************************************************************)
(* The Gnosis bond auctions of Ethereum: the rows BondManager.ts and       *)
(* GnosisEasyAuction.ts keep of them, and the supply rows GnosisAuctions.ts*)
(* makes of these rows at a snapshot.  The contracts are external: an      *)
(* auction pre-mints its capacity at the teller, its clearing moves the    *)
(* OHM that was bid to the bond manager, and the protocol burns OHM of the *)
(* bond manager when it likes.                                             *)
(***************************************************************************)
EXTENDS SnapshotRecords

CONSTANTS
    Market,            \* market ids
    Spare,             \* OHM of the bond manager that no auction brought
    Bid,               \* OHM sold by an auction
    Capacity,          \* OHM pre-minted for an auction
    Term,              \* termSeconds, in snapshot intervals
    TracksBondManager  \* the bond manager is one of protocolAddresses

ASSUME BondAssumption ==
    /\ {Spare, Bid, Capacity, Term} \subseteq Nat /\ IsFiniteSet(Market)
    /\ TracksBondManager \in BOOLEAN

VARIABLES
    markets,           \* GnosisAuctionRoot
    auctions,          \* GnosisAuction rows, by market
    bondHeld           \* on chain: OHM of the bond manager

bondVars == <<markets, auctions, bondHeld>>

BondInit == markets = {} /\ auctions = <<>> /\ bondHeld = Spare

(* An auction that has not cleared has neither bid nor close time.         *)
None == -1
IsOpen(a) == a.bid = None

GnosisAuctionLaunched(m, capacity, term) ==
    /\ m \notin DOMAIN auctions
    /\ markets' = markets \cup {m}
    /\ auctions' = Upsert(auctions, m,
                          [capacity |-> capacity, term |-> term, bid |-> None, closed |-> None])
    /\ UNCHANGED bondHeld

(* An auction of somebody else has no row and is ignored.                  *)
AuctionCleared(m, sold, now) ==
    /\ m \in DOMAIN auctions => IsOpen(auctions[m])
    /\ auctions' = IF m \notin DOMAIN auctions THEN auctions
                   ELSE [auctions EXCEPT ![m].bid = sold, ![m].closed = now]
    /\ bondHeld' = IF m \notin DOMAIN auctions THEN bondHeld ELSE bondHeld + sold
    /\ UNCHANGED markets

BurnBonds(amount) ==
    /\ amount \in 1..bondHeld
    /\ bondHeld' = bondHeld - amount
    /\ UNCHANGED <<markets, auctions>>

-----------------------------------------------------------------------------
(* The TokenBalance row of the bond manager.                               *)
BondBalance == IF TracksBondManager THEN bondHeld ELSE 0

Vesting(now) == {m \in DOMAIN auctions :
                    ~IsOpen(auctions[m]) /\ now < auctions[m].closed + auctions[m].term}
Vested(now)  == {m \in DOMAIN auctions :
                    ~IsOpen(auctions[m]) /\ now >= auctions[m].closed + auctions[m].term}

BidsOf(ms) == SumOf(ms, LAMBDA m : auctions[m].bid)

(* Mutant: the rest of the balance is not capped by the vested bids.       *)
UncappedBondOhm(now) == BondBalance - BidsOf(Vesting(now))

(* What is left of the balance for the vested auctions.                    *)
CappedBondOhm(now) ==
    LET unallocated == BondBalance - BidsOf(Vesting(now))
    IN IF unallocated > BidsOf(Vested(now)) THEN BidsOf(Vested(now)) ELSE unallocated

AdjustedBid(m, now) == (auctions[m].bid * CappedBondOhm(now)) \div BidsOf(Vested(now))

BondRow(type, m, source, balance) ==
    Deduction(type, Config[ETHEREUM].ohm, m, source, balance)

BondSupply(c, now, r) ==
    IF c # ETHEREUM \/ now < Config[c].bondStart \/ ~BondManagerActive(r) THEN {}
    ELSE {BondRow("Preminted", m, "teller", auctions[m].capacity) :
              m \in {x \in DOMAIN auctions : IsOpen(auctions[x])}}
         \cup {BondRow("VestingDeposits", m, "manager", auctions[m].bid) : m \in Vesting(now)}
         \cup {BondRow("VestingTokens", m, "teller", auctions[m].capacity) : m \in Vesting(now)}
         \cup {BondRow("BondDeposits", m, "manager", AdjustedBid(m, now)) :
                  m \in {x \in Vested(now) : BidsOf(Vested(now)) # 0 /\ AdjustedBid(x, now) # 0}}

(* The OHM the rows of a snapshot attribute to the bond manager.           *)
DepositRows(rows) == {s \in rows : s.type \in {"VestingDeposits", "BondDeposits"}}
=============================================================================
