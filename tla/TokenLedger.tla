------------------------------ MODULE TokenLedger ------------------------------
(***************************************************************************)
(* The ledgers the indexer keeps of one token contract: the balances of    *)
(* the protocol's wallets, the supply, what lender AMOs have deployed and  *)
(* the positions in shared staking contracts (Erc20Transfers.ts,           *)
(* Lender.ts, Staking.ts, KodiakLps.ts), and the one-shot seed of the      *)
(* balances held before the first indexed block (BackfillTokenBalances.ts).*)
(*                                                                         *)
(* Row ids start with the chain and the contract's address, so contracts   *)
(* share no row and one contract is followed at a time: "contract" is its  *)
(* entry in config.yaml, which selects its handlers.  The token contracts  *)
(* themselves are external: a mint or burn of a silent contract emits a    *)
(* Deposit or Withdraw log, any other one a Transfer from or to Zero.      *)
(* A row that is absent reads as zero.                                     *)
(***************************************************************************)
EXTENDS Rows, Integers, FiniteSets, FiniteSetsExt

CONSTANTS
    Wallet,       \* protocolAddresses of the chain
    Outsider,     \* any other account
    Amo,          \* a lender AMO
    Zero,         \* the zero address
    Amount,       \* values of a log
    MaxHeld,      \* bound on the chain's supply
    StartBlock    \* the first indexed block

ASSUME TokenAssumption ==
    /\ Amount \subseteq Nat \ {0}
    /\ IsFiniteSet(Wallet)
    /\ Outsider # Amo /\ Amo # Zero /\ Zero # Outsider
    /\ {Outsider, Amo, Zero} \cap Wallet = {}
    /\ MaxHeld \in Nat /\ StartBlock \in Nat \ {0}

VARIABLES
    contract,     \* the contract that is followed
    tokenStart,   \* startBlock of its token definition
    before,       \* on chain: balances at StartBlock - 1
    held,         \* on chain: balances now
    lender,       \* on chain: "never", "added" or "removed" as an AMO
    lent,         \* on chain: net mints to the AMO since it was first added
    balance,      \* TokenBalance, or the position in a shared contract
    supply,       \* Erc20Supply
    amo,          \* LenderAmo: [known, active, deployed]
    kodiak,       \* the KodiakPool row exists
    sentinel,     \* the BackfillSentinel row exists
    updates       \* the immutable update rows, by <<subject, block, index>>

chainVars  == <<contract, tokenStart, before, held, lender, lent>>
ledgerVars == <<balance, supply, amo, kodiak, sentinel>>

Holder == Wallet \cup {Outsider, Amo}

SilentContracts == {"Wrapped9", "Erc4626Vault", "StakingRewardsVault", "UserStaking"}
SupplyContracts == {"OhmERC20", "LpERC20", "KodiakLp", "StakingRewardsVault"}
TokenContracts  == SilentContracts \cup SupplyContracts \cup {"TreasuryERC20"}

(* Jones and Treasure positions: not a token, so never seeded.             *)
Positions == contract = "UserStaking"

-----------------------------------------------------------------------------
(* The chain.                                                              *)

Total(h) == MapThenSumSet(LAMBDA x : h[x], Holder)

(* The log of a move of value from one account to another.                 *)
MoveLog(from, to, value) ==
    [event |-> IF contract \in SilentContracts /\ from = Zero THEN "Deposit"
               ELSE IF contract \in SilentContracts /\ to = Zero THEN "Withdraw"
               ELSE "Transfer",
     from |-> from, to |-> to, value |-> value]

Possible(l) ==
    /\ l.from # Zero => held[l.from] >= l.value
    /\ l.from = Zero => l.to # Zero /\ Total(held) + l.value <= MaxHeld
    /\ Positions => Zero \in {l.from, l.to} /\ {l.from, l.to} \subseteq Wallet \cup {Zero}
    /\ Amo \in {l.from, l.to} => contract = "OhmERC20"

MoveLogs ==
    {l \in {MoveLog(from, to, value) : from, to \in Holder \cup {Zero}, value \in Amount} :
        Possible(l)}

LenderLogs ==
    {[event |-> e, from |-> Amo, to |-> Amo, value |-> 0] :
        e \in IF contract # "OhmERC20" THEN {}
              ELSE IF lender = "added" THEN {"AMORemoved"} ELSE {"AMOAdded"}}

(* What account x gains by a log.                                          *)
Gain(l, x) == (IF x = l.to THEN l.value ELSE 0) - (IF x = l.from THEN l.value ELSE 0)

(* The chain executes the transaction that emits l.                        *)
Execute(l) ==
    /\ held' = [x \in Holder |-> held[x] + Gain(l, x)]
    /\ lender' = CASE l.event = "AMOAdded" -> "added"
                   [] l.event = "AMORemoved" -> "removed"
                   [] OTHER -> lender
    /\ lent' = IF lender # "never" /\ Zero \in {l.from, l.to} THEN lent + Gain(l, Amo) ELSE lent
    /\ UNCHANGED <<contract, tokenStart, before>>

(* The where filters of the registrations.                                 *)
Delivered(l) ==
    \/ l.event \in {"AMOAdded", "AMORemoved"}
    \/ {l.from, l.to} \cap Wallet # {}
    \/ l.event = "Transfer" /\ contract \in SupplyContracts /\ Zero \in {l.from, l.to}

-----------------------------------------------------------------------------
(* The handlers.  at is the <<block, log index>> of the log.               *)

Clamped(n) == IF n < 0 THEN 0 ELSE n

Row(subject, at, value) == [id \in {<<subject, at[1], at[2]>>} |-> value]

(* applyTransferToWalletBalance on rows b: the new rows and their update.  *)
ApplyTransfer(b, w, delta, at) ==
    IF w \notin Wallet THEN [rows |-> b, updates |-> <<>>]
    ELSE [rows |-> [b EXCEPT ![w] = @ + delta],
          updates |-> Row(w, at, b[w] + delta)]

(* Mutant: the row of the debit outlives that of the credit.               *)
ApplyTransfersDebitLast(l, at) ==
    LET debit  == ApplyTransfer(balance, l.from, -l.value, at)
        credit == ApplyTransfer(debit.rows, l.to, l.value, at)
    IN  [rows |-> credit.rows, updates |-> UpsertAll(credit.updates, debit.updates)]

(* A debit and then a credit, under one log index: a transfer of a wallet  *)
(* to itself leaves the row of the credit only.                            *)
ApplyTransfers(l, at) ==
    LET debit  == ApplyTransfer(balance, l.from, -l.value, at)
        credit == ApplyTransfer(debit.rows, l.to, l.value, at)
    IN  [rows |-> credit.rows, updates |-> UpsertAll(debit.updates, credit.updates)]

MintBurn(l) == Zero \in {l.from, l.to}

(* Mutant: a burn below zero is left out altogether.                       *)
SupplyUnlessNegative(l) ==
    LET next == supply + (IF l.from = Zero THEN l.value ELSE -l.value)
    IN  IF next < 0 THEN supply ELSE next

(* applyMintBurnToSupply                                                   *)
SupplyAfter(l) == Clamped(supply + (IF l.from = Zero THEN l.value ELSE -l.value))

(* applyDeployedOhmDelta: nothing is kept for an AMO that is not known.    *)
DeployedAfter(l) ==
    IF amo.known THEN [amo EXCEPT !.deployed = Clamped(@ + Gain(l, Amo))] ELSE amo

(* The treasury's side of a log.                                           *)
MoveBalances(l, at) ==
    LET applied == ApplyTransfers(l, at)
    IN  /\ balance' = applied.rows
        /\ updates' = UpsertAll(updates, applied.updates)

(* The same for a token whose mints and burns are counted.                 *)
MoveSupply(l, at) ==
    LET applied == ApplyTransfers(l, at)
    IN  /\ balance' = applied.rows
        /\ supply' = IF MintBurn(l) THEN SupplyAfter(l) ELSE supply
        /\ updates' = UpsertAll(UpsertAll(updates, applied.updates),
                                IF MintBurn(l) THEN Row("supply", at, SupplyAfter(l)) ELSE <<>>)

HandleTreasuryTransfer(l, at) ==
    /\ l.event = "Transfer" /\ contract \notin SupplyContracts
    /\ MoveBalances(l, at)
    /\ UNCHANGED <<supply, amo, kodiak, sentinel>>

HandleOhmTransfer(l, at) ==
    /\ l.event = "Transfer" /\ contract = "OhmERC20"
    /\ MoveSupply(l, at)
    /\ amo' = IF MintBurn(l) THEN DeployedAfter(l) ELSE amo
    /\ UNCHANGED <<kodiak, sentinel>>

HandleLpTransfer(l, at) ==
    /\ l.event = "Transfer" /\ contract \in {"LpERC20", "StakingRewardsVault"}
    /\ MoveSupply(l, at)
    /\ UNCHANGED <<amo, kodiak, sentinel>>

HandleKodiakTransfer(l, at) ==
    /\ l.event = "Transfer" /\ contract = "KodiakLp"
    /\ MoveSupply(l, at)
    /\ kodiak' = TRUE
    /\ UNCHANGED <<amo, sentinel>>

(* Deposits and withdrawals that emit no Transfer have the wallet on one   *)
(* side.                                                                   *)
HandleSilent(l, at) ==
    /\ l.event \in {"Deposit", "Withdraw"}
    /\ MoveBalances(l, at)
    /\ UNCHANGED <<supply, amo, kodiak, sentinel>>

HandleWrapped9(l, at)       == contract = "Wrapped9" /\ HandleSilent(l, at)
HandleErc4626(l, at)        == contract = "Erc4626Vault" /\ HandleSilent(l, at)
HandleStakingRewards(l, at) == contract = "StakingRewardsVault" /\ HandleSilent(l, at)

(* applyJonesDelta, applyTreasureDelta                                     *)
HandleStake(l) ==
    /\ Positions
    /\ balance' = [w \in Wallet |-> Clamped(balance[w] + Gain(l, w))]
    /\ UNCHANGED <<supply, amo, kodiak, sentinel, updates>>

(* Mutant: the amount starts anew with every change of the AMO.            *)
LenderRowFresh(l) == [known |-> TRUE, active |-> l.event = "AMOAdded", deployed |-> 0]

(* AMOAdded and AMORemoved keep the amount of a known AMO.                 *)
LenderRow(l) == [known |-> TRUE, active |-> l.event = "AMOAdded",
                 deployed |-> IF amo.known THEN amo.deployed ELSE 0]

HandleLender(l) ==
    /\ l.event \in {"AMOAdded", "AMORemoved"}
    /\ amo' = LenderRow(l)
    /\ UNCHANGED <<balance, supply, kodiak, sentinel, updates>>

HandleTokenLog(l, at) ==
    \/ HandleTreasuryTransfer(l, at) \/ HandleOhmTransfer(l, at)
    \/ HandleLpTransfer(l, at) \/ HandleKodiakTransfer(l, at)
    \/ HandleWrapped9(l, at) \/ HandleErc4626(l, at) \/ HandleStakingRewards(l, at)
    \/ HandleStake(l) \/ HandleLender(l)

-----------------------------------------------------------------------------
(* The seed.  It is read at the block before the window, and only for a    *)
(* token whose startBlock has come by then.                                *)

SeedBlock == StartBlock - 1

SeedActive == SeedBlock >= tokenStart

SeededWallets ==
    {w \in Wallet : contract \in TokenContracts /\ ~Positions /\ SeedActive /\ before[w] # 0}

(* The log index of a seed's row, which has an id of its own, "-backfill". *)
BackfillIndex == 1000

(* Mutant: the seed overwrites what the logs of the block did.             *)
SeedAlone(w) == before[w]

(* The seed is added to what the logs of the start block did.              *)
SeededBalance(w) == balance[w] + before[w]

(* The block handler, whose where filter selects the start block alone.    *)
Backfill(block) ==
    IF block # StartBlock \/ sentinel THEN UNCHANGED <<ledgerVars, updates>>
    ELSE /\ balance' = [w \in Wallet |-> IF w \in SeededWallets THEN SeededBalance(w) ELSE balance[w]]
         /\ updates' = UpsertAll(updates,
                [r \in {<<w, block, BackfillIndex>> : w \in SeededWallets} |-> SeededBalance(r[1])])
         /\ sentinel' = TRUE
         /\ UNCHANGED <<supply, amo, kodiak>>

-----------------------------------------------------------------------------
(* A wallet or an outsider may hold the token before the window, unless    *)
(* the token starts inside it.                                             *)
TokenInit ==
    /\ IF contract \in TokenContracts
       THEN /\ tokenStart \in SeedBlock .. StartBlock + 1
            /\ before \in [Holder -> 0 .. 1]
            /\ before[Amo] = 0
            /\ tokenStart > StartBlock => before = [x \in Holder |-> 0]
            /\ Positions => before[Outsider] = 0
       ELSE tokenStart = StartBlock /\ before = [x \in Holder |-> 0]
    /\ held = before
    /\ lender = "never" /\ lent = 0
    /\ balance = [w \in Wallet |-> 0]
    /\ supply = 0
    /\ amo = [known |-> FALSE, active |-> FALSE, deployed |-> 0]
    /\ kodiak = FALSE
    /\ sentinel = FALSE
    /\ updates = <<>>
=============================================================================
