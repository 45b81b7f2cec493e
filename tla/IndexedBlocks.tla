----------------------------- MODULE IndexedBlocks -----------------------------
(***************************************************************************)
(* The indexer follows a chain block by block: the chain executes a        *)
(* block's transactions, then the delivered logs are handled one after the *)
(* other in log order, then the block handlers run (Envio, external).      *)
(***************************************************************************)
EXTENDS PoolLedger, Sequences

CONSTANTS
    LastBlock,    \* bound on the blocks
    MaxLogs       \* bound on the logs of all blocks together

(* Logs come before the seed of their block, and wallets are not named     *)
(* like the subjects of other rows.                                        *)
ASSUME BlocksAssumption ==
    /\ LastBlock \in Nat /\ MaxLogs \in 0 .. BackfillIndex
    /\ Wallet \cap {"supply", "pool", "latest"} = {}

VARIABLES
    block,        \* the current block
    phase,        \* "executing", "handling" or "done"
    emitted,      \* logs executed so far
    queue         \* delivered logs to handle: <<log, index>>

blockVars == <<block, phase, emitted, queue>>
vars == <<chainVars, ledgerVars, updates, poolChainVars, poolVars, blockVars>>

-----------------------------------------------------------------------------
Init ==
    /\ contract \in TokenContracts \cup PoolContracts
    /\ TokenInit
    /\ PoolInit
    /\ block = StartBlock
    /\ phase = "executing"
    /\ emitted = 0
    /\ queue = <<>>

Emit(l, delivered) ==
    /\ phase = "executing" /\ emitted < MaxLogs
    /\ emitted' = emitted + 1
    /\ queue' = IF delivered THEN Append(queue, <<l, emitted>>) ELSE queue
    /\ UNCHANGED <<block, phase, ledgerVars, updates, poolVars>>

ExecuteToken ==
    \E l \in MoveLogs \cup LenderLogs :
        contract \in TokenContracts /\ Emit(l, Delivered(l)) /\ Execute(l) /\ UNCHANGED poolChainVars

ExecuteVault ==
    \E l \in VaultLogs \cup ReportLogs : Emit(l, TRUE) /\ ExecutePool(l, block) /\ UNCHANGED chainVars

EndOfBlock ==
    /\ phase = "executing"
    /\ phase' = "handling"
    /\ UNCHANGED <<chainVars, ledgerVars, updates, poolChainVars, poolVars, block, emitted, queue>>

(* The next log goes to its handler.                                       *)
HandleLog ==
    /\ phase = "handling" /\ queue # <<>>
    /\ queue' = Tail(queue)
    /\ LET l == Head(queue)[1]
           at == <<block, Head(queue)[2]>>
       IN  \/ contract \in TokenContracts /\ HandleTokenLog(l, at) /\ UNCHANGED poolVars
           \/ contract \in PoolContracts /\ HandlePoolLog(l, at) /\ UNCHANGED ledgerVars
    /\ UNCHANGED <<chainVars, poolChainVars, block, phase, emitted>>

(* The block handlers run after the logs of the block.                     *)
OnBlock ==
    /\ phase = "handling" /\ queue = <<>>
    /\ Backfill(block)
    /\ phase' = "done"
    /\ UNCHANGED <<chainVars, poolChainVars, poolVars, block, emitted, queue>>

NextBlock ==
    /\ phase = "done" /\ block < LastBlock
    /\ block' = block + 1
    /\ phase' = "executing"
    /\ UNCHANGED <<chainVars, ledgerVars, updates, poolChainVars, poolVars, emitted, queue>>

Next == ExecuteToken \/ ExecuteVault \/ EndOfBlock \/ HandleLog \/ OnBlock \/ NextBlock

Spec == Init /\ [][Next]_vars

-----------------------------------------------------------------------------
AtRest == phase = "done"

Followed == contract \in TokenContracts /\ ~Positions

(***************************************************************************)
(* Once the blocks so far are handled, the TokenBalance row of a wallet is *)
(* what it holds on chain, whatever was wrapped, staked, deposited,        *)
(* transferred between wallets or to itself, and however much it held      *)
(* before the window, if the seed was not skipped for the token            *)
(* (Erc20Transfers.ts:37, BackfillTokenBalances.ts:107).                   *)
(***************************************************************************)
BalanceIsHeld ==
    AtRest /\ Followed =>
        \A w \in Wallet : SeedActive \/ before[w] = 0 => balance[w] = held[w]

(***************************************************************************)
(* The same without the condition, for every token that has balances       *)
(* before the window: "the resulting ledger equals pre-window + in-window  *)
(* deltas - the true on-chain balance" (BackfillTokenBalances.ts:32-37).   *)
(* It fails for a token whose configured startBlock is the chain's         *)
(* startBlock: the seed reads one block earlier, where such a token counts *)
(* as inactive.                                                            *)
(***************************************************************************)
SeededLedgerIsBalance ==
    AtRest /\ Followed => \A w \in Wallet : balance[w] = held[w]

(***************************************************************************)
(* Counters that are clamped at zero and never seeded (the supply and the  *)
(* shared staking positions) may lag behind the chain by what existed      *)
(* before the window, and never exceed it: a burn below zero is forgotten, *)
(* but not more than that (Erc20Transfers.ts:120, Staking.ts:54).          *)
(***************************************************************************)
ClampedWithinChain ==
    AtRest =>
        /\ contract \in SupplyContracts \ SilentContracts =>
               Total(held) - Total(before) <= supply /\ supply <= Total(held)
        /\ Positions =>
               \A w \in Wallet : held[w] - before[w] <= balance[w] /\ balance[w] <= held[w]

(***************************************************************************)
(* The deployed OHM of a lender AMO counts every mint since it was first   *)
(* added, across removals and additions (Lender.ts:27, :50); what was      *)
(* minted before is not known (Erc20Transfers.ts:94).                      *)
(***************************************************************************)
DeployedSinceAdded ==
    AtRest => /\ amo.known = (lender # "never")
              /\ amo.active = (lender = "added")
              /\ amo.known => amo.deployed >= lent

Later(p, q) == p[2] > q[2] \/ (p[2] = q[2] /\ p[3] >= q[3])

StateOf(subject) ==
    CASE subject \in Wallet   -> balance[subject]
      [] subject = "supply"   -> supply
      [] subject = "pool"     -> pool.balances
      [] subject = "latest"   -> latest

(***************************************************************************)
(* The immutable rows tell the state's history: the latest row of a        *)
(* subject, in block and log order with the seed last in its block, holds  *)
(* the value of its state row, although two writes of one log share an id  *)
(* (Erc20Transfers.ts:32-35, :60; BackfillTokenBalances.ts:120).           *)
(***************************************************************************)
LatestUpdateIsState ==
    \A r \in DOMAIN updates :
        (\A q \in DOMAIN updates : q[1] = r[1] => Later(r, q)) =>
            updates[r] = StateOf(r[1])

(* What the seed of a pool counts twice: it is read at the end of a block, *)
(* and the logs of that block after the first one are applied to it again. *)
CountedTwice ==
    [t \in PoolToken |-> IF opening.seeded THEN opening.last[t] - opening.first[t] ELSE 0]

(***************************************************************************)
(* The row of a Balancer pool is what the vault holds for it, after        *)
(* deposits, exits, swaps and fees in any order, exactly, if it began with *)
(* TokensRegistered; if it began with a seed, what the vault changed in    *)
(* the seeding block after the log that made the row is in it twice, and   *)
(* nothing else: that log itself is not applied again                      *)
(* (BalancerPools.ts:68-77, :147-152).  The row of a contract that reports *)
(* its value is the last value that counts.                                *)
(***************************************************************************)
PoolFollowsVault ==
    AtRest =>
        /\ pool # NoRow =>
              pool.balances = [t \in PoolToken |-> vault.reserve[t] + CountedTwice[t]]
        /\ latest # NoRow => latest = value
=============================================================================
