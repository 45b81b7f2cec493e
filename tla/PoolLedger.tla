------------------------------- MODULE PoolLedger ------------------------------
(***************************************************************************)
(* The state rows of pools and of contracts that report a value:           *)
(*                                                                         *)
(*  - a Balancer pool (BalancerPools.ts), whose logs are deltas, so that   *)
(*    its row starts from zero at TokensRegistered or from a read of the   *)
(*    chain at the block of the first log, and is kept by adding up;       *)
(*  - contracts whose logs carry the new value (Univ2Pools.ts,             *)
(*    Univ3Pools.ts, SOhmV3.ts, BophadesKernel.ts): the row is the last    *)
(*    value reported.                                                      *)
(*                                                                         *)
(* As in TokenLedger one contract is followed.  A read of the chain made   *)
(* while a log is handled gives the state at the end of the log's block.   *)
(***************************************************************************)
EXTENDS TokenLedger

CONSTANTS
    PoolToken,    \* tokens of the pool
    NoRow         \* no row

ASSUME PoolAssumption == NoRow \notin [tokens : {PoolToken}, balances : [PoolToken -> Int]]

VARIABLES
    vault,        \* on chain: [registered, reserve] of the Balancer pool
    opening,      \* on chain: the first block of the window with its logs
    value,        \* on chain: the value of a reporting contract
    pool,         \* BalancerPoolState: [tokens, balances], or NoRow
    latest        \* the state row of a reporting contract, or NoRow

poolChainVars == <<vault, opening, value>>
poolVars      == <<pool, latest>>

ReportingContracts == {"UniswapV2Pool", "UniswapV3Pool", "SOhmV3", "BophadesKernel"}
PoolContracts      == ReportingContracts \cup {"BalancerVault"}

-----------------------------------------------------------------------------
(* The chain.  A change is a function of deltas and one of protocol fees.  *)

NoChange == [t \in PoolToken |-> 0]

ChangeLogs ==
    {[event |-> "PoolBalanceChanged", delta |-> [NoChange EXCEPT ![t] = d],
      fee |-> [NoChange EXCEPT ![t] = f]] : t \in PoolToken, d \in {-1, 2}, f \in {0, 1}}

SwapLogs ==
    {[event |-> "Swap", in |-> i, out |-> o, amountIn |-> 1, amountOut |-> 1] :
        i \in PoolToken, o \in PoolToken}

ReserveAfter(l) ==
    CASE l.event = "PoolBalanceChanged" ->
            [t \in PoolToken |-> vault.reserve[t] + l.delta[t] - l.fee[t]]
      [] l.event = "Swap" ->
            [vault.reserve EXCEPT ![l.in] = @ + l.amountIn, ![l.out] = @ - l.amountOut]
      [] OTHER -> vault.reserve

VaultLogs ==
    IF contract # "BalancerVault" THEN {}
    ELSE IF ~vault.registered THEN {[event |-> "TokensRegistered"]}
    ELSE {l \in ChangeLogs \cup {s \in SwapLogs : s.in # s.out} :
            \A t \in PoolToken : ReserveAfter(l)[t] \in 0 .. MaxHeld}

(* A report, and for some contracts one that must not become the row: a    *)
(* rebase of an sOHM no handler names, a kernel action that installs no    *)
(* module, a module without a keycode.                                     *)
ReportLogs ==
    {l \in [event : {"Report"}, value : 1 .. 2, counts : BOOLEAN] :
        /\ contract \in ReportingContracts
        /\ contract \in {"SOhmV3", "BophadesKernel"} \/ l.counts}

(* The reserves after the first and after the last log of the first block  *)
(* of the window with logs of the pool.  The first log registers the pool, *)
(* or finds it older than the window, to be seeded.                        *)
OpeningAfter(l, b) ==
    IF ~opening.begun
    THEN [begun |-> TRUE, block |-> b, seeded |-> l.event # "TokensRegistered",
          first |-> ReserveAfter(l), last |-> ReserveAfter(l)]
    ELSE IF opening.block = b THEN [opening EXCEPT !.last = ReserveAfter(l)]
    ELSE opening

ExecutePool(l, b) ==
    /\ vault' = [registered |-> vault.registered \/ l.event = "TokensRegistered",
                 reserve |-> ReserveAfter(l)]
    /\ opening' = OpeningAfter(l, b)
    /\ value' = IF l.event = "Report" /\ l.counts THEN l.value ELSE value

-----------------------------------------------------------------------------
(* The handlers.                                                           *)

(* setBalancerPoolBoth                                                     *)
SetPool(state, at) ==
    /\ pool' = state
    /\ updates' = UpsertAll(updates, Row("pool", at, state.balances))

(* ensurePoolState, for a pool without a row                               *)
SeedPool == [tokens |-> PoolToken, balances |-> vault.reserve]

(* TokensRegistered is ignored when the pool is known.                     *)
HandleTokensRegistered(l, at) ==
    IF pool # NoRow THEN UNCHANGED <<pool, updates>>
    ELSE SetPool([tokens |-> PoolToken, balances |-> [t \in PoolToken |-> 0]], at)

(* The balances after PoolBalanceChanged or Swap; tokens that the row does *)
(* not name are left out, and a swap of one is ignored.                    *)
BalancesAfter(l) ==
    IF l.event = "PoolBalanceChanged"
    THEN [t \in pool.tokens |-> pool.balances[t] + l.delta[t] - l.fee[t]]
    ELSE IF {l.in, l.out} \subseteq pool.tokens
    THEN [pool.balances EXCEPT ![l.in] = @ + l.amountIn, ![l.out] = @ - l.amountOut]
    ELSE pool.balances

(* Mutant: the log that seeds the row is applied to it as well.            *)
HandleVaultLogTwice(l, at) ==
    IF pool = NoRow THEN SetPool([SeedPool EXCEPT !.balances = ReserveAfter(l)], at)
    ELSE SetPool([pool EXCEPT !.balances = BalancesAfter(l)], at)

(* The first log of a pool seeds the row and is not applied to it.         *)
HandleVaultLog(l, at) ==
    IF pool = NoRow THEN SetPool(SeedPool, at)
    ELSE SetPool([pool EXCEPT !.balances = BalancesAfter(l)], at)

(* A state row that holds the last report.                                 *)
SetLatest(l, at) ==
    /\ latest' = l.value
    /\ updates' = UpsertAll(updates, Row("latest", at, l.value))

HandleSync(l, at)      == contract = "UniswapV2Pool" /\ SetLatest(l, at)
HandleUniv3(l, at)     == contract = "UniswapV3Pool" /\ SetLatest(l, at)

HandleLogRebase(l, at) ==
    /\ contract = "SOhmV3"
    /\ IF l.counts THEN SetLatest(l, at) ELSE UNCHANGED <<latest, updates>>

(* Modules have no update rows.                                            *)
HandleActionExecuted(l) ==
    /\ contract = "BophadesKernel"
    /\ latest' = IF l.counts THEN l.value ELSE latest
    /\ UNCHANGED updates

HandleReport(l, at) ==
    HandleSync(l, at) \/ HandleUniv3(l, at) \/ HandleLogRebase(l, at) \/ HandleActionExecuted(l)

HandlePoolLog(l, at) ==
    \/ l.event = "TokensRegistered" /\ HandleTokensRegistered(l, at) /\ UNCHANGED latest
    \/ l.event \in {"PoolBalanceChanged", "Swap"} /\ HandleVaultLog(l, at) /\ UNCHANGED latest
    \/ l.event = "Report" /\ HandleReport(l, at) /\ UNCHANGED pool

-----------------------------------------------------------------------------
(* A pool may be older than the window.                                    *)
PoolInit ==
    /\ vault \in IF contract = "BalancerVault"
                 THEN {[registered |-> FALSE, reserve |-> NoChange]}
                      \cup {[registered |-> TRUE, reserve |-> r] : r \in [PoolToken -> 0 .. 1]}
                 ELSE {[registered |-> FALSE, reserve |-> NoChange]}
    /\ opening = [begun |-> FALSE, block |-> StartBlock, seeded |-> FALSE,
                  first |-> NoChange, last |-> NoChange]
    /\ value = 0
    /\ pool = NoRow
    /\ latest = NoRow
=============================================================================
