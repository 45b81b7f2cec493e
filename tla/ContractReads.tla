----------------------------- MODULE ContractReads -----------------------------
(***************************************************************************)
(* Contract reads through the two caches of contract-cache.ts and the      *)
(* retries of rpc-client.ts.  A caller is one invocation of                *)
(* withContractReadCache, made by a snapshot of one block; the callbacks   *)
(* of several snapshots overlap when Envio preloads a batch.  The active   *)
(* cache is a global variable that each caller replaces by a Map of its    *)
(* own and sets back to what it found: callers that do not end in the      *)
(* reverse order of their beginning leave another caller's Map active.     *)
(* Caches hold promises, named by the caller that made the call, what it   *)
(* reads and a number.                                                     *)
(***************************************************************************)
EXTENDS Rows, Integers, Sequences, FiniteSets

CONSTANTS
    Caller,        \* invocations of withContractReadCache
    BlockOf,       \* the block each of them reads at
    Invariant,     \* reads whose result does not depend on the block
    MaxAttempts,   \* MAX_RPC_ATTEMPTS
    NoCache,       \* activeContractReadCache = null
    Process        \* invariantContractReadCache

ASSUME ReadsAssumption ==
    /\ DOMAIN BlockOf = Caller /\ MaxAttempts \in Nat \ {0}
    /\ Caller \cap {NoCache, Process} = {}

VARIABLES
    active,        \* activeContractReadCache: the caller whose Map it is
    previous,      \* previousCache, by caller; a caller that is not inside has none
    caches,        \* the Map of each caller, and Process: from keys to promises
    promise,       \* the calls made: state, attempts and the caches they are in
    awaits         \* the promise each caller waits for, <<>> if none

readVars == <<active, previous, caches, promise, awaits>>

ReadsInit ==
    /\ active = NoCache
    /\ previous = <<>>
    /\ caches = [x \in Caller \cup {Process} |-> <<>>]
    /\ promise = <<>>
    /\ awaits = [c \in Caller |-> <<>>]

Inside(c) == c \in DOMAIN previous
Idle(c) == Inside(c) /\ awaits[c] = <<>>

(* Mutant: the key of a read leaves out the block.                         *)
KeyOfFunction(what, block) == <<what>>

(* getContractReadCacheKey                                                 *)
KeyOf(what, block) == <<what, block>>

(* The chain's answer to a read at a block.                                *)
Answer(what, block) == IF what \in Invariant THEN 1 ELSE block

-----------------------------------------------------------------------------
EnterCache(c) ==
    /\ ~Inside(c) /\ caches[c] = <<>>
    /\ previous' = Upsert(previous, c, active)
    /\ active' = c
    /\ UNCHANGED <<caches, promise, awaits>>

(* The finally, whether the operation returned or threw.                   *)
LeaveCache(c) ==
    /\ Idle(c)
    /\ active' = previous[c]
    /\ previous' = [x \in DOMAIN previous \ {c} |-> previous[x]]
    /\ UNCHANGED <<caches, promise, awaits>>

Has(cache, key) == cache # NoCache /\ key \in DOMAIN caches[cache]

Put(cs, where, key, p) == [x \in DOMAIN cs |-> IF x \in where THEN Upsert(cs[x], key, p) ELSE cs[x]]

(* The promise of a new call.                                              *)
NewCall(c, what) ==
    <<c, what, 1 + Cardinality({p \in DOMAIN promise : p[1] = c /\ p[2] = what})>>

(* readContract on behalf of c, storing also under the process-wide key    *)
(* when readInvariantContract called it.                                   *)
Call(c, what, also) ==
    LET key    == KeyOf(what, BlockOf[c])
        joined == IF Has(active, key) THEN caches[active][key] ELSE NewCall(c, what)
        mine   == IF Has(active, key) \/ active = NoCache THEN {} ELSE {active}
    IN /\ awaits' = [awaits EXCEPT ![c] = joined]
       /\ caches' = Put(Put(caches, mine, key, joined), also, <<what>>, joined)
       /\ promise' = IF Has(active, key)
                     THEN [promise EXCEPT ![joined].process = @ \/ also # {}]
                     ELSE Upsert(promise, joined, [state |-> "pending", attempts |-> 1, in |-> mine,
                                                   process |-> also # {}])
       /\ UNCHANGED <<active, previous>>

ReadContract(c, what) ==
    /\ Idle(c) /\ what \notin Invariant
    /\ Call(c, what, {})

ReadInvariantContract(c, what) ==
    /\ Idle(c) /\ what \in Invariant
    /\ \/ /\ Has(Process, <<what>>)
          /\ awaits' = [awaits EXCEPT ![c] = caches[Process][<<what>>]]
          /\ UNCHANGED <<active, previous, caches, promise>>
       \/ /\ ~Has(Process, <<what>>)
          /\ Call(c, what, {Process})

Settled(p) == p \in DOMAIN promise /\ promise[p].state # "pending"

Forget(p) ==
    [x \in DOMAIN caches |-> IF x \in promise[p].in \/ (x = Process /\ promise[p].process)
        THEN [k \in {j \in DOMAIN caches[x] : caches[x][j] # p} |-> caches[x][k]]
        ELSE caches[x]]

Settle(p, state) == [promise EXCEPT ![p].state = state, ![p].attempts = 0]

(* One attempt of retryRpc: it succeeds, fails for good, or fails in a way *)
(* that is tried again while attempts are left.                            *)
Attempt(p) ==
    /\ p \in DOMAIN promise /\ promise[p].state = "pending"
    /\ \/ promise' = Settle(p, "done") /\ UNCHANGED caches
       \/ promise' = Settle(p, "failed") /\ caches' = Forget(p)
       \/ /\ promise[p].attempts < MaxAttempts
          /\ promise' = [promise EXCEPT ![p].attempts = @ + 1]
          /\ UNCHANGED caches
    /\ UNCHANGED <<active, previous, awaits>>

(* What the caller of a settled promise gets.                              *)
Value(p) == Answer(p[2], BlockOf[p[1]])
Failed(p) == promise[p].state = "failed"

Resume(c) ==
    /\ awaits[c] # <<>> /\ Settled(awaits[c])
    /\ awaits' = [awaits EXCEPT ![c] = <<>>]
    /\ UNCHANGED <<active, previous, caches, promise>>

-----------------------------------------------------------------------------
(* A read is answered with the state of the reader's own block, whichever  *)
(* Map was active when it was made, a Map left behind by another caller    *)
(* included; only block-independent reads are shared across blocks         *)
(* (readContract, withContractReadCache).                                  *)
ReadsOwnBlock ==
    \A c \in Caller : awaits[c] # <<>> => Value(awaits[c]) = Answer(awaits[c][2], BlockOf[c])
=============================================================================
