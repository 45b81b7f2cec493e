------------------------------ MODULE ReadsProofs ------------------------------
(***************************************************************************)
(* Contract reads during pricing, for every set of callers, every order in *)
(* which they begin, read, are answered and end, and every configuration   *)
(* of the price router.                                                    *)
(***************************************************************************)
EXTENDS Pricing, TLAPS

(* A promise serves a reader at a block: both see the same answer.         *)
Serves(p, block) == p[2] \in Invariant \/ BlockOf[p[1]] = block

(* Only the Maps of callers are ever active.                               *)
MapsOfCallers ==
    /\ active \in Caller \cup {NoCache}
    /\ \A c \in DOMAIN previous : previous[c] \in Caller \cup {NoCache}

(* The key of a promise in a caller's Map names what was read and at which *)
(* block; the process-wide Map holds only promises of invariant reads.     *)
KeysOfCallers ==
    \A x \in Caller : \A k \in DOMAIN caches[x] :
        k = KeyOf(caches[x][k][2], BlockOf[caches[x][k][1]])

KeysOfProcess ==
    \A k \in DOMAIN caches[Process] :
        k = <<caches[Process][k][2]>> /\ caches[Process][k][2] \in Invariant

AwaitsServed ==
    /\ awaits = [c \in Caller |-> awaits[c]]
    /\ \A c \in Caller : awaits[c] # <<>> => Serves(awaits[c], BlockOf[c])

ReadsInv ==
    /\ caches = [x \in Caller \cup {Process} |-> caches[x]]
    /\ MapsOfCallers /\ KeysOfCallers /\ KeysOfProcess /\ AwaitsServed

-----------------------------------------------------------------------------
LEMMA ServedOwnBlock == ReadsInv => ReadsOwnBlock
  BY DEF ReadsInv, AwaitsServed, ReadsOwnBlock, Serves, Value, Answer

LEMMA ReadsInitially == ReadsInit => ReadsInv
  BY DEF ReadsInit, ReadsInv, MapsOfCallers, KeysOfCallers, KeysOfProcess, AwaitsServed

(* Promises that leave the Maps disturb nobody.                            *)
LEMMA ForgetKeeps ==
    ASSUME ReadsInv, NEW p, caches' = Forget(p), UNCHANGED <<active, previous, awaits>>
    PROVE  ReadsInv'
<1>1. caches' = [x \in Caller \cup {Process} |-> caches'[x]]
  BY DEF Forget, ReadsInv
<1>2. \A x \in Caller \cup {Process} : \A k \in DOMAIN caches'[x] :
         k \in DOMAIN caches[x] /\ caches'[x][k] = caches[x][k]
  BY DEF Forget, ReadsInv
<1>3. KeysOfCallers'
  BY <1>2 DEF ReadsInv, KeysOfCallers, KeyOf
<1>4. KeysOfProcess'
  BY <1>2 DEF ReadsInv, KeysOfProcess
<1>5. QED
  BY <1>1, <1>3, <1>4 DEF ReadsInv, MapsOfCallers, AwaitsServed, Serves

(* A promise that is stored under the key it belongs to.                   *)
LEMMA PutKeeps ==
    ASSUME NEW cs, NEW where \in SUBSET (Caller \cup {Process}), NEW key, NEW p,
           cs = [x \in Caller \cup {Process} |-> cs[x]],
           NEW x \in Caller \cup {Process}, NEW k \in DOMAIN Put(cs, where, key, p)[x]
    PROVE  \/ x \in where /\ k = key /\ Put(cs, where, key, p)[x][k] = p
           \/ k \in DOMAIN cs[x] /\ Put(cs, where, key, p)[x][k] = cs[x][k]
  BY DEF Put, Upsert

LEMMA CallKeeps ==
    ASSUME ReadsInv, NEW c \in Caller, NEW what, NEW also \in SUBSET {Process},
           also # {} => what \in Invariant, Call(c, what, also)
    PROVE  ReadsInv'
<1> DEFINE key    == KeyOf(what, BlockOf[c])
           joined == IF Has(active, key) THEN caches[active][key] ELSE NewCall(c, what)
           mine   == IF Has(active, key) \/ active = NoCache THEN {} ELSE {active}
           first  == Put(caches, mine, key, joined)
<1>1. /\ awaits' = [awaits EXCEPT ![c] = joined]
      /\ caches' = Put(first, also, <<what>>, joined)
      /\ UNCHANGED <<active, previous>>
  BY DEF Call
<1>2. joined[2] = what /\ BlockOf[joined[1]] = BlockOf[c]
  <2>1. CASE Has(active, key)
    <3>1. active \in Caller /\ key \in DOMAIN caches[active]
      BY <2>1 DEF Has, ReadsInv, MapsOfCallers
    <3>2. key = KeyOf(joined[2], BlockOf[joined[1]])
      BY <2>1, <3>1 DEF ReadsInv, KeysOfCallers
    <3>3. QED
      BY <3>2 DEF KeyOf
  <2>2. CASE ~Has(active, key)
    BY <2>2 DEF NewCall
  <2>3. QED
    BY <2>1, <2>2
<1>3. mine \subseteq Caller
  BY DEF ReadsInv, MapsOfCallers
<1>4. first = [x \in Caller \cup {Process} |-> first[x]]
  BY DEF Put, ReadsInv
<1>5. caches' = [x \in Caller \cup {Process} |-> caches'[x]]
  BY <1>1, <1>4 DEF Put
<1> HIDE DEF joined, mine, first
<1>6. ASSUME NEW x \in Caller, NEW k \in DOMAIN caches'[x]
      PROVE  k = KeyOf(caches'[x][k][2], BlockOf[caches'[x][k][1]])
  <2>1. x \notin also
    BY ReadsAssumption
  <2>2. k \in DOMAIN first[x] /\ caches'[x][k] = first[x][k]
    BY <1>1, <1>4, <1>6, <2>1, PutKeeps
  <2>3. \/ k = key /\ first[x][k] = joined
        \/ k \in DOMAIN caches[x] /\ first[x][k] = caches[x][k]
    BY <1>3, <2>2, PutKeeps DEF first, ReadsInv
  <2>4. QED
    BY <1>2, <2>2, <2>3 DEF ReadsInv, KeysOfCallers, KeyOf
<1>7. ASSUME NEW k \in DOMAIN caches'[Process]
      PROVE  k = <<caches'[Process][k][2]>> /\ caches'[Process][k][2] \in Invariant
  <2>1. Process \notin mine
    BY <1>3, ReadsAssumption
  <2>2. \/ also # {} /\ k = <<what>> /\ caches'[Process][k] = joined
        \/ k \in DOMAIN first[Process] /\ caches'[Process][k] = first[Process][k]
    BY <1>1, <1>4, <1>7, PutKeeps
  <2>3. k \in DOMAIN first[Process] =>
            k \in DOMAIN caches[Process] /\ first[Process][k] = caches[Process][k]
    BY <1>3, <2>1, PutKeeps DEF first, ReadsInv
  <2>4. QED
    BY <1>2, <2>2, <2>3 DEF ReadsInv, KeysOfProcess
<1>8. AwaitsServed'
  BY <1>1, <1>2 DEF ReadsInv, AwaitsServed, Serves
<1>9. QED
  BY <1>1, <1>5, <1>6, <1>7, <1>8 DEF ReadsInv, MapsOfCallers, KeysOfCallers, KeysOfProcess

LEMMA ReadKeeps ==
    ASSUME ReadsInv, NEW c \in Caller, NEW what,
           ReadContract(c, what) \/ ReadInvariantContract(c, what)
    PROVE  ReadsInv'
<1>1. CASE Call(c, what, {})
  BY <1>1, CallKeeps
<1>2. CASE what \in Invariant /\ Call(c, what, {Process})
  BY <1>2, CallKeeps
<1>3. CASE /\ Has(Process, <<what>>)
           /\ awaits' = [awaits EXCEPT ![c] = caches[Process][<<what>>]]
           /\ UNCHANGED <<active, previous, caches, promise>>
  <2>1. caches[Process][<<what>>][2] \in Invariant
    BY <1>3 DEF Has, ReadsInv, KeysOfProcess
  <2>2. AwaitsServed'
    BY <1>3, <2>1 DEF ReadsInv, AwaitsServed, Serves
  <2>3. QED
    BY <1>3, <2>2 DEF ReadsInv, MapsOfCallers, KeysOfCallers, KeysOfProcess
<1>4. QED
  BY <1>1, <1>2, <1>3 DEF ReadContract, ReadInvariantContract

(* Callers may end in any order: what they set back is the Map of a caller *)
(* or none.                                                                *)
LEMMA EnterLeaveKeep ==
    ASSUME ReadsInv, NEW c \in Caller, EnterCache(c) \/ LeaveCache(c)
    PROVE  ReadsInv'
<1>1. MapsOfCallers'
  <2>1. CASE EnterCache(c)
    BY <2>1 DEF EnterCache, Upsert, ReadsInv, MapsOfCallers
  <2>2. CASE LeaveCache(c)
    BY <2>2 DEF LeaveCache, Idle, Inside, ReadsInv, MapsOfCallers
  <2>3. QED
    BY <2>1, <2>2
<1>2. UNCHANGED <<caches, awaits>>
  BY DEF EnterCache, LeaveCache
<1>3. QED
  BY <1>1, <1>2 DEF ReadsInv, KeysOfCallers, KeysOfProcess, AwaitsServed, Serves

LEMMA ResumeKeeps == ASSUME ReadsInv, NEW c \in Caller, Resume(c) PROVE ReadsInv'
  BY DEF Resume, ReadsInv, MapsOfCallers, KeysOfCallers, KeysOfProcess, AwaitsServed, Serves

LEMMA AttemptKeeps == ASSUME ReadsInv, NEW p, Attempt(p) PROVE ReadsInv'
<1>1. CASE caches' = Forget(p)
  BY <1>1, ForgetKeeps DEF Attempt
<1>2. CASE UNCHANGED caches
  BY <1>2 DEF Attempt, ReadsInv, MapsOfCallers, KeysOfCallers, KeysOfProcess, AwaitsServed, Serves
<1>3. QED
  BY <1>1, <1>2 DEF Attempt

LEMMA ReadsStep == ASSUME ReadsInv, [Next]_vars PROVE ReadsInv'
<1>1. CASE UNCHANGED readVars
  BY <1>1 DEF readVars, ReadsInv, MapsOfCallers, KeysOfCallers, KeysOfProcess, AwaitsServed, Serves
<1>2. CASE Around
  BY <1>2, EnterLeaveKeep, PricingAssumption DEF Around
<1>3. CASE PricerStep
  BY <1>3, ReadKeeps, ResumeKeeps, PricingAssumption DEF PricerStep, StartRead, EndRead
<1>4. CASE OtherStep
  BY <1>4, EnterLeaveKeep, ReadKeeps, ResumeKeeps DEF OtherStep
<1>5. CASE Calls
  BY <1>5, AttemptKeeps DEF Calls
<1>6. QED
  BY <1>1, <1>2, <1>3, <1>4, <1>5 DEF Next, Ask, vars

-----------------------------------------------------------------------------
(* Whatever Map is active when a snapshot reads, and whoever made the call *)
(* it joins (readContract and withContractReadCache in                     *)
(* contract-cache.ts), the answer is that of the snapshot's own block.     *)
THEOREM ReadsAtOwnBlock == Spec => []ReadsOwnBlock
<1>1. Init => ReadsInv
  BY ReadsInitially DEF Init
<1>2. Spec => []ReadsInv
  BY <1>1, ReadsStep, PTL DEF Spec
<1>3. QED
  BY <1>2, ServedOwnBlock, PTL
=============================================================================
