---------------------------- MODULE PublisherProofs ----------------------------
(***************************************************************************)
(* The lock protocol, for every set of runs, any TTL and bounds, and the   *)
(* publisher, for every set of deployments and shard kinds and every       *)
(* calendar: it follows the lock protocol, and its manifest never lists a  *)
(* shard that is not in the bucket.                                        *)
(***************************************************************************)
EXTENDS PublisherInv, TLAPS

-----------------------------------------------------------------------------
(* The lock protocol, for every set of runs, every TTL and every bound.    *)

(* Each step of the lock protocol keeps every variable in its range.       *)
LEMMA LockTypeStep == LockTypeOK /\ [LockNext]_lockVars => LockTypeOK'
<1> SUFFICES ASSUME LockTypeOK, [LockNext]_lockVars PROVE LockTypeOK'
  OBVIOUS
<1> USE LockAssumption DEF LockTypeOK, Go, Acquiring, Holding, Late, Ended, Live
<1>1. CASE Tick
  BY <1>1 DEF Tick
<1>2. ASSUME NEW r \in Run, Start(r) PROVE LockTypeOK'
  BY <1>2 DEF Start
<1>3. ASSUME NEW r \in Run, Acquire(r) PROVE LockTypeOK'
  <2>1. CASE PutIfAbsent(r)
    BY <2>1 DEF PutIfAbsent
  <2>2. CASE ReadHolder(r)
    BY <2>2 DEF ReadHolder
  <2>3. CASE Replace(r)
    BY <2>3 DEF Replace
  <2>4. CASE Verify(r)
    BY <2>4 DEF Verify
  <2>5. QED
    BY <1>3, <2>1, <2>2, <2>3, <2>4 DEF Acquire
<1>4. ASSUME NEW r \in Run, Finish(r) PROVE LockTypeOK'
  BY <1>4 DEF Finish
<1>5. ASSUME NEW r \in Run, Release(r) PROVE LockTypeOK'
  BY <1>5 DEF Release, ReleaseRead, ReleaseDelete, DeletedBy
<1>6. ASSUME NEW r \in Run, Fault(r) PROVE LockTypeOK'
  <2>1. CASE Abort(r)
    BY <2>1 DEF Abort
  <2>5. CASE Throw(r)
    BY <2>5 DEF Throw
  <2>2. CASE RepeatedWrite(r)
    BY <2>2 DEF RepeatedWrite
  <2>3. CASE Land(r)
    BY <2>3 DEF Land
  <2>4. CASE Lose(r)
    BY <2>4 DEF Lose
  <2>6. QED
    BY <1>6, <2>1, <2>2, <2>3, <2>4, <2>5 DEF Fault
<1>7. CASE UNCHANGED lockVars
  BY <1>7 DEF lockVars
<1>8. QED
  BY <1>1, <1>2, <1>3, <1>4, <1>5, <1>6, <1>7 DEF LockNext

(* The clock, the lock object, the control states and the fault count of   *)
(* any number of publisher runs stay in their ranges.                      *)
THEOREM LockTypeCorrect == LockSpec => []LockTypeOK
<1>1. LockInit => LockTypeOK
  BY LockAssumption DEF LockInit, LockTypeOK, Live, Acquiring, Holding, Late, Ended
<1>2. QED
  BY <1>1, LockTypeStep, PTL DEF LockSpec

-----------------------------------------------------------------------------
(* The lock changes in two ways only: a run takes a lock that is absent or *)
(* has expired, or a run that owns the lock deletes it.                    *)
LEMMA LockChange ==
    ASSUME LockTypeOK, LockInv, LockNext, lock' # lock
    PROVE  \E r \in Run :
              \/ /\ lock' = r
                 /\ pc[r] # "idle"
                 /\ lock = NoRun \/ Expired(lock, r)
              \/ /\ lock = r
                 /\ lock' = NoRun
                 /\ pc[r] \in {"deleting", "lateDelete"}
                 /\ pc'[r] \notin Holding
<1> USE LockAssumption DEF Go
<1>1. PICK r \in Run : Acquire(r) \/ Release(r) \/ Fault(r)
  BY DEF LockNext, Tick, Start, Finish
<1>2. CASE Acquire(r)
  BY <1>2 DEF Acquire, PutIfAbsent, ReadHolder, Replace, Verify, LockInv, LockTypeOK
<1>3. CASE Release(r)
  BY <1>3 DEF Release, ReleaseRead, ReleaseDelete, DeletedBy, LockInv, LockTypeOK, Holding
<1>4. CASE Fault(r)
  <2>1. CASE Abort(r)
    BY <2>1 DEF Abort
  <2>5. CASE Throw(r)
    BY <2>5 DEF Throw
  <2>2. CASE RepeatedWrite(r)
    BY <2>2 DEF RepeatedWrite, LockInv, LockTypeOK
  <2>3. CASE Land(r)
    BY <2>3 DEF Land, LockInv, LockTypeOK, Late, Holding
  <2>4. CASE Lose(r)
    BY <2>4 DEF Lose
  <2>6. QED
    BY <1>4, <2>1, <2>2, <2>3, <2>4, <2>5 DEF Fault
<1>5. QED
  BY <1>1, <1>2, <1>3, <1>4

-----------------------------------------------------------------------------
(* Initially no run has started and there is no lock.                      *)
LEMMA LockInvInit == LockInit => LockInv
  BY LockAssumption DEF LockInit, LockInv, HolderOwnsLock, Holding

(* Every step keeps the inductive invariant.  The steps that matter are    *)
(* those that move the lock: Replace and a late conditional write hit an   *)
(* expired lock only, because the ETag they are conditional on names the   *)
(* expired lock the run has read, and without ETags no lock at all.        *)
LEMMA LockInvStep == LockTypeOK /\ LockInv /\ [LockNext]_lockVars => LockInv'
<1> SUFFICES ASSUME LockTypeOK, LockInv, [LockNext]_lockVars PROVE LockInv'
  OBVIOUS
<1> USE LockAssumption
    DEF Go, LockInv, LockTypeOK, HolderOwnsLock, Holding, Expired, Expiry, Unexpired
<1>1. CASE Tick
  BY <1>1 DEF Tick
<1>2. ASSUME NEW r \in Run, Start(r) PROVE LockInv'
  BY <1>2 DEF Start
<1>3. ASSUME NEW r \in Run, Acquire(r) PROVE LockInv'
  <2>1. CASE PutIfAbsent(r)
    BY <2>1 DEF PutIfAbsent
  <2>2. CASE ReadHolder(r)
    BY <2>2 DEF ReadHolder
  <2>3. CASE Replace(r)
    BY <2>3 DEF Replace
  <2>4. CASE Verify(r)
    BY <2>4 DEF Verify
  <2>5. QED
    BY <1>3, <2>1, <2>2, <2>3, <2>4 DEF Acquire
<1>4. ASSUME NEW r \in Run, Finish(r) PROVE LockInv'
  BY <1>4 DEF Finish
<1>5. ASSUME NEW r \in Run, Release(r) PROVE LockInv'
  <2>1. CASE ReleaseRead(r)
    BY <2>1 DEF ReleaseRead
  <2>2. CASE ReleaseDelete(r)
    BY <2>2 DEF ReleaseDelete, DeletedBy
  <2>3. QED
    BY <1>5, <2>1, <2>2 DEF Release
<1>6. ASSUME NEW r \in Run, Fault(r) PROVE LockInv'
  <2>1. CASE Abort(r)
    BY <2>1 DEF Abort, Late, InFlight, Live, Acquiring
  <2>5. CASE Throw(r)
    BY <2>5 DEF Throw
  <2>2. CASE RepeatedWrite(r)
    BY <2>2 DEF RepeatedWrite
  <2>3. CASE Land(r)
    BY <2>3 DEF Land
  <2>4. CASE Lose(r)
    BY <2>4 DEF Lose, Late
  <2>6. QED
    BY <1>6, <2>1, <2>2, <2>3, <2>4, <2>5 DEF Fault
<1>7. CASE UNCHANGED lockVars
  BY <1>7 DEF lockVars
<1>8. QED
  BY <1>1, <1>2, <1>3, <1>4, <1>5, <1>6, <1>7 DEF LockNext

(* Whatever is lost, repeated or delayed, the inductive invariant holds in *)
(* every state of every execution of the lock protocol.                    *)
THEOREM LockInvariant == LockSpec => []LockInv
  BY LockInvInit, LockInvStep, LockTypeCorrect, PTL DEF LockSpec

(* A run inside the try block owns the lock object until its lock expires. *)
THEOREM HolderOwnsLockAlways == LockSpec => []HolderOwnsLock
<1>1. LockInv => HolderOwnsLock
  BY DEF LockInv
<1>2. QED
  BY <1>1, LockInvariant, PTL

(* Two runs work under the lock together only if one of their locks has    *)
(* expired.                                                                *)
THEOREM NoOverlapBeforeExpiry == LockSpec => []OverlapNeedsExpiry
<1>1. LockInv => OverlapNeedsExpiry
  BY DEF LockInv, HolderOwnsLock, OverlapNeedsExpiry, Holding
<1>2. QED
  BY <1>1, LockInvariant, PTL

(* No step takes a lock away from its owner before the lock expires,       *)
(* except the owner's own delete: in particular the release of an          *)
(* overtaken run leaves the lock of the run that overtook it alone.        *)
THEOREM LockNeverStolen == LockSpec => LockKeptUntilExpiry
<1>1. LockTypeOK /\ LockInv /\ [LockNext]_lockVars => [LockLostLegally]_lockVars
  <2> SUFFICES ASSUME LockTypeOK, LockInv, LockNext, lock # NoRun, lock' # lock
               PROVE  \/ ~Unexpired(lock)
                      \/ lock' = NoRun /\ pc[lock] \in {"deleting", "lateDelete"}
    BY DEF LockLostLegally
  <2>1. PICK r \in Run :
            \/ /\ pc[r] # "idle"
               /\ Expired(lock, r)
            \/ /\ lock = r
               /\ lock' = NoRun
               /\ pc[r] \in {"deleting", "lateDelete"}
    BY LockChange
  <2>2. CASE pc[r] # "idle" /\ Expired(lock, r)
    BY <2>2, LockAssumption
    DEF LockInv, LockTypeOK, Expired, Expiry, Unexpired
  <2>3. QED
    BY <2>1, <2>2
<1>2. QED
  BY <1>1, LockTypeCorrect, LockInvariant, PTL DEF LockSpec, LockKeptUntilExpiry

-----------------------------------------------------------------------------
(* Every step of the publisher is a step of the lock protocol or leaves    *)
(* its variables alone.                                                    *)
LEMMA LockStep == [Next]_vars => [LockNext]_lockVars
<1> SUFFICES ASSUME [Next]_vars PROVE [LockNext]_lockVars
  OBVIOUS
<1>1. CASE UNCHANGED vars
  BY <1>1 DEF vars
<1>2. CASE Time
  BY <1>2 DEF Time, LockNext
<1>3. CASE Index \/ (\E d \in Deployment : Redeploy(d)) \/ Restart
  BY <1>3 DEF Index, Redeploy, Restart
<1>4. ASSUME NEW r \in Run, BeginRun(r) PROVE LockNext
  BY <1>4 DEF BeginRun, LockNext
<1>5. ASSUME NEW r \in Run, RunStep(r) PROVE [LockNext]_lockVars
  <2>1. CASE TakeLock(r)
    BY <2>1 DEF TakeLock, LockNext
  <2>2. CASE Unlock(r)
    BY <2>2 DEF Unlock, LockNext
  <2>3. CASE FetchBounds(r)
    BY <2>3 DEF FetchBounds, Return, LockNext
  <2>4. CASE AcceptRows(r)
    BY <2>4 DEF AcceptRows, Return, LockNext
  <2>5. CASE ListStale(r)
    BY <2>5 DEF ListStale, Return, LockNext
  <2>6. CASE DeleteStale(r)
    BY <2>6 DEF DeleteStale, Return, LockNext
  <2>7. CASE \/ ReadManifest(r) \/ WriteShard(r) \/ WriteManifest(r)
             \/ \E k \in Kind : FetchRows(r, k)
    BY <2>7 DEF ReadManifest, WriteShard, WriteManifest, FetchRows
  <2>8. QED
    BY <1>5, <2>1, <2>2, <2>3, <2>4, <2>5, <2>6, <2>7 DEF RunStep
<1>6. ASSUME NEW r \in Run, RunFault(r) PROVE [LockNext]_lockVars
  <2>1. CASE LateRequest(r)
    BY <2>1 DEF LateRequest
  <2>2. CASE RequestThrows(r) \/ RunDies(r) \/ LockWriteRepeated(r) \/ LateLockRequest(r)
    BY <2>2 DEF RequestThrows, RunDies, LockWriteRepeated, LateLockRequest, Fault, LockNext
  <2>3. QED
    BY <1>6, <2>1, <2>2 DEF RunFault
<1>7. QED
  BY <1>1, <1>2, <1>3, <1>4, <1>5, <1>6 DEF Next

(* The whole publisher, with its failures, late requests and deployments,  *)
(* implements the lock protocol.                                           *)
THEOREM PublisherFollowsLock == Spec => LockSpec
<1>1. Init => LockInit
  BY DEF Init
<1>2. QED
  BY <1>1, LockStep, PTL DEF Spec, LockSpec

(* A publisher run that is between taking its lock and giving it back owns *)
(* the lock object until the lock expires.                                 *)
THEOREM PublisherOwnsLock == Spec => []HolderOwnsLock
  BY PublisherFollowsLock, HolderOwnsLockAlways, PTL

(* Two publisher runs write shards and manifests together only after the   *)
(* lock of one of them has expired.                                        *)
THEOREM PublisherNoOverlap == Spec => []OverlapNeedsExpiry
  BY PublisherFollowsLock, NoOverlapBeforeExpiry, PTL

-----------------------------------------------------------------------------
(* Dates and months.                                                       *)

LEMMA DayFacts ==
    /\ \A d \in Day : MonthOf[d] \in Month /\ FirstDayOfMonth(d) \in Day
    /\ \A d \in Day : DayAfter(d) \in Day /\ FirstDayOfPreviousMonth(d) \in Day
    /\ \A d, e \in Day : LaterOf(d, e) \in Day /\ EarlierOf(d, e) \in Day
    /\ PublicStart \in Day
<1> USE CalendarAssumption DEF Day, Month, LaterOf, EarlierOf
<1>1. ASSUME NEW d \in Day
      PROVE  /\ MonthOf[d] \in Month
             /\ FirstDayOfMonth(d) \in Day
             /\ DayAfter(d) \in Day
  BY <1>1 DEF FirstDayOfMonth, DayAfter
<1>2. ASSUME NEW d \in Day PROVE FirstDayOfPreviousMonth(d) \in Day
  <2>1. MonthOf[d] \in 0 .. LastMonth
    BY CalendarAssumption
  <2>2. CASE MonthOf[d] > 1
    BY <2>1, <2>2, CalendarAssumption DEF FirstDayOfPreviousMonth
  <2>3. CASE ~(MonthOf[d] > 1)
    <3>1. LaterOf(MonthOf[d], 1) - 1 = 0
      BY <2>3
    <3>2. QED
      BY <3>1, CalendarAssumption DEF FirstDayOfPreviousMonth
  <2>4. QED
    BY <2>2, <2>3
<1>3. QED
  BY <1>1, <1>2

(* Later days are not in earlier months.                                   *)
LEMMA MonthsOrdered ==
    ASSUME NEW d \in Day, NEW e \in Day, d <= e
    PROVE  MonthOf[d] <= MonthOf[e]
<1>1. MonthStart[MonthOf[d]] <= d
  BY CalendarAssumption DEF Day, Month
<1>2. MonthStart[MonthOf[d]] <= e
  BY <1>1, CalendarAssumption DEF Day, Month
<1>3. QED
  BY <1>2, CalendarAssumption DEF Day, Month

(* A valid range spans at least one month.                                 *)
LEMMA RangeMonths ==
    ASSUME NEW range \in [start : Day, end : Day], ValidRange(range)
    PROVE  /\ MonthOf[range.start] \in Nat /\ MonthOf[range.end] \in Nat
           /\ MonthOf[range.start] <= MonthOf[range.end]
  BY MonthsOrdered, CalendarAssumption DEF ValidRange, Day, Month

LEMMA PlacesNat == Len(Kinds) \in Nat /\ Len(Kinds) >= 1
  BY PublisherAssumption

-----------------------------------------------------------------------------
(* What the runs rely on survives every step that keeps the shards of the  *)
(* current deployment and the stable ones and hands the manifest to no     *)
(* other deployment.                                                       *)

StoreKept ==
    /\ deployed' = deployed
    /\ \A k \in DOMAIN bucket : k[1] \in {deployed, Stable} => k \in DOMAIN bucket'
    /\ manifest' = manifest \/ manifest'.deployment = deployed

RunInv(r) ==
    /\ Control(r) /\ Working(job[r]) /\ Cleaning(job[r])
    /\ late[r] # None => Pending(late[r])

LEMMA LateKept ==
    ASSUME StoreInv, StoreKept, NEW q \in Run, late'[q] = late[q]
    PROVE  (late[q] # None => Pending(late[q]))'
<1> SUFFICES ASSUME late[q] # None PROVE Pending(late[q])'
  OBVIOUS
<1>1. Pending(late[q])
  BY DEF StoreInv
<1>2. late[q].op = "manifest" => Listed(late[q].manifest)'
  BY <1>1 DEF Pending, Listed, StoreKept
<1>3. HandedOver => HandedOver'
  BY DEF HandedOver, StoreKept
<1>4. QED
  BY <1>1, <1>2, <1>3 DEF Pending, StoreKept

LEMMA WorkKept ==
    ASSUME StoreInv, StoreKept, NEW q \in Run, job'[q] = job[q], pc'[q] = pc[q]
    PROVE  (Control(q) /\ Working(job[q]) /\ Cleaning(job[q]))'
<1> USE DEF StoreKept
<1> DEFINE j == job[q]
<1>1. Control(q) /\ Working(j) /\ Cleaning(j)
  BY DEF StoreInv
<1>2. Control(q)'
  BY <1>1 DEF Control, At
<1>3. ASSUME NEW m, Based(m) PROVE Based(m)'
  BY <1>3 DEF Based
<1>4. j.stage # "idle" => j.deployment = deployed
  BY <1>1 DEF Control, At
<1>5. j.stage = "shards" => WrittenBefore(j)'
  BY <1>1, <1>4 DEF Working, WrittenBefore, Key
<1>6. j.stage = "manifest" => (ShardKeys(j) \subseteq DOMAIN bucket)'
  BY <1>1, <1>4 DEF Working, ShardKeys, Key
<1>7. Working(j)'
  BY <1>1, <1>3, <1>5, <1>6 DEF Working
<1>8. HandedOver => HandedOver'
  BY DEF HandedOver
<1>9. Cleaning(j)'
  BY <1>1, <1>8 DEF Cleaning
<1>10. QED
  BY <1>2, <1>7, <1>9

LEMMA OthersKept ==
    ASSUME StoreInv, StoreKept, NEW q \in Run,
           job'[q] = job[q], pc'[q] = pc[q], late'[q] = late[q]
    PROVE  RunInv(q)'
  BY WorkKept, LateKept DEF RunInv

(* A step of one run keeps the invariant when it does so for that run and  *)
(* the manifest.                                                           *)
LEMMA OneRunMoves ==
    ASSUME StoreInv, StoreKept, NEW r \in Run,
           source' = source,
           DOMAIN job' = Run, DOMAIN late' = Run,
           \A q \in Run \ {r} :
               job'[q] = job[q] /\ pc'[q] = pc[q] /\ late'[q] = late[q],
           Announces(manifest)', Listed(manifest)', RunInv(r)'
    PROVE  StoreInv'
<1>1. \A q \in Run : RunInv(q)'
  BY OthersKept
<1>2. QED
  BY <1>1 DEF StoreInv, RunInv

(* A step that leaves the store alone.                                     *)
LEMMA StoreUntouched ==
    ASSUME StoreInv, NEW r \in Run,
           UNCHANGED <<source, deployed, storeVars>>,
           DOMAIN job' = Run, DOMAIN late' = Run,
           \A q \in Run \ {r} :
               job'[q] = job[q] /\ pc'[q] = pc[q] /\ late'[q] = late[q],
           RunInv(r)'
    PROVE  StoreInv'
<1>1. StoreKept
  BY DEF StoreKept, storeVars
<1>2. Announces(manifest)' /\ Listed(manifest)'
  BY DEF StoreInv, Announces, Listed, storeVars
<1>3. source' = source
  OBVIOUS
<1>4. QED
  BY <1>1, <1>2, <1>3, OneRunMoves

-----------------------------------------------------------------------------
(* The initial states: nobody is at work, and a manifest that exists lists *)
(* what is in the bucket.                                                  *)
LEMMA StoreInvInit == Init => StoreInv
<1> SUFFICES ASSUME Init PROVE StoreInv
  OBVIOUS
<1>1. PICK p \in InitialProgress :
          /\ source = [progress |-> p, version |-> 0]
          /\ \/ bucket = [k \in {} |-> None] /\ manifest = None
             \/ \E d \in {deployed, Stable} : PublishedUpTo(d, p.cross)
  BY DEF Init
<1>2. p \in Progress
  BY PublisherAssumption DEF Progress
<1>3. Announces(manifest) /\ Listed(manifest)
  <2>1. CASE manifest = None
    BY <2>1 DEF Announces, Listed
  <2>2. ASSUME NEW d \in {deployed, Stable}, PublishedUpTo(d, p.cross)
        PROVE  Announces(manifest) /\ Listed(manifest)
    <3>1. Announces(manifest)
      BY <1>2, <2>2, DayFacts DEF PublishedUpTo, Announces, Progress
    <3>2. \A k \in DOMAIN CompleteShards(d, p.cross) : k[1] = d
      BY DEF CompleteShards, Key
    <3>3. QED
      BY <2>2, <3>1, <3>2 DEF PublishedUpTo, Listed
  <2>3. QED
    BY <1>1, <2>1, <2>2
<1>4. ASSUME NEW r \in Run PROVE RunInv(r)
  BY DEF Init, RunInv, Control, JobShape, NoJob, At, UnderLock, Working, Cleaning
<1>5. DOMAIN job = Run /\ DOMAIN late = Run
  BY DEF Init
<1>6. QED
  BY <1>1, <1>2, <1>3, <1>4, <1>5 DEF StoreInv, RunInv

-----------------------------------------------------------------------------
(* Steps that only move a run.                                             *)

(* A run without a job relies on nothing.                                  *)
LEMMA IdleRun ==
    ASSUME NEW r \in Run, job'[r] = NoJob, late'[r] # None => Pending(late[r])'
    PROVE  RunInv(r)'
  BY DEF RunInv, Control, JobShape, NoJob, At, UnderLock, Working, Cleaning

LEMMA StepMoves ==
    ASSUME DOMAIN job = Run, NEW r \in Run, NEW j, Step(r, j)
    PROVE  /\ job'[r] = j
           /\ DOMAIN job' = Run
           /\ \A q \in Run \ {r} : job'[q] = job[q]
  BY DEF Step

LEMMA GoMoves ==
    ASSUME LockTypeOK, NEW r \in Run, NEW s, Go(r, s)
    PROVE  pc'[r] = s /\ \A q \in Run \ {r} : pc'[q] = pc[q]
  BY DEF Go, LockTypeOK

(* What a run relies on in an unchanged store.                             *)
LEMMA SameStore ==
    ASSUME StoreInv, UNCHANGED <<deployed, storeVars>>, NEW r \in Run
    PROVE  /\ \A m : Based(m) => Based(m)'
           /\ HandedOver' = HandedOver
           /\ late'[r] = late[r] => (late[r] # None => Pending(late[r]))'
<1>1. late[r] # None => Pending(late[r])
  BY DEF StoreInv
<1>2. QED
  BY <1>1 DEF storeVars, Based, HandedOver, Pending, Listed

LEMMA BeginRunKeeps ==
    ASSUME StoreInv, LockTypeOK, NEW r \in Run, BeginRun(r)
    PROVE  StoreInv'
<1>1. PICK w \in Windows :
          Step(r, [stage |-> "manifestRead", deployment |-> deployed, window |-> w])
  BY DEF BeginRun
<1> DEFINE j == [stage |-> "manifestRead", deployment |-> deployed, window |-> w]
<1>2. job'[r] = j /\ DOMAIN job' = Run /\ \A q \in Run \ {r} : job'[q] = job[q]
  BY <1>1, StepMoves DEF StoreInv
<1>3. pc'[r] = "starting" /\ \A q \in Run \ {r} : pc'[q] = pc[q]
  BY GoMoves DEF BeginRun, Start
<1>4. UNCHANGED <<source, deployed, storeVars, late>>
  BY DEF BeginRun
<1>5. RunInv(r)'
  BY <1>2, <1>3, <1>4, SameStore
  DEF RunInv, Control, JobShape, At, UnderLock, Working, Cleaning
<1>6. QED
  BY <1>2, <1>3, <1>4, <1>5, StoreUntouched DEF StoreInv

LEMMA ReadManifestKeeps ==
    ASSUME StoreInv, LockTypeOK, NEW r \in Run, ReadManifest(r)
    PROVE  StoreInv'
<1> DEFINE j == [stage |-> "lock", deployment |-> job[r].deployment,
                 window |-> job[r].window, base |-> manifest]
<1>1. job'[r] = j /\ DOMAIN job' = Run /\ \A q \in Run \ {r} : job'[q] = job[q]
  BY StepMoves DEF ReadManifest, StoreInv
<1>2. UNCHANGED <<source, deployed, storeVars, late, pc>>
  BY DEF ReadManifest, lockVars
<1>3. Announces(manifest) /\ Based(manifest)
  BY DEF StoreInv, Listed, Based
<1>4. job[r].deployment = deployed /\ job[r].window \in Windows /\ pc[r] = "starting"
  BY DEF ReadManifest, StoreInv, Control, Working, At
<1>5. RunInv(r)'
  <2>1. Control(r)'
    BY <1>1, <1>2, <1>4 DEF Control, JobShape, At, UnderLock, Acquiring
  <2>2. Working(job[r])'
    BY <1>1, <1>2, <1>3, <1>4, SameStore DEF Working
  <2>3. QED
    BY <1>1, <1>2, <2>1, <2>2, SameStore DEF RunInv, Cleaning
<1>6. QED
  BY <1>1, <1>2, <1>5, StoreUntouched DEF StoreInv

(* The steps of acquirePublisherLock move the control state of one run to  *)
(* another one of the protocol, to the try block or to an end.             *)
LEMMA AcquireMoves ==
    ASSUME LockTypeOK, NEW r \in Run, Acquire(r) \/ RepeatedWrite(r)
    PROVE  /\ pc'[r] \in Acquiring \cup {"critical", "refused"}
           /\ \A q \in Run \ {r} : pc'[q] = pc[q]
  BY DEF Acquire, PutIfAbsent, ReadHolder, Replace, Verify, RepeatedWrite, Go,
         Acquiring, LockTypeOK

LEMMA TakeLockKeeps ==
    ASSUME StoreInv, LockTypeOK, NEW r \in Run, TakeLock(r) \/ LockWriteRepeated(r)
    PROVE  StoreInv'
<1>1. /\ job'[r] = AfterAcquire(r)
      /\ DOMAIN job' = Run
      /\ \A q \in Run \ {r} : job'[q] = job[q]
  BY StepMoves DEF TakeLock, LockWriteRepeated, StoreInv
<1>2. UNCHANGED <<source, deployed, storeVars, late>>
  BY DEF TakeLock, LockWriteRepeated
<1>3. /\ pc'[r] \in Acquiring \cup {"critical", "refused"}
      /\ \A q \in Run \ {r} : pc'[q] = pc[q]
  BY AcquireMoves DEF TakeLock, LockWriteRepeated
<1>4. /\ job[r] = [stage |-> "lock", deployment |-> deployed,
                   window |-> job[r].window, base |-> job[r].base]
      /\ job[r].window \in Windows
      /\ Announces(job[r].base) /\ Based(job[r].base)
  BY DEF TakeLock, LockWriteRepeated, StoreInv, Control, JobShape, NoJob, Working, At
<1>5. CASE pc'[r] = "critical"
  <2> DEFINE j == [stage |-> "bounds", deployment |-> deployed,
                   window |-> job[r].window, base |-> job[r].base]
  <2>1. job'[r] = j
    BY <1>1, <1>4, <1>5 DEF AfterAcquire
  <2>2. Control(r)'
    BY <2>1, <1>2, <1>5 DEF Control, JobShape, At, UnderLock
  <2>3. Working(job[r])'
    BY <2>1, <1>2, <1>4, SameStore DEF Working
  <2>4. RunInv(r)'
    BY <2>1, <2>2, <2>3, <1>2, SameStore DEF RunInv, Cleaning
  <2>5. QED
    BY <2>4, <1>1, <1>2, <1>3, StoreUntouched DEF StoreInv
<1>6. CASE pc'[r] = "refused"
  <2>1. job'[r] = NoJob
    BY <1>1, <1>6 DEF AfterAcquire
  <2>2. RunInv(r)'
    BY <2>1, <1>2, SameStore, IdleRun
  <2>3. QED
    BY <2>2, <1>1, <1>2, <1>3, StoreUntouched DEF StoreInv
<1>7. CASE pc'[r] \in Acquiring
  <2>1. job'[r] = job[r]
    BY <1>1, <1>7 DEF AfterAcquire, Acquiring
  <2>2. Control(r)'
    BY <2>1, <1>2, <1>4, <1>7 DEF Control, JobShape, At, UnderLock
  <2>3. Working(job[r])'
    BY <2>1, <1>2, <1>4, SameStore DEF Working
  <2>4. RunInv(r)'
    BY <2>1, <2>2, <2>3, <1>2, <1>4, SameStore DEF RunInv, Cleaning
  <2>5. QED
    BY <2>4, <1>1, <1>2, <1>3, StoreUntouched DEF StoreInv
<1>8. QED
  BY <1>3, <1>5, <1>6, <1>7

(* Returning from the try block with the store unchanged.                  *)
LEMMA ReturnKeeps ==
    ASSUME StoreInv, LockTypeOK, NEW r \in Run, Return(r),
           UNCHANGED <<source, deployed, storeVars, late>>
    PROVE  StoreInv'
<1>1. job'[r] = NoJob /\ DOMAIN job' = Run /\ \A q \in Run \ {r} : job'[q] = job[q]
  BY StepMoves DEF Return, StoreInv
<1>2. \A q \in Run \ {r} : pc'[q] = pc[q]
  BY GoMoves DEF Return, Finish
<1>3. RunInv(r)'
  BY <1>1, SameStore, IdleRun
<1>4. QED
  BY <1>1, <1>2, <1>3, StoreUntouched DEF StoreInv

(* The ranges a run works on start and end on days of the calendar.        *)
LEMMA RangesAreDays ==
    ASSUME NEW window \in Windows, NEW bounds \in Day, NEW latest \in Day
    PROVE  /\ FirstRange(window, bounds) \in [start : Day, end : Day]
           /\ RefreshRange(window, bounds, latest) \in [start : Day, end : Day]
<1>1. window \in [start : Day \cup {NoDate}, end : Day \cup {NoDate}]
  BY PublisherAssumption
<1>2. FirstRange(window, bounds) \in [start : Day, end : Day]
  BY <1>1, DayFacts DEF FirstRange
<1>3. ASSUME NEW end \in Day PROVE RefreshStart(end, latest) \in Day
  BY DayFacts DEF RefreshStart
<1>4. RefreshRange(window, bounds, latest) \in [start : Day, end : Day]
  BY <1>1, <1>3, DayFacts DEF RefreshRange
<1>5. QED
  BY <1>2, <1>4

LEMMA FetchBoundsKeeps ==
    ASSUME StoreInv, LockTypeOK, NEW r \in Run, FetchBounds(r)
    PROVE  StoreInv'
<1> DEFINE b         == job[r].base
           published == HasPublished(b, job[r].deployment)
           latest    == LatestComplete(published)
           range     == IF published
                        THEN RefreshRange(job[r].window, latest, b.latest)
                        ELSE FirstRange(job[r].window, latest)
           j         == [stage |-> "rows", deployment |-> job[r].deployment,
                         base |-> b, bounds |-> latest, range |-> range,
                         rows |-> [k \in Kind |-> None]]
<1>1. UNCHANGED <<source, deployed, storeVars, late>> /\ pc[r] = "critical"
  BY DEF FetchBounds
<1>2. CASE Return(r)
  BY <1>1, <1>2, ReturnKeeps
<1>3. CASE ValidRange(range) /\ Step(r, j) /\ UNCHANGED lockVars
  <2>1. /\ job'[r] = j
        /\ DOMAIN job' = Run
        /\ \A q \in Run \ {r} : job'[q] = job[q]
    BY <1>3, StepMoves DEF StoreInv
  <2>2. /\ job[r].stage = "bounds" /\ job[r].deployment = deployed
        /\ job[r].window \in Windows
        /\ Announces(b) /\ Based(b)
    BY DEF FetchBounds, StoreInv, Control, Working, At
  <2>3. latest \in Day
    BY DEF StoreInv, Progress, LatestComplete
  <2>4. published => b.latest \in Day
    BY <2>2 DEF HasPublished, Announces
  <2>5. range \in [start : Day, end : Day]
    BY <2>2, <2>3, <2>4, RangesAreDays
  <2>6. Control(r)'
    BY <2>1, <2>2, <1>1, <1>3 DEF Control, JobShape, At, UnderLock, lockVars
  <2>7. Working(job[r])'
    BY <2>1, <2>2, <2>3, <2>5, <1>1, <1>3, SameStore DEF Working
  <2>8. RunInv(r)'
    BY <2>1, <2>6, <2>7, <1>1, SameStore DEF RunInv, Cleaning
  <2>9. QED
    BY <2>1, <2>8, <1>1, <1>3, StoreUntouched DEF StoreInv, lockVars
<1>4. QED
  BY <1>2, <1>3 DEF FetchBounds

LEMMA FetchRowsKeeps ==
    ASSUME StoreInv, LockTypeOK, NEW r \in Run, NEW k \in Kind, FetchRows(r, k)
    PROVE  StoreInv'
<1> DEFINE got  == [days |-> IndexedRows(job[r].range), version |-> source.version]
           j    == [job[r] EXCEPT !.rows[k] = got]
           rows == [job[r].rows EXCEPT ![k] = got]
<1>1. UNCHANGED <<lockVars, source, deployed, storeVars, late>> /\ pc[r] = "critical"
  BY DEF FetchRows
<1>2. job'[r] = j /\ DOMAIN job' = Run /\ \A q \in Run \ {r} : job'[q] = job[q]
  BY StepMoves DEF FetchRows, StoreInv
<1>3. /\ job[r] = [stage |-> "rows", deployment |-> deployed, base |-> job[r].base,
                   bounds |-> job[r].bounds, range |-> job[r].range,
                   rows |-> job[r].rows]
      /\ Announces(job[r].base) /\ Based(job[r].base)
      /\ job[r].bounds \in Day
      /\ job[r].range \in [start : Day, end : Day]
      /\ ValidRange(job[r].range)
  BY DEF FetchRows, StoreInv, Control, JobShape, NoJob, Working, At
<1>4. job'[r] = [stage |-> "rows", deployment |-> deployed, base |-> job[r].base,
                 bounds |-> job[r].bounds, range |-> job[r].range, rows |-> rows]
  BY <1>2, <1>3
<1>5. Control(r)'
  BY <1>1, <1>4 DEF Control, JobShape, At, UnderLock, lockVars
<1>6. Working(job[r])'
  BY <1>1, <1>3, <1>4, SameStore DEF Working
<1>7. RunInv(r)'
  BY <1>1, <1>4, <1>5, <1>6, SameStore DEF RunInv, Cleaning
<1>8. QED
  BY <1>1, <1>2, <1>7, StoreUntouched DEF StoreInv, lockVars

LEMMA AcceptRowsKeeps ==
    ASSUME StoreInv, LockTypeOK, NEW r \in Run, AcceptRows(r)
    PROVE  StoreInv'
<1> DEFINE j == [stage |-> "shards", deployment |-> job[r].deployment,
                 base |-> job[r].base, bounds |-> job[r].bounds,
                 range |-> job[r].range, rows |-> job[r].rows,
                 next |-> FirstPlace(job[r].range)]
<1>1. UNCHANGED <<source, deployed, storeVars, late>> /\ pc[r] = "critical"
  BY DEF AcceptRows
<1>2. CASE Return(r)
  BY <1>1, <1>2, ReturnKeeps
<1>3. CASE Step(r, j) /\ UNCHANGED lockVars
  <2>1. /\ job'[r] = j
        /\ DOMAIN job' = Run
        /\ \A q \in Run \ {r} : job'[q] = job[q]
    BY <1>3, StepMoves DEF StoreInv
  <2>2. /\ job[r].deployment = deployed
        /\ Announces(job[r].base) /\ Based(job[r].base)
        /\ job[r].bounds \in Day
        /\ job[r].range \in [start : Day, end : Day]
        /\ ValidRange(job[r].range)
    BY DEF AcceptRows, StoreInv, Control, Working, At
  <2>3. WrittenBefore(job[r])'
    <3>1. /\ MonthOf[job[r].range.start] \in Nat /\ MonthOf[job[r].range.end] \in Nat
          /\ MonthOf[job[r].range.start] <= MonthOf[job[r].range.end]
      BY <2>2, RangeMonths
    <3>2. /\ job'[r].range = job[r].range
          /\ job'[r].next = [month |-> MonthOf[job[r].range.start], kind |-> 1]
      BY <2>1 DEF FirstPlace
    <3>3. QED
      BY <3>1, <3>2, PlacesNat DEF WrittenBefore, MonthKeys, Precedes
  <2>4. Control(r)'
    BY <2>1, <2>2, <1>1, <1>3 DEF Control, JobShape, At, UnderLock, lockVars
  <2>5. Working(job[r])'
    BY <2>1, <2>2, <2>3, <1>1, SameStore DEF Working
  <2>6. RunInv(r)'
    BY <2>1, <2>4, <2>5, <1>1, SameStore DEF RunInv, Cleaning
  <2>7. QED
    BY <2>1, <2>6, <1>1, <1>3, StoreUntouched DEF StoreInv, lockVars
<1>4. QED
  BY <1>2, <1>3 DEF AcceptRows

-----------------------------------------------------------------------------
(* Requests that change the store.                                         *)

(* A request that relies on nothing that does not hold keeps the shards of *)
(* the current deployment and leaves a manifest that lists what is there.  *)
LEMMA Performed ==
    ASSUME StoreInv, deployed' = deployed, NEW request,
           Pending(request), Perform(request)
    PROVE  /\ StoreKept
           /\ Announces(manifest)' /\ Listed(manifest)'
           /\ request.op = "shard" => DOMAIN bucket' = DOMAIN bucket \cup {request.key}
           /\ request.op = "manifest" => HandedOver'
<1>1. Announces(manifest) /\ Listed(manifest)
  BY DEF StoreInv
<1>2. CASE /\ request.op = "shard"
           /\ bucket' = [k \in DOMAIN bucket \cup {request.key} |->
                            IF k = request.key THEN request.shard ELSE bucket[k]]
           /\ UNCHANGED manifest
  BY <1>1, <1>2 DEF StoreKept, Announces, Listed
<1>3. CASE /\ request.op = "manifest"
           /\ manifest' = request.manifest
           /\ UNCHANGED bucket
  BY <1>3 DEF Pending, StoreKept, Announces, Listed, HandedOver
<1>4. CASE /\ request.op = "delete"
           /\ bucket' = Restrict(bucket, DOMAIN bucket \ {request.key})
           /\ UNCHANGED manifest
  <2>1. DOMAIN bucket' = DOMAIN bucket \ {request.key}
    BY <1>4 DEF Restrict
  <2>2. request.key[1] \notin {deployed, Stable} /\ HandedOver
    BY <1>4 DEF Pending
  <2>3. StoreKept
    BY <1>4, <2>1, <2>2 DEF StoreKept
  <2>4. Announces(manifest)' /\ Listed(manifest)'
    BY <1>1, <1>4, <2>1, <2>2 DEF Announces, Listed, HandedOver
  <2>5. QED
    BY <1>4, <2>3, <2>4
<1>5. QED
  BY <1>2, <1>3, <1>4 DEF Perform

LEMMA WriteShardKeeps ==
    ASSUME StoreInv, LockTypeOK, NEW r \in Run, WriteShard(r)
    PROVE  StoreInv'
<1> DEFINE next == job[r].next
           key  == ShardKey(job[r], next)
           j    == IF next # LastPlace(job[r].range)
                   THEN [job[r] EXCEPT !.next = PlaceAfter(next)]
                   ELSE [job[r] EXCEPT !.stage = "manifest"]
<1>1. UNCHANGED <<lockVars, source, deployed, late>> /\ pc[r] = "critical"
  BY DEF WriteShard
<1>2. job'[r] = j /\ DOMAIN job' = Run /\ \A q \in Run \ {r} : job'[q] = job[q]
  BY StepMoves DEF WriteShard, StoreInv
<1>3. /\ job[r] = [stage |-> "shards", deployment |-> deployed, base |-> job[r].base,
                   bounds |-> job[r].bounds, range |-> job[r].range,
                   rows |-> job[r].rows, next |-> next]
      /\ Announces(job[r].base) /\ Based(job[r].base)
      /\ job[r].bounds \in Day
      /\ job[r].range \in [start : Day, end : Day]
      /\ ValidRange(job[r].range)
      /\ WrittenBefore(job[r])
  BY DEF WriteShard, StoreInv, Control, JobShape, NoJob, Working, At
<1>4. /\ StoreKept
      /\ Announces(manifest)' /\ Listed(manifest)'
      /\ DOMAIN bucket' = DOMAIN bucket \cup {key}
  <2>1. Perform(PutShard(job[r]))
    BY DEF WriteShard
  <2>2. Pending(PutShard(job[r])) /\ PutShard(job[r]).op = "shard"
        /\ PutShard(job[r]).key = key
    BY DEF PutShard, Pending
  <2>3. QED
    BY <2>1, <2>2, <1>1, Performed
<1>5. /\ MonthOf[job[r].range.start] \in Nat /\ MonthOf[job[r].range.end] \in Nat
      /\ MonthOf[job[r].range.start] <= MonthOf[job[r].range.end]
  BY <1>3, RangeMonths
<1>6. /\ next = [month |-> next.month, kind |-> next.kind]
      /\ next.month \in MonthKeys(job[r].range.start, job[r].range.end)
      /\ next.kind \in 1 .. Len(Kinds)
      /\ key = Key(deployed, Kinds[next.kind], next.month)
      /\ \A month \in MonthKeys(job[r].range.start, job[r].range.end),
            kind \in 1 .. Len(Kinds) :
            Precedes(month, kind, next)
                => Key(deployed, Kinds[kind], month) \in DOMAIN bucket
  BY <1>3 DEF WrittenBefore, ShardKey
<1>7. \A m : Based(m) => Based(m)'
  BY <1>4, <1>1 DEF Based
<1>8. ASSUME next # LastPlace(job[r].range) PROVE RunInv(r)'
  <2>1. job'[r] = [stage |-> "shards", deployment |-> deployed, base |-> job[r].base,
                   bounds |-> job[r].bounds, range |-> job[r].range,
                   rows |-> job[r].rows, next |-> PlaceAfter(next)]
    BY <1>2, <1>3, <1>8
  <2>2. /\ PlaceAfter(next) =
              [month |-> PlaceAfter(next).month, kind |-> PlaceAfter(next).kind]
        /\ PlaceAfter(next).month \in MonthKeys(job[r].range.start, job[r].range.end)
        /\ PlaceAfter(next).kind \in 1 .. Len(Kinds)
        /\ \A month \in Nat, kind \in 1 .. Len(Kinds) :
              Precedes(month, kind, PlaceAfter(next))
                  => \/ Precedes(month, kind, next)
                     \/ month = next.month /\ kind = next.kind
    <3>1. CASE next.kind < Len(Kinds)
      <4>1. PlaceAfter(next) = [month |-> next.month, kind |-> next.kind + 1]
        BY <1>6, <3>1 DEF PlaceAfter
      <4>2. QED
        BY <4>1, <1>5, <1>6, <3>1, PlacesNat DEF MonthKeys, Precedes
    <3>2. CASE ~(next.kind < Len(Kinds))
      <4>1. PlaceAfter(next) = [month |-> next.month + 1, kind |-> 1]
        BY <1>6, <3>2 DEF PlaceAfter
      <4>2. next.kind = Len(Kinds)
        BY <1>6, <3>2, PlacesNat
      <4>3. next.month # MonthOf[job[r].range.end]
        BY <1>6, <1>8, <4>2 DEF LastPlace
      <4>4. QED
        BY <4>1, <4>2, <4>3, <1>5, <1>6, PlacesNat DEF MonthKeys, Precedes
    <3>3. QED
      BY <3>1, <3>2
  <2>3. WrittenBefore(job[r])'
    <3>1. MonthKeys(job[r].range.start, job[r].range.end) \subseteq Nat
      BY <1>5 DEF MonthKeys
    <3>2. \A month \in MonthKeys(job[r].range.start, job[r].range.end),
             kind \in 1 .. Len(Kinds) :
             Precedes(month, kind, PlaceAfter(next))
                 => Key(deployed, Kinds[kind], month) \in DOMAIN bucket'
      BY <3>1, <2>2, <1>4, <1>6
    <3>3. QED
      BY <2>1, <2>2, <3>2 DEF WrittenBefore
  <2>4. Control(r)'
    BY <2>1, <1>1 DEF Control, JobShape, At, UnderLock, lockVars
  <2>5. Working(job[r])'
    BY <2>1, <2>3, <1>1, <1>3, <1>7 DEF Working
  <2>6. QED
    BY <2>1, <2>4, <2>5, <1>1, <1>4, LateKept DEF RunInv, Cleaning
<1>9. ASSUME next = LastPlace(job[r].range) PROVE RunInv(r)'
  <2>1. job'[r] = [stage |-> "manifest", deployment |-> deployed, base |-> job[r].base,
                   bounds |-> job[r].bounds, range |-> job[r].range,
                   rows |-> job[r].rows, next |-> next]
    BY <1>2, <1>3, <1>9
  <2>2. (ShardKeys(job[r]) \subseteq DOMAIN bucket)'
    <3> SUFFICES ASSUME NEW i \in DOMAIN Kinds,
                        NEW month \in MonthKeys(job[r].range.start, job[r].range.end)
                 PROVE  Key(deployed, Kinds[i], month) \in DOMAIN bucket'
      BY <2>1, <1>1 DEF ShardKeys, Kind
    <3>1. i \in 1 .. Len(Kinds)
      BY PublisherAssumption
    <3>2. next.month = MonthOf[job[r].range.end] /\ next.kind = Len(Kinds)
      BY <1>9 DEF LastPlace
    <3>3. Precedes(month, i, next) \/ (month = next.month /\ i = next.kind)
      BY <3>1, <3>2, <1>5, PlacesNat DEF MonthKeys, Precedes
    <3>4. QED
      BY <3>1, <3>3, <1>4, <1>6
  <2>3. Control(r)'
    BY <2>1, <1>1 DEF Control, JobShape, At, UnderLock, lockVars
  <2>4. Working(job[r])'
    BY <2>1, <2>2, <1>1, <1>3, <1>7 DEF Working
  <2>5. QED
    BY <2>1, <2>3, <2>4, <1>1, <1>4, LateKept DEF RunInv, Cleaning
<1>10. RunInv(r)'
  BY <1>8, <1>9
<1>11. QED
  BY <1>1, <1>2, <1>4, <1>10, OneRunMoves DEF StoreInv, lockVars

(* The manifest a run is about to publish announces days of the calendar   *)
(* and lists shards that are in the bucket: those the run has written and  *)
(* those it found in the manifest it read.                                 *)
LEMMA ManifestReady ==
    ASSUME StoreInv, NEW r \in Run, At(r, "manifest")
    PROVE  Pending(PutManifest(job[r]))
<1> DEFINE j        == job[r]
           m        == NextManifest(j.base, j.deployment, j.range, j.bounds, Shards(j))
           earliest == PublishedEarliest(EarliestBefore(j.base, j.range), j.range)
           latest   == PublishedLatest(LatestBefore(j.base, j.range), j.range, j.bounds)
           known    == ArtifactsBefore(j.base)
           all      == [k \in DOMAIN Shards(j) \cup DOMAIN known |->
                           IF k \in DOMAIN Shards(j) THEN Shards(j)[k] ELSE known[k]]
           listed   == Pruned(all, j.deployment, earliest, latest)
<1>1. /\ j.deployment = deployed
      /\ Announces(j.base) /\ Based(j.base)
      /\ j.bounds \in Day
      /\ j.range \in [start : Day, end : Day]
      /\ ShardKeys(j) \subseteq DOMAIN bucket
  BY DEF StoreInv, Control, Working, At
<1>2. m = [deployment |-> j.deployment, earliest |-> earliest, latest |-> latest,
           artifacts |-> listed]
  BY DEF NextManifest
<1>3. earliest \in Day /\ latest \in Day
  <2>1. EarliestBefore(j.base, j.range) \in Day /\ LatestBefore(j.base, j.range) \in Day
    BY <1>1 DEF EarliestBefore, LatestBefore, Announces
  <2>2. QED
    BY <2>1, <1>1, DayFacts DEF PublishedEarliest, PublishedLatest
<1>4. ASSUME NEW k \in DOMAIN listed
      PROVE  k[1] \in {deployed, Stable} /\ k \in DOMAIN bucket
  <2>1. k \in DOMAIN all /\ k[1] \in {deployed, Stable}
    BY <1>1 DEF Pruned, Restrict
  <2>2. CASE k \in DOMAIN Shards(j)
    BY <2>1, <2>2, <1>1 DEF Shards
  <2>3. CASE k \in DOMAIN known
    BY <2>1, <2>3, <1>1 DEF ArtifactsBefore, Based
  <2>4. QED
    BY <2>1, <2>2, <2>3
<1>5. Announces(m) /\ Listed(m) /\ m.deployment = deployed
  BY <1>1, <1>2, <1>3, <1>4 DEF Announces, Listed
<1>6. PutManifest(j) = [op |-> "manifest", manifest |-> m]
  BY DEF PutManifest
<1>7. QED
  BY <1>5, <1>6 DEF Pending

LEMMA WriteManifestKeeps ==
    ASSUME StoreInv, LockTypeOK, NEW r \in Run, WriteManifest(r)
    PROVE  StoreInv'
<1> DEFINE j == [stage |-> "list", deployment |-> job[r].deployment]
<1>1. UNCHANGED <<lockVars, source, deployed, late>> /\ pc[r] = "critical"
  BY DEF WriteManifest
<1>2. job'[r] = j /\ DOMAIN job' = Run /\ \A q \in Run \ {r} : job'[q] = job[q]
  BY StepMoves DEF WriteManifest, StoreInv
<1>3. job[r].deployment = deployed
  BY DEF WriteManifest, StoreInv, Control, At
<1>4. /\ StoreKept
      /\ Announces(manifest)' /\ Listed(manifest)'
      /\ HandedOver'
  <2>1. Pending(PutManifest(job[r])) /\ Perform(PutManifest(job[r]))
    BY ManifestReady DEF WriteManifest
  <2>2. PutManifest(job[r]).op = "manifest"
    BY DEF PutManifest
  <2>3. QED
    BY <2>1, <2>2, <1>1, Performed
<1>5. RunInv(r)'
  <2>1. Control(r)'
    BY <1>1, <1>2, <1>3 DEF Control, JobShape, At, UnderLock, lockVars
  <2>2. Working(job[r])' /\ Cleaning(job[r])'
    BY <1>2, <1>4 DEF Working, Cleaning
  <2>3. QED
    BY <2>1, <2>2, <1>1, <1>4, LateKept DEF RunInv
<1>6. QED
  BY <1>1, <1>2, <1>4, <1>5, OneRunMoves DEF StoreInv, lockVars

LEMMA ListStaleKeeps ==
    ASSUME StoreInv, LockTypeOK, NEW r \in Run, ListStale(r)
    PROVE  StoreInv'
<1> DEFINE stale == StaleKeys(job[r].deployment)
           j     == [stage |-> "clean", deployment |-> job[r].deployment, stale |-> stale]
<1>1. UNCHANGED <<source, deployed, storeVars, late>> /\ pc[r] = "critical"
  BY DEF ListStale
<1>2. CASE Return(r)
  BY <1>1, <1>2, ReturnKeeps
<1>3. CASE Step(r, j) /\ UNCHANGED lockVars
  <2>1. /\ job'[r] = j
        /\ DOMAIN job' = Run
        /\ \A q \in Run \ {r} : job'[q] = job[q]
    BY <1>3, StepMoves DEF StoreInv
  <2>2. job[r].deployment = deployed /\ HandedOver
    BY DEF ListStale, StoreInv, Control, Cleaning, At
  <2>3. Control(r)'
    BY <2>1, <2>2, <1>1, <1>3 DEF Control, JobShape, At, UnderLock, lockVars
  <2>4. \A k \in stale : k[1] \notin {deployed, Stable}
    BY <2>2 DEF StaleKeys
  <2>5. Working(job[r])' /\ Cleaning(job[r])'
    <3>1. job'[r].stage = "clean" /\ job'[r].stale = stale
      BY <2>1
    <3>2. HandedOver' /\ deployed' = deployed
      BY <2>2, <1>1, SameStore
    <3> HIDE DEF stale
    <3>3. QED
      BY <3>1, <3>2, <2>4 DEF Working, Cleaning
  <2>6. RunInv(r)'
    BY <2>3, <2>5, <1>1, SameStore DEF RunInv
  <2>7. QED
    BY <2>1, <2>6, <1>1, <1>3, StoreUntouched DEF StoreInv, lockVars
<1>4. QED
  BY <1>2, <1>3 DEF ListStale

LEMMA DeleteStaleKeeps ==
    ASSUME StoreInv, LockTypeOK, NEW r \in Run, DeleteStale(r)
    PROVE  StoreInv'
<1>1. UNCHANGED <<source, deployed, late>> /\ pc[r] = "critical"
  BY DEF DeleteStale
<1>2. /\ job[r] = [stage |-> "clean", deployment |-> deployed, stale |-> job[r].stale]
      /\ HandedOver
      /\ \A k \in job[r].stale : k[1] \notin {deployed, Stable}
  BY DEF DeleteStale, StoreInv, Control, JobShape, NoJob, Cleaning, At
<1>3. PICK k \in job[r].stale :
          /\ Perform(DeleteShard(k))
          /\ \/ Return(r)
             \/ /\ Step(r, [job[r] EXCEPT !.stale = @ \ {k}])
                /\ UNCHANGED lockVars
  BY DEF DeleteStale
<1>4. StoreKept /\ Announces(manifest)' /\ Listed(manifest)'
  <2>1. Pending(DeleteShard(k))
    BY <1>2 DEF DeleteShard, Pending
  <2>2. QED
    BY <2>1, <1>1, <1>3, Performed
<1>5. HandedOver'
  BY <1>2, <1>4 DEF HandedOver, StoreKept
<1>6. CASE Return(r)
  <2>1. job'[r] = NoJob /\ DOMAIN job' = Run /\ \A q \in Run \ {r} : job'[q] = job[q]
    BY <1>6, StepMoves DEF Return, StoreInv
  <2>2. \A q \in Run \ {r} : pc'[q] = pc[q]
    BY <1>6, GoMoves DEF Return, Finish
  <2>3. RunInv(r)'
    BY <2>1, <1>1, <1>4, LateKept, IdleRun
  <2>4. QED
    BY <2>1, <2>2, <2>3, <1>1, <1>4, OneRunMoves DEF StoreInv
<1>7. CASE Step(r, [job[r] EXCEPT !.stale = @ \ {k}]) /\ UNCHANGED lockVars
  <2>1. /\ job'[r] = [job[r] EXCEPT !.stale = @ \ {k}]
        /\ DOMAIN job' = Run
        /\ \A q \in Run \ {r} : job'[q] = job[q]
    BY <1>7, StepMoves DEF StoreInv
  <2>2. job'[r] = [stage |-> "clean", deployment |-> deployed,
                   stale |-> job[r].stale \ {k}]
    BY <2>1, <1>2
  <2>3. Control(r)'
    BY <2>2, <1>1, <1>7 DEF Control, JobShape, At, UnderLock, lockVars
  <2>4. Working(job[r])' /\ Cleaning(job[r])'
    BY <2>2, <1>1, <1>2, <1>5 DEF Working, Cleaning
  <2>5. RunInv(r)'
    BY <2>3, <2>4, <1>1, <1>4, LateKept DEF RunInv
  <2>6. QED
    BY <2>1, <2>5, <1>1, <1>4, <1>7, OneRunMoves DEF StoreInv, lockVars
<1>8. QED
  BY <1>3, <1>6, <1>7

-----------------------------------------------------------------------------
(* Failures.                                                               *)

(* A run without a job may release its lock, and its late lock requests    *)
(* may arrive.                                                             *)
LEMMA ReleaseKeeps ==
    ASSUME StoreInv, LockTypeOK, NEW r \in Run, Unlock(r) \/ LateLockRequest(r)
    PROVE  StoreInv'
<1>1. UNCHANGED pubVars
  BY DEF Unlock, LateLockRequest
<1>2. \A q \in Run \ {r} : pc'[q] = pc[q]
  BY GoMoves
  DEF Unlock, LateLockRequest, Release, ReleaseRead, ReleaseDelete, Land, Lose
<1>3. pc[r] \in {"releasing", "deleting"} \cup Late
  BY DEF Unlock, LateLockRequest, Release, ReleaseRead, ReleaseDelete, Land, Lose, Late
<1>4. job[r] = NoJob
  <2>1. ~At(r, "manifestRead") /\ ~At(r, "lock") /\ job[r].stage \notin UnderLock
    BY <1>3 DEF StoreInv, Control, Acquiring, Late
  <2>2. QED
    BY <2>1 DEF StoreInv, Control, JobShape, At, UnderLock
<1>5. /\ job'[r] = NoJob
      /\ late' = late /\ job' = job
      /\ UNCHANGED <<source, deployed, storeVars>>
  BY <1>1, <1>4 DEF pubVars, storeVars
<1>6. RunInv(r)'
  BY <1>5, SameStore, IdleRun
<1>7. QED
  BY <1>2, <1>5, <1>6, StoreUntouched DEF StoreInv

(* The request a run leaves behind relies on nothing that does not hold.   *)
LEMMA LeftRequests ==
    ASSUME StoreInv, NEW r \in Run, LeaveRequest(r)
    PROVE  /\ DOMAIN late' = Run
           /\ \A q \in Run \ {r} : late'[q] = late[q]
           /\ late'[r] # None => Pending(late'[r])
<1>1. DOMAIN late = Run /\ (late[r] # None => Pending(late[r]))
  BY DEF StoreInv
<1>2. CASE UNCHANGED late
  BY <1>1, <1>2
<1>3. CASE late' = [late EXCEPT ![r] = PutShard(job[r])]
  <2>1. Pending(PutShard(job[r]))
    BY DEF PutShard, Pending
  <2>2. QED
    BY <1>1, <1>3, <2>1
<1>4. CASE At(r, "manifest") /\ late' = [late EXCEPT ![r] = PutManifest(job[r])]
  BY <1>1, <1>4, ManifestReady
<1>5. CASE /\ At(r, "clean")
           /\ \E k \in job[r].stale : late' = [late EXCEPT ![r] = DeleteShard(k)]
  <2>1. PICK k \in job[r].stale : late' = [late EXCEPT ![r] = DeleteShard(k)]
    BY <1>5
  <2>2. HandedOver /\ k[1] \notin {deployed, Stable}
    BY <1>5 DEF StoreInv, Cleaning, At
  <2>3. Pending(DeleteShard(k))
    BY <2>2 DEF DeleteShard, Pending
  <2>4. QED
    BY <1>1, <2>1, <2>3
<1>6. QED
  BY <1>2, <1>3, <1>4, <1>5 DEF LeaveRequest

LEMMA FailureKeeps ==
    ASSUME StoreInv, LockTypeOK, NEW r \in Run, RequestThrows(r) \/ RunDies(r)
    PROVE  StoreInv'
<1>1. job'[r] = NoJob /\ DOMAIN job' = Run /\ \A q \in Run \ {r} : job'[q] = job[q]
  BY StepMoves DEF RequestThrows, RunDies, StoreInv
<1>2. UNCHANGED <<source, deployed, storeVars>>
  BY DEF RequestThrows, RunDies
<1>3. \A q \in Run \ {r} : pc'[q] = pc[q]
  BY GoMoves DEF RequestThrows, RunDies, Throw, Abort
<1>4. /\ DOMAIN late' = Run
      /\ \A q \in Run \ {r} : late'[q] = late[q]
      /\ late'[r] # None => Pending(late'[r])
  BY LeftRequests DEF RequestThrows, RunDies
<1>5. (late[r] # None => Pending(late[r]))'
  BY <1>2, <1>4 DEF Pending, Listed, HandedOver, storeVars
<1>6. RunInv(r)'
  BY <1>1, <1>5, IdleRun
<1>7. QED
  BY <1>1, <1>2, <1>3, <1>4, <1>6, StoreUntouched

LEMMA LateRequestKeeps ==
    ASSUME StoreInv, LockTypeOK, NEW r \in Run, LateRequest(r)
    PROVE  StoreInv'
<1>1. /\ UNCHANGED <<lockVars, source, deployed, job>>
      /\ late' = [late EXCEPT ![r] = None]
      /\ Perform(late[r]) \/ UNCHANGED storeVars
  BY DEF LateRequest
<1>2. DOMAIN late = Run /\ Pending(late[r])
  BY DEF LateRequest, StoreInv
<1>3. StoreKept /\ Announces(manifest)' /\ Listed(manifest)'
  <2>1. CASE Perform(late[r])
    BY <2>1, <1>1, <1>2, Performed
  <2>2. CASE UNCHANGED storeVars
    BY <2>2, <1>1 DEF StoreInv, StoreKept, Announces, Listed, storeVars
  <2>3. QED
    BY <1>1, <2>1, <2>2
<1>4. ASSUME NEW q \in Run PROVE RunInv(q)'
  <2>1. CASE q # r
    BY <2>1, <1>1, <1>2, <1>3, OthersKept DEF lockVars
  <2>2. CASE q = r
    <3>1. (Control(r) /\ Working(job[r]) /\ Cleaning(job[r]))'
      BY <1>1, <1>3, WorkKept DEF lockVars
    <3>2. late'[r] = None
      BY <1>1, <1>2
    <3>3. QED
      BY <2>2, <3>1, <3>2 DEF RunInv
  <2>3. QED
    BY <2>1, <2>2
<1>5. QED
  BY <1>1, <1>2, <1>3, <1>4 DEF StoreInv, RunInv

-----------------------------------------------------------------------------
(* The surroundings.                                                       *)

(* The source may change as it likes: what the store holds does not.       *)
LEMMA SourceKeeps ==
    ASSUME StoreInv, source'.progress \in Progress,
           UNCHANGED <<pc, deployed, storeVars, job, late>>
    PROVE  StoreInv'
<1>1. StoreKept
  BY DEF StoreKept, storeVars
<1>2. Announces(manifest)' /\ Listed(manifest)'
  BY DEF StoreInv, Announces, Listed, storeVars
<1>3. \A q \in Run : RunInv(q)'
  BY <1>1, OthersKept
<1>4. QED
  BY <1>2, <1>3 DEF StoreInv, RunInv

(* A new deployment finds no run at work and no request under way, so that *)
(* nothing relies on the shards of the old one being the current ones.     *)
LEMMA RedeployKeeps ==
    ASSUME StoreInv, RedeployWhenIdle, NEW d \in Deployment, Redeploy(d)
    PROVE  StoreInv'
<1>1. /\ UNCHANGED <<pc, storeVars, job, late>>
      /\ source'.progress = NothingIndexed
      /\ Idle
  BY DEF Redeploy, Reset, lockVars
<1>2. NothingIndexed \in Progress
  BY CalendarAssumption DEF NothingIndexed, Progress, Day
<1>3. Announces(manifest)' /\ Listed(manifest)'
  BY <1>1 DEF StoreInv, Announces, Listed, storeVars
<1>4. ASSUME NEW q \in Run PROVE RunInv(q)'
  <2>1. job[q] = NoJob
    <3>1. pc[q] \notin Live
      BY <1>1 DEF Idle
    <3>2. ~At(q, "manifestRead") /\ ~At(q, "lock") /\ job[q].stage \notin UnderLock
      BY <3>1 DEF StoreInv, Control, Live, Acquiring, Holding
    <3>3. QED
      BY <3>2 DEF StoreInv, Control, JobShape, At, UnderLock
  <2>2. job'[q] = NoJob /\ late'[q] = None
    BY <1>1, <2>1 DEF Idle
  <2>3. QED
    BY <2>2, IdleRun
<1>5. QED
  BY <1>1, <1>2, <1>3, <1>4 DEF StoreInv, RunInv

(* Every step of the publisher keeps the invariant, when deployments wait  *)
(* for the runs of the previous one.                                       *)
LEMMA StoreInvStep ==
    ASSUME RedeployWhenIdle, StoreInv, LockTypeOK, [Next]_vars
    PROVE  StoreInv'
<1>1. CASE UNCHANGED vars
  BY <1>1, SourceKeeps DEF vars, pubVars, lockVars, storeVars, StoreInv
<1>2. CASE Time
  BY <1>2, SourceKeeps DEF Time, Tick, pubVars, storeVars, StoreInv
<1>3. CASE Index
  BY <1>3, SourceKeeps DEF Index, lockVars
<1>4. CASE \E d \in Deployment : Redeploy(d)
  BY <1>4, RedeployKeeps
<1>5. CASE Restart
  <2>1. NothingIndexed \in Progress
    BY CalendarAssumption DEF NothingIndexed, Progress, Day
  <2>2. QED
    BY <1>5, <2>1, SourceKeeps DEF Restart, Reset, lockVars
<1>6. ASSUME NEW r \in Run, BeginRun(r) PROVE StoreInv'
  BY <1>6, BeginRunKeeps
<1>7. ASSUME NEW r \in Run, RunStep(r) PROVE StoreInv'
  BY <1>7, ReadManifestKeeps, TakeLockKeeps, FetchBoundsKeeps, FetchRowsKeeps,
     AcceptRowsKeeps, WriteShardKeeps, WriteManifestKeeps, ListStaleKeeps,
     DeleteStaleKeeps, ReleaseKeeps
  DEF RunStep
<1>8. ASSUME NEW r \in Run, RunFault(r) PROVE StoreInv'
  BY <1>8, FailureKeeps, TakeLockKeeps, ReleaseKeeps, LateRequestKeeps DEF RunFault
<1>9. QED
  BY <1>1, <1>2, <1>3, <1>4, <1>5, <1>6, <1>7, <1>8 DEF Next

(* The inductive invariant holds throughout, whatever fails, arrives late  *)
(* or expires.                                                             *)
THEOREM StoreInvariant == ASSUME RedeployWhenIdle PROVE Spec => []StoreInv
<1>1. Spec => []LockTypeOK
  BY PublisherFollowsLock, LockTypeCorrect, PTL
<1>2. StoreInv /\ LockTypeOK /\ [Next]_vars => StoreInv'
  BY StoreInvStep
<1>3. QED
  BY <1>1, <1>2, StoreInvInit, PTL DEF Spec

(* As long as a new deployment waits for the runs of the previous one, the *)
(* manifest never lists a shard that is not in the bucket: not while a run *)
(* overwrites shards, replaces the manifest or cleans up, not after a run  *)
(* died at any point, not when two runs overlap because a lock expired,    *)
(* and not when an abandoned request arrives late.                         *)
THEOREM ManifestNeverDangles == ASSUME RedeployWhenIdle PROVE Spec => []ListedShardsExist
<1>1. StoreInv => ListedShardsExist
  BY DEF StoreInv, Listed, ListedShardsExist
<1>2. QED
  BY <1>1, StoreInvariant, PTL
=============================================================================
