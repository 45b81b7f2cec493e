------------------------- MODULE PublisherDatesProofs -------------------------
(***************************************************************************)
(* What the manifest of the publisher announces, for every calendar, every *)
(* set of runs and deployments and every bound: shards of calendar days,   *)
(* no month missing, a metrics row for every day, and no deployment taking *)
(* over before it is complete.                                             *)
(***************************************************************************)
EXTENDS PublisherProofs

-----------------------------------------------------------------------------
(* A step of run r leaves the source, the deployment and the other runs    *)
(* alone.                                                                  *)

Moves(r) == BeginRun(r) \/ RunStep(r) \/ RunFault(r)

OthersRest(r) ==
    /\ UNCHANGED <<source, deployed>>
    /\ DOMAIN job' = Run /\ DOMAIN late' = Run
    /\ \A q \in Run \ {r} :
          job'[q] = job[q] /\ pc'[q] = pc[q] /\ late'[q] = late[q]

LEMMA PcMoves ==
    ASSUME LockTypeOK, NEW r \in Run, NEW q \in Run \ {r},
           Start(r) \/ Acquire(r) \/ Finish(r) \/ Release(r) \/ Fault(r)
    PROVE  pc'[q] = pc[q]
<1> USE DEF Go, LockTypeOK
<1>1. CASE Start(r) \/ Finish(r)
  BY <1>1 DEF Start, Finish
<1>2. CASE Acquire(r)
  BY <1>2 DEF Acquire, PutIfAbsent, ReadHolder, Replace, Verify
<1>3. CASE Release(r)
  BY <1>3 DEF Release, ReleaseRead, ReleaseDelete
<1>4. CASE Fault(r)
  BY <1>4 DEF Fault, Abort, Throw, RepeatedWrite, Land, Lose
<1>5. QED
  BY <1>1, <1>2, <1>3, <1>4

LEMMA MovesAlone ==
    ASSUME LockTypeOK, DOMAIN job = Run, DOMAIN late = Run,
           NEW r \in Run, Moves(r)
    PROVE  OthersRest(r)
<1>1. UNCHANGED <<source, deployed>>
  BY DEF Moves, BeginRun, RunStep, RunFault, ReadManifest, TakeLock, FetchBounds,
         FetchRows, AcceptRows, WriteShard, WriteManifest, ListStale, DeleteStale,
         Unlock, RequestThrows, RunDies, LockWriteRepeated, LateLockRequest,
         LateRequest, pubVars
<1>2. DOMAIN job' = Run /\ \A q \in Run \ {r} : job'[q] = job[q]
  BY DEF Moves, BeginRun, RunStep, RunFault, ReadManifest, TakeLock, FetchBounds,
         FetchRows, AcceptRows, WriteShard, WriteManifest, ListStale, DeleteStale,
         Unlock, RequestThrows, RunDies, LockWriteRepeated, LateLockRequest,
         LateRequest, pubVars, Return, Step
<1>3. DOMAIN late' = Run /\ \A q \in Run \ {r} : late'[q] = late[q]
  BY DEF Moves, BeginRun, RunStep, RunFault, ReadManifest, TakeLock, FetchBounds,
         FetchRows, AcceptRows, WriteShard, WriteManifest, ListStale, DeleteStale,
         Unlock, RequestThrows, RunDies, LockWriteRepeated, LateLockRequest,
         LateRequest, pubVars, LeaveRequest
<1>4. ASSUME NEW q \in Run \ {r} PROVE pc'[q] = pc[q]
  <2>1. \/ Start(r) \/ Acquire(r) \/ Finish(r) \/ Release(r) \/ Fault(r)
        \/ UNCHANGED lockVars
    BY DEF Moves, BeginRun, RunStep, RunFault, ReadManifest, TakeLock, FetchBounds,
           FetchRows, AcceptRows, WriteShard, WriteManifest, ListStale, DeleteStale,
           Unlock, RequestThrows, RunDies, LockWriteRepeated, LateLockRequest,
           LateRequest, Return, Fault
  <2>2. QED
    BY <2>1, PcMoves DEF lockVars
<1>5. QED
  BY <1>1, <1>2, <1>3, <1>4 DEF OthersRest

-----------------------------------------------------------------------------
(* Values.                                                                 *)

ValuesOf(r) ==
    /\ JobValues(job[r])
    /\ Placed(r)
    /\ late[r] # None => RequestValues(late[r])

StoreValues ==
    /\ IsArtifacts(bucket)
    /\ manifest # None => IsManifest(manifest)

LEMMA ValuesMove ==
    ASSUME ValuesInv, NEW r \in Run, OthersRest(r), StoreValues', ValuesOf(r)'
    PROVE  ValuesInv'
<1>1. ASSUME NEW q \in Run \ {r} PROVE ValuesOf(q)'
  BY DEF ValuesInv, ValuesOf, OthersRest, Placed, At
<1>2. QED
  BY <1>1 DEF ValuesInv, ValuesOf, StoreValues, OthersRest

LEMMA IdleValues ==
    ASSUME NEW r \in Run, job'[r] = NoJob, pc'[r] # "critical",
           late'[r] # None => RequestValues(late'[r])
    PROVE  ValuesOf(r)'
  BY DEF ValuesOf, JobValues, JobShape, NoJob, Placed, At, UnderLock

(* A run without a job holds no lock, and the converse.                    *)
LEMMA JoblessRun ==
    ASSUME ValuesInv, NEW r \in Run, pc[r] \notin Acquiring, pc[r] # "critical"
    PROVE  job[r] = NoJob
<1>1. job[r].stage \notin UnderLock /\ ~At(r, "manifestRead") /\ ~At(r, "lock")
  BY DEF ValuesInv, Placed, Acquiring
<1>2. QED
  BY <1>1 DEF ValuesInv, JobValues, JobShape, UnderLock, At

LEMMA StoreSame ==
    ASSUME ValuesInv, UNCHANGED storeVars
    PROVE  StoreValues'
  BY DEF ValuesInv, StoreValues, storeVars, IsArtifacts, IsManifest

LEMMA BeginRunValues ==
    ASSUME ValuesInv, LockTypeOK, NEW r \in Run, BeginRun(r)
    PROVE  StoreValues' /\ ValuesOf(r)'
<1>1. PICK w \in Windows :
          Step(r, [stage |-> "manifestRead", deployment |-> deployed, window |-> w])
  BY DEF BeginRun
<1>2. job'[r] = [stage |-> "manifestRead", deployment |-> deployed, window |-> w]
  BY <1>1, StepMoves DEF ValuesInv
<1>3. pc'[r] = "starting" /\ UNCHANGED storeVars /\ late' = late
  BY GoMoves DEF BeginRun, Start
<1>4. JobValues(job'[r])
  BY <1>2 DEF JobValues, JobShape, ValuesInv
<1>5. Placed(r)'
  BY <1>2, <1>3 DEF Placed, At, UnderLock
<1>6. QED
  BY <1>3, <1>4, <1>5, StoreSame DEF ValuesOf, ValuesInv

LEMMA ReadManifestValues ==
    ASSUME ValuesInv, LockTypeOK, NEW r \in Run, ReadManifest(r)
    PROVE  StoreValues' /\ ValuesOf(r)'
<1>1. job'[r] = [stage |-> "lock", deployment |-> job[r].deployment,
                 window |-> job[r].window, base |-> manifest]
  BY StepMoves DEF ReadManifest, ValuesInv
<1>2. pc'[r] = "starting" /\ UNCHANGED storeVars /\ late' = late
  BY DEF ReadManifest, lockVars
<1>3. job[r].deployment \in Deployment /\ job[r].window \in Windows
      /\ (manifest # None => IsManifest(manifest))
  BY DEF ReadManifest, ValuesInv, JobValues, At
<1>4. JobValues(job'[r])
  BY <1>1, <1>3 DEF JobValues, JobShape
<1>5. Placed(r)'
  BY <1>1, <1>2 DEF Placed, At, UnderLock, Acquiring
<1>6. QED
  BY <1>2, <1>4, <1>5, StoreSame DEF ValuesOf, ValuesInv

LEMMA TakeLockValues ==
    ASSUME ValuesInv, LockTypeOK, NEW r \in Run, TakeLock(r) \/ LockWriteRepeated(r)
    PROVE  StoreValues' /\ ValuesOf(r)'
<1>1. job'[r] = AfterAcquire(r) /\ UNCHANGED storeVars /\ late' = late
  BY StepMoves DEF TakeLock, LockWriteRepeated, ValuesInv
<1>2. pc'[r] \in Acquiring \cup {"critical", "refused"}
  BY AcquireMoves DEF TakeLock, LockWriteRepeated
<1>3. /\ job[r] = [stage |-> "lock", deployment |-> job[r].deployment,
                   window |-> job[r].window, base |-> job[r].base]
      /\ JobValues(job[r])
      /\ late[r] # None => RequestValues(late[r])
  BY DEF TakeLock, LockWriteRepeated, ValuesInv, JobValues, JobShape, NoJob, At
<1>4. CASE pc'[r] = "critical"
  <2>1. job'[r] = [stage |-> "bounds", deployment |-> job[r].deployment,
                   window |-> job[r].window, base |-> job[r].base]
    BY <1>1, <1>3, <1>4 DEF AfterAcquire
  <2>2. JobValues(job'[r])
    BY <1>3, <2>1 DEF JobValues, JobShape
  <2>3. Placed(r)'
    BY <1>4, <2>1 DEF Placed, At, UnderLock
  <2>4. QED
    BY <1>1, <1>3, <2>2, <2>3, StoreSame DEF ValuesOf
<1>5. CASE pc'[r] = "refused"
  BY <1>1, <1>3, <1>5, StoreSame, IdleValues DEF AfterAcquire
<1>6. CASE pc'[r] \in Acquiring
  <2>1. job'[r] = job[r]
    BY <1>1, <1>6 DEF AfterAcquire, Acquiring
  <2>2. Placed(r)'
    BY <1>3, <1>6, <2>1 DEF Placed, At, UnderLock, Acquiring
  <2>3. QED
    BY <1>1, <1>3, <2>1, <2>2, StoreSame DEF ValuesOf
<1>7. QED
  BY <1>2, <1>4, <1>5, <1>6

LEMMA ReturnValues ==
    ASSUME ValuesInv, LockTypeOK, NEW r \in Run, Return(r), late' = late
    PROVE  ValuesOf(r)'
<1>1. job'[r] = NoJob /\ pc'[r] = "releasing"
  BY StepMoves, GoMoves DEF Return, Finish, ValuesInv
<1>2. late[r] # None => RequestValues(late[r])
  BY DEF ValuesInv
<1>3. QED
  BY <1>1, <1>2, IdleValues

LEMMA FetchBoundsValues ==
    ASSUME ValuesInv, LockTypeOK, NEW r \in Run, FetchBounds(r)
    PROVE  StoreValues' /\ ValuesOf(r)'
<1> DEFINE b         == job[r].base
           published == HasPublished(b, job[r].deployment)
           latest    == LatestComplete(published)
           range     == IF published
                        THEN RefreshRange(job[r].window, latest, b.latest)
                        ELSE FirstRange(job[r].window, latest)
           j         == [stage |-> "rows", deployment |-> job[r].deployment,
                         base |-> b, bounds |-> latest, range |-> range,
                         rows |-> [k \in Kind |-> None]]
<1>1. UNCHANGED storeVars /\ late' = late /\ pc[r] = "critical"
  BY DEF FetchBounds
<1>2. CASE Return(r)
  BY <1>1, <1>2, ReturnValues, StoreSame
<1>3. CASE ValidRange(range) /\ Step(r, j) /\ UNCHANGED lockVars
  <2>1. job'[r] = j /\ pc'[r] = "critical"
    BY <1>1, <1>3, StepMoves DEF ValuesInv, lockVars
  <2>2. /\ job[r].deployment \in Deployment
        /\ job[r].window \in Windows
        /\ b # None => IsManifest(b)
    BY DEF FetchBounds, ValuesInv, JobValues, At
  <2>3. latest \in Day
    BY DEF ValuesInv, Progress, LatestComplete
  <2>4. published => b.latest \in Day
    BY <2>2 DEF HasPublished, IsManifest
  <2>5. range \in [start : Day, end : Day]
    BY <2>2, <2>3, <2>4, RangesAreDays
  <2>6. JobValues(job'[r])
    BY <2>1, <2>2, <2>3, <2>5, <1>3 DEF JobValues, JobShape
  <2>7. Placed(r)'
    BY <2>1 DEF Placed, At, UnderLock
  <2>8. QED
    BY <1>1, <2>6, <2>7, StoreSame DEF ValuesOf, ValuesInv
<1>4. QED
  BY <1>2, <1>3 DEF FetchBounds

LEMMA RangeInDay ==
    ASSUME NEW range \in [start : Day, end : Day]
    PROVE  /\ DaysFrom(range) \subseteq Day
           /\ MonthKeys(range.start, range.end) \subseteq Month
<1>1. range.start \in Day /\ range.end \in Day
  OBVIOUS
<1>2. MonthOf[range.start] \in Month /\ MonthOf[range.end] \in Month
  BY <1>1, DayFacts
<1>3. QED
  BY <1>1, <1>2, CalendarAssumption DEF DaysFrom, MonthKeys, Day, Month

LEMMA FetchRowsValues ==
    ASSUME ValuesInv, LockTypeOK, NEW r \in Run, NEW k \in Kind, FetchRows(r, k)
    PROVE  StoreValues' /\ ValuesOf(r)'
<1> DEFINE got  == [days |-> IndexedRows(job[r].range), version |-> source.version]
           rows == [job[r].rows EXCEPT ![k] = got]
<1>1. UNCHANGED storeVars /\ late' = late /\ pc'[r] = "critical"
      /\ job'[r] = [job[r] EXCEPT !.rows[k] = got]
  BY StepMoves DEF FetchRows, ValuesInv, lockVars
<1>2. /\ JobValues(job[r])
      /\ job[r] = [stage |-> "rows", deployment |-> job[r].deployment,
                   base |-> job[r].base, bounds |-> job[r].bounds,
                   range |-> job[r].range, rows |-> job[r].rows]
  BY DEF FetchRows, ValuesInv, JobValues, JobShape, NoJob, At
<1>3. job'[r] = [stage |-> "rows", deployment |-> job[r].deployment,
                 base |-> job[r].base, bounds |-> job[r].bounds,
                 range |-> job[r].range, rows |-> rows]
  BY <1>1, <1>2
<1>4. got \in Contents
  <2>1. IndexedRows(job[r].range) \subseteq Day
    BY <1>2, RangeInDay DEF JobValues, IndexedRows
  <2>2. QED
    BY <2>1 DEF Contents, ValuesInv
<1>5. rows \in [Kind -> Contents \cup {None}]
  <2>1. job[r].rows \in [Kind -> Contents \cup {None}]
    BY <1>2 DEF JobValues
  <2> HIDE DEF got
  <2>2. QED
    BY <1>4, <2>1
<1>6. JobValues(job'[r])
  <2> HIDE DEF rows
  <2>1. QED
    BY <1>2, <1>3, <1>5 DEF JobValues, JobShape
<1>7. Placed(r)'
  BY <1>1, <1>3 DEF Placed, At, UnderLock
<1>8. QED
  BY <1>1, <1>6, <1>7, StoreSame DEF ValuesOf, ValuesInv

LEMMA AcceptRowsValues ==
    ASSUME ValuesInv, LockTypeOK, NEW r \in Run, AcceptRows(r)
    PROVE  StoreValues' /\ ValuesOf(r)'
<1> DEFINE j == [stage |-> "shards", deployment |-> job[r].deployment,
                 base |-> job[r].base, bounds |-> job[r].bounds,
                 range |-> job[r].range, rows |-> job[r].rows,
                 next |-> FirstPlace(job[r].range)]
<1>1. UNCHANGED storeVars /\ late' = late /\ pc[r] = "critical"
  BY DEF AcceptRows
<1>2. CASE Return(r)
  BY <1>1, <1>2, ReturnValues, StoreSame
<1>3. CASE Step(r, j) /\ UNCHANGED lockVars
  <2>1. job'[r] = j /\ pc'[r] = "critical"
    BY <1>1, <1>3, StepMoves DEF ValuesInv, lockVars
  <2>2. JobValues(job[r]) /\ At(r, "rows") /\ \A k \in Kind : job[r].rows[k] # None
    BY DEF AcceptRows, ValuesInv
  <2>3. job[r].rows \in [Kind -> Contents]
    BY <2>2 DEF JobValues, At
  <2>4. FirstPlace(job[r].range) \in
            [month : MonthKeys(job[r].range.start, job[r].range.end), kind : 1 .. Len(Kinds)]
    <3>1. /\ MonthOf[job[r].range.start] \in Nat /\ MonthOf[job[r].range.end] \in Nat
          /\ MonthOf[job[r].range.start] <= MonthOf[job[r].range.end]
      BY <2>2, RangeMonths DEF JobValues, At
    <3>2. QED
      BY <3>1, PlacesNat DEF FirstPlace, MonthKeys
  <2>5. JobValues(job'[r])
    BY <2>1, <2>2, <2>3, <2>4 DEF JobValues, JobShape, At
  <2>6. Placed(r)'
    BY <2>1 DEF Placed, At, UnderLock
  <2>7. QED
    BY <1>1, <2>5, <2>6, StoreSame DEF ValuesOf, ValuesInv
<1>4. QED
  BY <1>2, <1>3 DEF AcceptRows

(* The requests of a run carry well-formed keys, shards and manifests.     *)
LEMMA ShardValues ==
    ASSUME ValuesInv, NEW r \in Run, job[r].stage \in {"shards", "manifest"}
    PROVE  /\ ShardKeys(job[r]) \subseteq Keys
           /\ \A k \in Keys : Shard(job[r], k) \in Contents
<1>1. /\ job[r].rows \in [Kind -> Contents]
      /\ job[r].deployment \in Deployment
      /\ job[r].range \in [start : Day, end : Day]
  BY DEF ValuesInv, JobValues
<1>2. ASSUME NEW kind \in Kind, NEW month \in MonthKeys(job[r].range.start, job[r].range.end)
      PROVE  Key(job[r].deployment, kind, month) \in Keys
  BY <1>1, RangeInDay DEF Key, Keys, Prefix
<1>3. ASSUME NEW k \in Keys PROVE Shard(job[r], k) \in Contents
  <2>1. job[r].rows[k[2]] \in Contents
    BY <1>1 DEF Keys
  <2>2. QED
    BY <2>1 DEF Shard, Contents
<1>4. QED
  BY <1>2, <1>3 DEF ShardKeys

LEMMA PutShardValues ==
    ASSUME ValuesInv, NEW r \in Run, At(r, "shards")
    PROVE  RequestValues(PutShard(job[r]))
<1> DEFINE k == ShardKey(job[r], job[r].next)
<1>1. /\ job[r].next \in [month : MonthKeys(job[r].range.start, job[r].range.end),
                          kind : 1 .. Len(Kinds)]
      /\ job[r].stage \in {"shards", "manifest"}
  BY DEF ValuesInv, JobValues, At
<1>2. Kinds[job[r].next.kind] \in Kind
  BY <1>1, PublisherAssumption
<1>3. k \in ShardKeys(job[r])
  <2> DEFINE kind  == Kinds[job[r].next.kind]
             month == job[r].next.month
  <2>1. k = Key(job[r].deployment, kind, month)
    BY DEF ShardKey
  <2>2. kind \in Kind /\ month \in MonthKeys(job[r].range.start, job[r].range.end)
    BY <1>1, <1>2
  <2> HIDE DEF k, kind, month
  <2>3. QED
    BY <2>1, <2>2 DEF ShardKeys
<1>4. k \in Keys /\ Shard(job[r], k) \in Contents
  BY <1>1, <1>3, ShardValues
<1>7. k[1] \in Deployment
  <2>1. job[r].deployment \in Deployment
    BY <1>1 DEF ValuesInv, JobValues
  <2>2. QED
    BY <2>1 DEF ShardKey, Key
<1> HIDE DEF k
<1>5. PutShard(job[r]) = [op |-> "shard", key |-> k, shard |-> Shard(job[r], k)]
  BY DEF PutShard, k
<1>6. QED
  BY <1>4, <1>5, <1>7 DEF RequestValues

(* The domain and the entries of the manifest a run publishes.             *)
NextOf(j) == NextManifest(j.base, j.deployment, j.range, j.bounds, Shards(j))

NextEarliest(j) == PublishedEarliest(EarliestBefore(j.base, j.range), j.range)
NextLatest(j) == PublishedLatest(LatestBefore(j.base, j.range), j.range, j.bounds)

LEMMA NextParts ==
    ASSUME NEW j
    PROVE  /\ NextOf(j).deployment = j.deployment
           /\ NextOf(j).earliest = NextEarliest(j)
           /\ NextOf(j).latest = NextLatest(j)
           /\ DOMAIN NextOf(j).artifacts =
                 {k \in ShardKeys(j) \cup DOMAIN ArtifactsBefore(j.base) :
                     /\ k[1] \in {j.deployment, Stable}
                     /\ k[3] \in MonthKeys(NextEarliest(j), NextLatest(j))}
           /\ \A k \in DOMAIN NextOf(j).artifacts :
                 NextOf(j).artifacts[k] =
                     IF k \in ShardKeys(j) THEN Shard(j, k)
                     ELSE ArtifactsBefore(j.base)[k]
<1> DEFINE known == ArtifactsBefore(j.base)
           all   == [k \in DOMAIN Shards(j) \cup DOMAIN known |->
                        IF k \in DOMAIN Shards(j) THEN Shards(j)[k] ELSE known[k]]
           kept  == {k \in DOMAIN all : /\ k[1] \in {j.deployment, Stable}
                                        /\ k[3] \in MonthKeys(NextEarliest(j), NextLatest(j))}
<1>1. NextOf(j) = [deployment |-> j.deployment, earliest |-> NextEarliest(j),
                   latest |-> NextLatest(j), artifacts |-> Restrict(all, kept)]
  BY DEF NextOf, NextManifest, NextEarliest, NextLatest, Pruned
<1>2. DOMAIN Shards(j) = ShardKeys(j) /\ \A k \in ShardKeys(j) : Shards(j)[k] = Shard(j, k)
  BY DEF Shards
<1>3. DOMAIN all = ShardKeys(j) \cup DOMAIN known
  BY <1>2
<1>4. \A k \in DOMAIN all : all[k] = IF k \in ShardKeys(j) THEN Shard(j, k) ELSE known[k]
  BY <1>2
<1> HIDE DEF all, known
<1>5. Restrict(all, kept) = [k \in kept |-> all[k]]
  BY DEF Restrict
<1>6. DOMAIN Restrict(all, kept) = kept
  BY <1>5
<1>7. \A k \in kept : Restrict(all, kept)[k] = all[k]
  BY <1>5
<1>8. NextOf(j).artifacts = Restrict(all, kept)
  BY <1>1
<1>9. /\ NextOf(j).deployment = j.deployment
      /\ NextOf(j).earliest = NextEarliest(j)
      /\ NextOf(j).latest = NextLatest(j)
  BY <1>1
<1>10. DOMAIN NextOf(j).artifacts =
          {k \in ShardKeys(j) \cup DOMAIN ArtifactsBefore(j.base) :
              /\ k[1] \in {j.deployment, Stable}
              /\ k[3] \in MonthKeys(NextEarliest(j), NextLatest(j))}
  BY <1>3, <1>6, <1>8 DEF known
<1>11. ASSUME NEW k \in DOMAIN NextOf(j).artifacts
       PROVE  NextOf(j).artifacts[k] =
                  IF k \in ShardKeys(j) THEN Shard(j, k)
                  ELSE ArtifactsBefore(j.base)[k]
  <2>1. k \in kept /\ k \in DOMAIN all
    BY <1>6, <1>8
  <2> HIDE DEF kept
  <2>2. QED
    BY <2>1, <1>4, <1>7, <1>8 DEF known
<1>12. QED
  BY <1>9, <1>10, <1>11

LEMMA PutManifestValues ==
    ASSUME ValuesInv, NEW r \in Run, At(r, "manifest")
    PROVE  /\ RequestValues(PutManifest(job[r]))
           /\ IsManifest(NextOf(job[r]))
<1> DEFINE j == job[r]
<1>1. /\ j.stage = "manifest"
      /\ j.deployment \in Deployment
      /\ j.base # None => IsManifest(j.base)
      /\ j.bounds \in Day
      /\ j.range \in [start : Day, end : Day]
  BY DEF ValuesInv, JobValues, At
<1>2. NextEarliest(j) \in Day /\ NextLatest(j) \in Day
  <2>1. EarliestBefore(j.base, j.range) \in Day /\ LatestBefore(j.base, j.range) \in Day
    BY <1>1 DEF EarliestBefore, LatestBefore, IsManifest
  <2>2. QED
    BY <2>1, <1>1, DayFacts
    DEF NextEarliest, NextLatest, PublishedEarliest, PublishedLatest
<1>3. IsArtifacts(ArtifactsBefore(j.base))
  BY <1>1 DEF ArtifactsBefore, IsManifest, IsArtifacts
<1>4. ShardKeys(j) \subseteq Keys /\ \A k \in Keys : Shard(j, k) \in Contents
  BY <1>1, ShardValues
<1>5. IsArtifacts(NextOf(j).artifacts)
  <2>1. ASSUME NEW k \in DOMAIN NextOf(j).artifacts
        PROVE  k \in Keys /\ NextOf(j).artifacts[k] \in Contents
    <3>1. k \in ShardKeys(j) \cup DOMAIN ArtifactsBefore(j.base)
      BY NextParts
    <3>2. NextOf(j).artifacts[k] = IF k \in ShardKeys(j) THEN Shard(j, k)
                                   ELSE ArtifactsBefore(j.base)[k]
      BY NextParts
    <3> HIDE DEF j
    <3>3. QED
      BY <3>1, <3>2, <1>3, <1>4 DEF IsArtifacts
  <2>2. QED
    BY <2>1 DEF IsArtifacts
<1>6. IsManifest(NextOf(j))
  BY <1>1, <1>2, <1>5, NextParts DEF IsManifest, Prefix
<1>7. PutManifest(j) = [op |-> "manifest", manifest |-> NextOf(j)]
  BY DEF PutManifest, NextOf
<1>8. QED
  BY <1>6, <1>7 DEF RequestValues

LEMMA PerformValues ==
    ASSUME ValuesInv, NEW request, RequestValues(request), Perform(request)
    PROVE  StoreValues'
<1>1. IsArtifacts(bucket) /\ (manifest # None => IsManifest(manifest))
  BY DEF ValuesInv
<1>2. CASE /\ request.op = "shard"
           /\ bucket' = [k \in DOMAIN bucket \cup {request.key} |->
                            IF k = request.key THEN request.shard ELSE bucket[k]]
           /\ UNCHANGED manifest
  <2>1. request.key \in Keys /\ request.shard \in Contents
    BY <1>2 DEF RequestValues
  <2>2. IsArtifacts(bucket')
    BY <1>1, <1>2, <2>1 DEF IsArtifacts
  <2>3. QED
    BY <1>1, <1>2, <2>2 DEF StoreValues
<1>3. CASE /\ request.op = "manifest"
           /\ manifest' = request.manifest
           /\ UNCHANGED bucket
  BY <1>1, <1>3 DEF RequestValues, StoreValues
<1>4. CASE /\ request.op = "delete"
           /\ bucket' = Restrict(bucket, DOMAIN bucket \ {request.key})
           /\ UNCHANGED manifest
  <2>1. IsArtifacts(bucket')
    BY <1>1, <1>4 DEF IsArtifacts, Restrict
  <2>2. QED
    BY <1>1, <1>4, <2>1 DEF StoreValues
<1>5. QED
  BY <1>2, <1>3, <1>4 DEF Perform

LEMMA WriteShardValues ==
    ASSUME ValuesInv, LockTypeOK, NEW r \in Run, WriteShard(r)
    PROVE  StoreValues' /\ ValuesOf(r)'
<1> DEFINE next == job[r].next
<1>1. /\ late' = late /\ pc'[r] = "critical" /\ At(r, "shards")
      /\ Perform(PutShard(job[r]))
      /\ job'[r] = IF next # LastPlace(job[r].range)
                   THEN [job[r] EXCEPT !.next = PlaceAfter(next)]
                   ELSE [job[r] EXCEPT !.stage = "manifest"]
  BY StepMoves DEF WriteShard, ValuesInv, lockVars
<1>2. StoreValues'
  BY <1>1, PutShardValues, PerformValues
<1>3. /\ JobValues(job[r])
      /\ job[r] = [stage |-> "shards", deployment |-> job[r].deployment,
                   base |-> job[r].base, bounds |-> job[r].bounds,
                   range |-> job[r].range, rows |-> job[r].rows, next |-> next]
  BY <1>1 DEF ValuesInv, JobValues, JobShape, NoJob, At
<1>4. next \in [month : MonthKeys(job[r].range.start, job[r].range.end),
                kind : 1 .. Len(Kinds)]
  BY <1>1, <1>3 DEF JobValues, At
<1>5. /\ MonthOf[job[r].range.start] \in Nat /\ MonthOf[job[r].range.end] \in Nat
      /\ MonthOf[job[r].range.start] <= MonthOf[job[r].range.end]
  BY <1>3, RangeMonths DEF JobValues
<1>6. CASE next # LastPlace(job[r].range)
  <2>1. job'[r] = [stage |-> "shards", deployment |-> job[r].deployment,
                   base |-> job[r].base, bounds |-> job[r].bounds,
                   range |-> job[r].range, rows |-> job[r].rows,
                   next |-> PlaceAfter(next)]
    BY <1>1, <1>3, <1>6
  <2>2. PlaceAfter(next) \in
            [month : MonthKeys(job[r].range.start, job[r].range.end), kind : 1 .. Len(Kinds)]
    <3>1. CASE next.kind < Len(Kinds)
      <4>1. PlaceAfter(next) = [month |-> next.month, kind |-> next.kind + 1]
        BY <1>4, <3>1 DEF PlaceAfter
      <4>2. QED
        BY <4>1, <1>4, <3>1, PlacesNat
    <3>2. CASE ~(next.kind < Len(Kinds))
      <4>1. PlaceAfter(next) = [month |-> next.month + 1, kind |-> 1]
        BY <1>4, <3>2 DEF PlaceAfter
      <4>2. next.kind = Len(Kinds)
        BY <1>4, <3>2, PlacesNat
      <4>3. next.month # MonthOf[job[r].range.end]
        BY <1>4, <1>6, <4>2 DEF LastPlace
      <4>4. next.month + 1 \in MonthKeys(job[r].range.start, job[r].range.end)
        BY <4>3, <1>4, <1>5 DEF MonthKeys
      <4>5. QED
        BY <4>1, <4>4, PlacesNat
    <3>3. QED
      BY <3>1, <3>2
  <2> HIDE DEF next
  <2>3. JobValues(job'[r])
    BY <2>1, <2>2, <1>3 DEF JobValues, JobShape
  <2>4. Placed(r)'
    BY <2>1, <1>1 DEF Placed, At, UnderLock
  <2>5. QED
    BY <1>1, <1>2, <2>3, <2>4 DEF ValuesOf, ValuesInv
<1>7. CASE next = LastPlace(job[r].range)
  <2>1. job'[r] = [stage |-> "manifest", deployment |-> job[r].deployment,
                   base |-> job[r].base, bounds |-> job[r].bounds,
                   range |-> job[r].range, rows |-> job[r].rows, next |-> next]
    BY <1>1, <1>3, <1>7
  <2> HIDE DEF next
  <2>2. JobValues(job'[r])
    BY <2>1, <1>3 DEF JobValues, JobShape
  <2>3. Placed(r)'
    BY <2>1, <1>1 DEF Placed, At, UnderLock
  <2>4. QED
    BY <1>1, <1>2, <2>2, <2>3 DEF ValuesOf, ValuesInv
<1>8. QED
  BY <1>6, <1>7

LEMMA WriteManifestValues ==
    ASSUME ValuesInv, LockTypeOK, NEW r \in Run, WriteManifest(r)
    PROVE  StoreValues' /\ ValuesOf(r)'
<1>1. /\ late' = late /\ pc'[r] = "critical" /\ At(r, "manifest")
      /\ Perform(PutManifest(job[r]))
      /\ job'[r] = [stage |-> "list", deployment |-> job[r].deployment]
  BY StepMoves DEF WriteManifest, ValuesInv, lockVars
<1>2. StoreValues'
  BY <1>1, PutManifestValues, PerformValues
<1>3. JobValues(job'[r])
  <2>1. job[r].deployment \in Deployment
    BY <1>1 DEF ValuesInv, JobValues, At
  <2>2. QED
    BY <1>1, <2>1 DEF JobValues, JobShape
<1>4. Placed(r)'
  BY <1>1 DEF Placed, At, UnderLock
<1>5. QED
  BY <1>1, <1>2, <1>3, <1>4 DEF ValuesOf, ValuesInv

LEMMA ListStaleValues ==
    ASSUME ValuesInv, LockTypeOK, NEW r \in Run, ListStale(r)
    PROVE  StoreValues' /\ ValuesOf(r)'
<1> DEFINE stale == StaleKeys(job[r].deployment)
<1>1. UNCHANGED storeVars /\ late' = late /\ pc[r] = "critical" /\ At(r, "list")
  BY DEF ListStale
<1>2. CASE Return(r)
  BY <1>1, <1>2, ReturnValues, StoreSame
<1>3. CASE /\ Step(r, [stage |-> "clean", deployment |-> job[r].deployment, stale |-> stale])
           /\ UNCHANGED lockVars
  <2>1. /\ job'[r] = [stage |-> "clean", deployment |-> job[r].deployment, stale |-> stale]
        /\ pc'[r] = "critical"
    BY <1>1, <1>3, StepMoves DEF ValuesInv, lockVars
  <2> HIDE DEF stale
  <2>2. job[r].deployment \in Deployment
    BY <1>1 DEF ValuesInv, JobValues, At
  <2>3. JobValues(job'[r])
    BY <2>1, <2>2 DEF JobValues, JobShape
  <2>4. Placed(r)'
    BY <2>1 DEF Placed, At, UnderLock
  <2>5. QED
    BY <1>1, <2>3, <2>4, StoreSame DEF ValuesOf, ValuesInv
<1>4. QED
  BY <1>2, <1>3 DEF ListStale

LEMMA DeleteStaleValues ==
    ASSUME ValuesInv, LockTypeOK, NEW r \in Run, DeleteStale(r)
    PROVE  StoreValues' /\ ValuesOf(r)'
<1>1. late' = late /\ pc[r] = "critical" /\ At(r, "clean")
  BY DEF DeleteStale
<1>2. PICK k \in job[r].stale :
          /\ Perform(DeleteShard(k))
          /\ \/ Return(r)
             \/ /\ Step(r, [job[r] EXCEPT !.stale = @ \ {k}])
                /\ UNCHANGED lockVars
  BY DEF DeleteStale
<1>3. StoreValues'
  <2>1. RequestValues(DeleteShard(k))
    BY DEF RequestValues, DeleteShard
  <2>2. QED
    BY <2>1, <1>2, PerformValues
<1>4. CASE Return(r)
  BY <1>1, <1>3, <1>4, ReturnValues
<1>5. CASE Step(r, [job[r] EXCEPT !.stale = @ \ {k}]) /\ UNCHANGED lockVars
  <2>1. job'[r] = [job[r] EXCEPT !.stale = @ \ {k}] /\ pc'[r] = "critical"
    BY <1>1, <1>5, StepMoves DEF ValuesInv, lockVars
  <2>2. /\ job[r] = [stage |-> "clean", deployment |-> job[r].deployment,
                     stale |-> job[r].stale]
        /\ job[r].deployment \in Deployment
    BY <1>1 DEF ValuesInv, JobValues, JobShape, NoJob, At
  <2>3. job'[r] = [stage |-> "clean", deployment |-> job[r].deployment,
                   stale |-> job[r].stale \ {k}]
    BY <2>1, <2>2
  <2>4. JobValues(job'[r])
    BY <2>2, <2>3 DEF JobValues, JobShape
  <2>5. Placed(r)'
    BY <2>1, <2>3 DEF Placed, At, UnderLock
  <2>6. QED
    BY <1>1, <1>3, <2>4, <2>5 DEF ValuesOf, ValuesInv
<1>6. QED
  BY <1>2, <1>4, <1>5

LEMMA ReleaseValues ==
    ASSUME ValuesInv, LockTypeOK, NEW r \in Run, Unlock(r) \/ LateLockRequest(r)
    PROVE  StoreValues' /\ ValuesOf(r)'
<1>1. UNCHANGED storeVars /\ late' = late /\ job' = job
  BY DEF Unlock, LateLockRequest, pubVars, storeVars
<1>2. /\ pc[r] \in {"releasing", "deleting"} \cup Late
      /\ pc'[r] \in {"deleting", "done", "failed"}
  BY GoMoves DEF Unlock, LateLockRequest, Release, ReleaseRead, ReleaseDelete, Land,
                 Lose, Late
<1>3. job[r] = NoJob
  BY <1>2, JoblessRun DEF Acquiring, Late
<1>4. late[r] # None => RequestValues(late[r])
  BY DEF ValuesInv
<1>5. QED
  BY <1>1, <1>2, <1>3, <1>4, IdleValues, StoreSame

LEMMA FailureValues ==
    ASSUME ValuesInv, LockTypeOK, NEW r \in Run, RequestThrows(r) \/ RunDies(r)
    PROVE  StoreValues' /\ ValuesOf(r)'
<1>1. job'[r] = NoJob /\ UNCHANGED storeVars
  BY StepMoves DEF RequestThrows, RunDies, ValuesInv
<1>2. pc'[r] # "critical"
  BY GoMoves DEF RequestThrows, RunDies, Throw, Abort, Late
<1>3. late'[r] # None => RequestValues(late'[r])
  <2>1. DOMAIN late = Run /\ (late[r] # None => RequestValues(late[r]))
    BY DEF ValuesInv
  <2>2. CASE UNCHANGED late
    BY <2>1, <2>2
  <2>3. CASE At(r, "shards") /\ late' = [late EXCEPT ![r] = PutShard(job[r])]
    BY <2>1, <2>3, PutShardValues
  <2>4. CASE At(r, "manifest") /\ late' = [late EXCEPT ![r] = PutManifest(job[r])]
    BY <2>1, <2>4, PutManifestValues
  <2>5. CASE \E k \in job[r].stale : late' = [late EXCEPT ![r] = DeleteShard(k)]
    BY <2>1, <2>5 DEF DeleteShard, RequestValues
  <2>6. QED
    BY <2>2, <2>3, <2>4, <2>5 DEF RequestThrows, RunDies, LeaveRequest
<1>4. QED
  BY <1>1, <1>2, <1>3, IdleValues, StoreSame

LEMMA LateRequestValues ==
    ASSUME ValuesInv, LockTypeOK, NEW r \in Run, LateRequest(r)
    PROVE  StoreValues' /\ ValuesOf(r)'
<1>1. /\ UNCHANGED <<pc, job>>
      /\ late' = [late EXCEPT ![r] = None]
      /\ late[r] # None
      /\ Perform(late[r]) \/ UNCHANGED storeVars
  BY DEF LateRequest, lockVars
<1>2. late'[r] = None /\ RequestValues(late[r])
  BY <1>1 DEF ValuesInv
<1>3. StoreValues'
  BY <1>1, <1>2, PerformValues, StoreSame
<1>4. QED
  BY <1>1, <1>2, <1>3 DEF ValuesOf, ValuesInv, Placed, At

-----------------------------------------------------------------------------
(* The source, the deployment and the clock.                               *)
LEMMA SurroundingsValues ==
    ASSUME ValuesInv,
           \/ Time \/ Index \/ Restart \/ UNCHANGED vars
           \/ \E d \in Deployment : Redeploy(d)
    PROVE  ValuesInv'
<1>1. UNCHANGED <<pc, storeVars, job, late>>
  BY DEF Time, Tick, Index, Restart, Redeploy, lockVars, pubVars, storeVars, vars
<1>2. /\ source'.version \in 0 .. MaxVersion
      /\ source'.progress \in Progress /\ IsProgress(source'.progress)
      /\ deployed' \in Deployment
  <2>1. CASE Time \/ UNCHANGED vars
    BY <2>1 DEF Time, pubVars, vars, ValuesInv
  <2>2. CASE Index
    BY <2>2, PublisherAssumption DEF Index, ValuesInv
  <2>3. CASE Restart \/ \E d \in Deployment : Redeploy(d)
    <3>1. /\ source' = [progress |-> NothingIndexed, version |-> source.version + 1]
          /\ source.version < MaxVersion
          /\ deployed' \in Deployment
      BY <2>3 DEF Restart, Redeploy, Reset, ValuesInv
    <3>2. NothingIndexed \in Progress /\ IsProgress(NothingIndexed)
      BY CalendarAssumption DEF NothingIndexed, Progress, IsProgress, Day
    <3>3. QED
      BY <3>1, <3>2, PublisherAssumption DEF ValuesInv
  <2>4. QED
    BY <2>1, <2>2, <2>3
<1>3. StoreValues'
  BY <1>1, StoreSame
<1>4. ASSUME NEW q \in Run PROVE ValuesOf(q)'
  BY <1>1 DEF ValuesInv, ValuesOf, Placed, At
<1>5. QED
  BY <1>1, <1>2, <1>3, <1>4 DEF ValuesInv, ValuesOf, StoreValues

LEMMA ValuesInvStep ==
    ASSUME ValuesInv, LockTypeOK, [Next]_vars
    PROVE  ValuesInv'
<1>1. ASSUME NEW r \in Run, Moves(r) PROVE ValuesInv'
  <2>1. StoreValues' /\ ValuesOf(r)'
    <3>1. CASE BeginRun(r)
      BY <3>1, BeginRunValues
    <3>2. CASE RunStep(r)
      BY <3>2, ReadManifestValues, TakeLockValues, FetchBoundsValues, FetchRowsValues,
         AcceptRowsValues, WriteShardValues, WriteManifestValues, ListStaleValues,
         DeleteStaleValues, ReleaseValues
      DEF RunStep
    <3>3. CASE RunFault(r)
      BY <3>3, FailureValues, TakeLockValues, ReleaseValues, LateRequestValues
      DEF RunFault
    <3>4. QED
      BY <1>1, <3>1, <3>2, <3>3 DEF Moves
  <2>2. OthersRest(r)
    BY <1>1, MovesAlone DEF ValuesInv
  <2>3. QED
    BY <2>1, <2>2, ValuesMove
<1>2. QED
  BY <1>1, SurroundingsValues DEF Next, Moves

LEMMA ValuesInvInit == Init => ValuesInv
<1> SUFFICES ASSUME Init PROVE ValuesInv
  OBVIOUS
<1>1. PICK p \in InitialProgress :
          /\ IsProgress(p)
          /\ source = [progress |-> p, version |-> 0]
          /\ \/ bucket = [k \in {} |-> None] /\ manifest = None
             \/ \E d \in {deployed, Stable} : PublishedUpTo(d, p.cross)
  BY DEF Init
<1>2. p \in Progress /\ 0 \in 0 .. MaxVersion /\ p.cross \in Day
  BY PublisherAssumption DEF Progress
<1>3. deployed \in Deployment
  BY DEF Init
<1>4. StoreValues
  <2>1. CASE bucket = [k \in {} |-> None] /\ manifest = None
    BY <2>1 DEF StoreValues, IsArtifacts
  <2>2. ASSUME NEW d \in {deployed, Stable}, PublishedUpTo(d, p.cross)
        PROVE  StoreValues
    <3> DEFINE f == CompleteShards(d, p.cross)
    <3>0. d \in Prefix
      BY <1>3 DEF Prefix
    <3>1. MonthKeys(PublicStart, p.cross) \subseteq Month
      <4>1. [start |-> PublicStart, end |-> p.cross] \in [start : Day, end : Day]
        BY <1>2, DayFacts
      <4>2. QED
        BY <4>1, RangeInDay
    <3>2. DOMAIN f \subseteq Keys
      BY <3>0, <3>1 DEF CompleteShards, Key, Keys
    <3>3. ASSUME NEW k \in DOMAIN f PROVE f[k] \in Contents
      BY <1>2 DEF CompleteShards, Contents, DaysOf
    <3>4. IsArtifacts(f)
      BY <3>2, <3>3 DEF IsArtifacts
    <3> HIDE DEF f
    <3>5. bucket = f /\ manifest = [deployment |-> d, earliest |-> PublicStart,
                                    latest |-> p.cross, artifacts |-> f]
      BY <2>2 DEF PublishedUpTo, f
    <3>6. QED
      BY <1>2, <3>0, <3>4, <3>5, DayFacts DEF StoreValues, IsManifest
  <2>3. QED
    BY <1>1, <2>1, <2>2
<1>5. ASSUME NEW r \in Run PROVE ValuesOf(r)
  BY DEF Init, LockInit, ValuesOf, JobValues, JobShape, NoJob, Placed, At, UnderLock
<1>6. DOMAIN job = Run /\ DOMAIN late = Run
  BY DEF Init
<1>7. QED
  BY <1>1, <1>2, <1>3, <1>4, <1>5, <1>6 DEF ValuesInv, ValuesOf, StoreValues

(* Runs, requests, shards and manifests keep their shapes and their values *)
(* through every step of publishMetricsArtifacts, every failure of one of  *)
(* its requests and every change of the source.                            *)
THEOREM ValuesInvariant == Spec => [](ValuesInv /\ LockTypeOK)
<1>1. Spec => []LockTypeOK
  BY PublisherFollowsLock, LockTypeCorrect, PTL
<1>2. ValuesInv /\ LockTypeOK /\ [Next]_vars => ValuesInv'
  BY ValuesInvStep
<1>3. QED
  BY <1>1, <1>2, ValuesInvInit, PTL DEF Spec

(* The store holds shards of calendar days under well-formed keys, the     *)
(* manifest announces calendar days, and a run of publishMetricsArtifacts  *)
(* is past acquirePublisherLock exactly while it holds the lock.           *)
THEOREM PublisherTypeCorrect == Spec => []PublisherTypeOK
<1>1. ValuesInv /\ LockTypeOK => PublisherTypeOK
  <2> SUFFICES ASSUME ValuesInv, LockTypeOK PROVE PublisherTypeOK
    OBVIOUS
  <2>1. ASSUME NEW r \in Run
        PROVE  /\ job[r].stage \in Stages
               /\ pc[r] = "critical" <=>
                     job[r].stage \notin {"idle", "manifestRead", "lock"}
               /\ job[r].stage \in {"manifestRead", "lock"} => pc[r] \in Acquiring
    BY DEF ValuesInv, JobValues, JobShape, NoJob, Placed, At, UnderLock, Stages, Acquiring
  <2>2. QED
    BY <2>1 DEF ValuesInv, PublisherTypeOK, IsManifest
<1>2. QED
  BY <1>1, ValuesInvariant, PTL

-----------------------------------------------------------------------------
(* The course of a run, as far as dates and rows are concerned.            *)

SameBase(j, k) == k.deployment = j.deployment /\ k.base = j.base

SameWork(j, k) == SameBase(j, k) /\ k.bounds = j.bounds /\ k.range = j.range

(* The range and the bounds FetchBounds settles on.                        *)
Bounded(r) ==
    LET j         == job[r]
        published == HasPublished(j.base, j.deployment)
        latest    == LatestComplete(published)
    IN  /\ job'[r].bounds = latest
        /\ job'[r].range = IF published
                           THEN RefreshRange(j.window, latest, j.base.latest)
                           ELSE FirstRange(j.window, latest)
        /\ published \/ FreshForHandover(latest, Today(r))
        /\ job'[r].rows = [k \in Kind |-> None]

Fetched(r) ==
    \E k \in Kind :
        job'[r].rows = [job[r].rows EXCEPT ![k] =
            [days |-> IndexedRows(job[r].range), version |-> source.version]]

Accepted(r) ==
    /\ \A k \in Kind : job[r].rows[k] # None
    /\ HasPublished(job[r].base, job[r].deployment) => MissingDays(job[r]) = {}
    /\ job'[r].rows = job[r].rows

Course(r) ==
    \/ job'[r].stage \in {"idle", "manifestRead", "list", "clean"}
    \/ job'[r] = job[r]
    \/ /\ job[r].stage = "manifestRead" /\ job'[r].stage = "lock"
       /\ job'[r].deployment = job[r].deployment /\ job'[r].base = manifest
    \/ /\ job[r].stage = "lock" /\ job'[r].stage = "bounds"
       /\ SameBase(job[r], job'[r])
    \/ /\ job[r].stage = "bounds" /\ job'[r].stage = "rows"
       /\ SameBase(job[r], job'[r]) /\ Bounded(r)
    \/ /\ job[r].stage = "rows" /\ job'[r].stage = "rows"
       /\ SameWork(job[r], job'[r]) /\ Fetched(r)
    \/ /\ job[r].stage = "rows" /\ job'[r].stage = "shards"
       /\ SameWork(job[r], job'[r]) /\ Accepted(r)
    \/ /\ job[r].stage = "shards" /\ job'[r].stage \in {"shards", "manifest"}
       /\ SameWork(job[r], job'[r]) /\ job'[r].rows = job[r].rows

LEMMA JobCourse ==
    ASSUME ValuesInv, LockTypeOK, NEW r \in Run, Moves(r)
    PROVE  Course(r)
<1>1. ASSUME NEW j, Step(r, j) PROVE job'[r] = j
  BY <1>1, StepMoves DEF ValuesInv
<1>2. CASE BeginRun(r)
  BY <1>1, <1>2 DEF BeginRun, Course
<1>3. CASE ReadManifest(r)
  BY <1>1, <1>3 DEF ReadManifest, Course, At
<1>4. CASE TakeLock(r) \/ LockWriteRepeated(r)
  <2>1. job'[r] = AfterAcquire(r) /\ At(r, "lock")
    BY <1>1, <1>4 DEF TakeLock, LockWriteRepeated
  <2>2. job[r] = [stage |-> "lock", deployment |-> job[r].deployment,
                  window |-> job[r].window, base |-> job[r].base]
    BY <2>1 DEF ValuesInv, JobValues, JobShape, NoJob, At
  <2>3. CASE pc'[r] = "critical"
    <3>1. job'[r] = [stage |-> "bounds", deployment |-> job[r].deployment,
                     window |-> job[r].window, base |-> job[r].base]
      BY <2>1, <2>2, <2>3 DEF AfterAcquire
    <3>2. QED
      BY <2>1, <3>1 DEF Course, SameBase, At
  <2>4. CASE pc'[r] # "critical"
    BY <2>1, <2>4 DEF AfterAcquire, Course, NoJob
  <2>5. QED
    BY <2>3, <2>4
<1>5. CASE Return(r)
  BY <1>1, <1>5 DEF Return, NoJob, Course
<1>6. CASE FetchBounds(r) /\ ~Return(r)
  <2> DEFINE b         == job[r].base
             published == HasPublished(b, job[r].deployment)
             latest    == LatestComplete(published)
             range     == IF published
                          THEN RefreshRange(job[r].window, latest, b.latest)
                          ELSE FirstRange(job[r].window, latest)
  <2>1. /\ job'[r] = [stage |-> "rows", deployment |-> job[r].deployment,
                      base |-> b, bounds |-> latest, range |-> range,
                      rows |-> [k \in Kind |-> None]]
        /\ At(r, "bounds")
        /\ published \/ FreshForHandover(latest, Today(r))
    BY <1>1, <1>6 DEF FetchBounds
  <2>2. Bounded(r)
    BY <2>1 DEF Bounded
  <2>3. QED
    BY <2>1, <2>2 DEF Course, SameBase, At
<1>7. ASSUME NEW k \in Kind, FetchRows(r, k) PROVE Course(r)
  <2> DEFINE rows == [job[r].rows EXCEPT ![k] =
                         [days |-> IndexedRows(job[r].range), version |-> source.version]]
  <2>1. /\ job'[r] = [job[r] EXCEPT !.rows = rows]
        /\ At(r, "rows")
    BY <1>1, <1>7 DEF FetchRows
  <2>2. job[r] = [stage |-> "rows", deployment |-> job[r].deployment,
                  base |-> job[r].base, bounds |-> job[r].bounds,
                  range |-> job[r].range, rows |-> job[r].rows]
    BY <2>1 DEF ValuesInv, JobValues, JobShape, NoJob, At
  <2>3. Fetched(r)
    <3>1. job'[r].rows = rows
      BY <2>1, <2>2
    <3>2. QED
      BY <3>1 DEF Fetched
  <2> HIDE DEF rows
  <2>4. job'[r] = [stage |-> "rows", deployment |-> job[r].deployment,
                   base |-> job[r].base, bounds |-> job[r].bounds,
                   range |-> job[r].range, rows |-> rows]
    BY <2>1, <2>2
  <2>5. SameWork(job[r], job'[r])
    BY <2>4 DEF SameWork, SameBase
  <2>6. QED
    BY <2>1, <2>3, <2>4, <2>5 DEF Course, At
<1>8. CASE AcceptRows(r) /\ ~Return(r)
  <2>1. /\ job'[r] = [stage |-> "shards", deployment |-> job[r].deployment,
                      base |-> job[r].base, bounds |-> job[r].bounds,
                      range |-> job[r].range, rows |-> job[r].rows,
                      next |-> FirstPlace(job[r].range)]
        /\ At(r, "rows")
        /\ \A k \in Kind : job[r].rows[k] # None
        /\ HasPublished(job[r].base, job[r].deployment) => MissingDays(job[r]) = {}
    BY <1>1, <1>8 DEF AcceptRows
  <2>2. QED
    BY <2>1 DEF Course, SameWork, SameBase, Accepted, At
<1>9. CASE WriteShard(r)
  <2>1. /\ \/ job'[r] = [job[r] EXCEPT !.next = PlaceAfter(job[r].next)]
           \/ job'[r] = [job[r] EXCEPT !.stage = "manifest"]
        /\ At(r, "shards")
    BY <1>1, <1>9 DEF WriteShard
  <2>2. job[r] = [stage |-> "shards", deployment |-> job[r].deployment,
                  base |-> job[r].base, bounds |-> job[r].bounds,
                  range |-> job[r].range, rows |-> job[r].rows, next |-> job[r].next]
    BY <2>1 DEF ValuesInv, JobValues, JobShape, NoJob, At
  <2>3. /\ job'[r].stage \in {"shards", "manifest"}
        /\ job'[r].deployment = job[r].deployment /\ job'[r].base = job[r].base
        /\ job'[r].bounds = job[r].bounds /\ job'[r].range = job[r].range
        /\ job'[r].rows = job[r].rows
    BY <2>1, <2>2
  <2>4. QED
    BY <2>1, <2>3 DEF Course, SameWork, SameBase, At
<1>10. CASE WriteManifest(r)
  BY <1>1, <1>10 DEF WriteManifest, Course
<1>11. CASE ListStale(r) /\ ~Return(r)
  <2>1. job'[r].stage = "clean"
    BY <1>1, <1>11 DEF ListStale
  <2>2. QED
    BY <2>1 DEF Course
<1>12. CASE DeleteStale(r) /\ ~Return(r)
  <2>1. PICK k \in job[r].stale : job'[r] = [job[r] EXCEPT !.stale = @ \ {k}]
    BY <1>1, <1>12 DEF DeleteStale
  <2>2. job[r] = [stage |-> "clean", deployment |-> job[r].deployment,
                  stale |-> job[r].stale]
    BY <1>12 DEF DeleteStale, ValuesInv, JobValues, JobShape, NoJob, At
  <2>3. job'[r].stage = "clean"
    BY <2>1, <2>2
  <2>4. QED
    BY <2>3 DEF Course
<1>13. CASE Unlock(r) \/ LateLockRequest(r) \/ LateRequest(r)
  BY <1>13 DEF Unlock, LateLockRequest, LateRequest, pubVars, Course
<1>14. CASE RequestThrows(r) \/ RunDies(r)
  BY <1>1, <1>14 DEF RequestThrows, RunDies, NoJob, Course
<1>15. QED
  BY <1>2, <1>3, <1>4, <1>5, <1>6, <1>7, <1>8, <1>9, <1>10, <1>11, <1>12, <1>13, <1>14
  DEF Moves, RunStep, RunFault

(* The manifest changes when a run writes it, or when one of an ended run  *)
(* arrives late.                                                           *)
Publishes(r) ==
    /\ At(r, "manifest") /\ pc[r] = "critical"
    /\ manifest' = NextOf(job[r])
    /\ job'[r].stage = "list"

PublishesLate(r) ==
    /\ late[r] # None /\ late'[r] = None
    /\ late[r].op = "manifest"
    /\ manifest' = late[r].manifest

LEMMA ManifestCourse ==
    ASSUME ValuesInv, NEW r \in Run, Moves(r)
    PROVE  manifest' = manifest \/ Publishes(r) \/ PublishesLate(r)
<1>1. CASE WriteManifest(r)
  <2>1. Perform(PutManifest(job[r])) /\ At(r, "manifest") /\ pc[r] = "critical"
    BY <1>1 DEF WriteManifest
  <2>2. PutManifest(job[r]).op = "manifest" /\ PutManifest(job[r]).manifest = NextOf(job[r])
    BY DEF PutManifest, NextOf
  <2>3. job'[r].stage = "list"
    BY <1>1, StepMoves DEF WriteManifest, ValuesInv
  <2>4. QED
    BY <2>1, <2>2, <2>3 DEF Perform, Publishes
<1>2. CASE WriteShard(r)
  BY <1>2 DEF WriteShard, Perform, PutShard
<1>3. CASE DeleteStale(r)
  BY <1>3 DEF DeleteStale, Perform, DeleteShard
<1>4. CASE LateRequest(r)
  <2>1. late[r] # None /\ late'[r] = None
    BY <1>4 DEF LateRequest, ValuesInv
  <2>2. QED
    BY <1>4, <2>1 DEF LateRequest, Perform, PublishesLate, storeVars
<1>5. CASE ~(WriteManifest(r) \/ WriteShard(r) \/ DeleteStale(r) \/ LateRequest(r))
  BY <1>5
  DEF Moves, BeginRun, RunStep, RunFault, ReadManifest, TakeLock, FetchBounds,
      FetchRows, AcceptRows, ListStale, Unlock, RequestThrows, RunDies,
      LockWriteRepeated, LateLockRequest, pubVars, storeVars
<1>6. QED
  BY <1>1, <1>2, <1>3, <1>4, <1>5

(* A late manifest is one a run was writing when it failed.                *)
LEMMA LateCourse ==
    ASSUME ValuesInv, NEW r \in Run, Moves(r), late'[r] # None
    PROVE  \/ late'[r] = late[r]
           \/ /\ At(r, "manifest")
              /\ late'[r] = [op |-> "manifest", manifest |-> NextOf(job[r])]
           \/ At(r, "shards") /\ late'[r] = PutShard(job[r])
           \/ late'[r].op = "delete"
<1>1. DOMAIN late = Run
  BY DEF ValuesInv
<1>2. CASE RequestThrows(r) \/ RunDies(r)
  <2>1. LeaveRequest(r)
    BY <1>2 DEF RequestThrows, RunDies
  <2>2. CASE At(r, "manifest") /\ late' = [late EXCEPT ![r] = PutManifest(job[r])]
    BY <1>1, <2>2 DEF PutManifest, NextOf
  <2>3. CASE At(r, "shards") /\ late' = [late EXCEPT ![r] = PutShard(job[r])]
    BY <1>1, <2>3
  <2>4. CASE \E k \in job[r].stale : late' = [late EXCEPT ![r] = DeleteShard(k)]
    BY <1>1, <2>4 DEF DeleteShard
  <2>5. QED
    BY <2>1, <2>2, <2>3, <2>4 DEF LeaveRequest
<1>3. CASE LateRequest(r)
  BY <1>1, <1>3 DEF LateRequest
<1>4. CASE ~(RequestThrows(r) \/ RunDies(r) \/ LateRequest(r))
  BY <1>4
  DEF Moves, BeginRun, RunStep, RunFault, ReadManifest, TakeLock, FetchBounds,
      FetchRows, AcceptRows, WriteShard, WriteManifest, ListStale, DeleteStale, Unlock,
      LockWriteRepeated, LateLockRequest, pubVars
<1>5. QED
  BY <1>2, <1>3, <1>4

-----------------------------------------------------------------------------
(* Days and months.                                                        *)

LEMMA DaysInt == Day \subseteq Int
  BY DEF Day

(* No month is skipped from one day to the next.                           *)
LEMMA NextMonth ==
    ASSUME NEW d \in Day
    PROVE  MonthOf[DayAfter(d)] <= MonthOf[d] + 1
<1> DEFINE e == DayAfter(d)
           m == MonthOf[d]
           n == MonthOf[e]
<1>1. e \in Day /\ m \in Month /\ n \in Month /\ e <= d + 1
  <2>1. e \in Day /\ m \in Month /\ n \in Month
    BY DayFacts
  <2>2. e <= d + 1
    BY CalendarAssumption DEF DayAfter, EarlierOf, Day
  <2>3. QED
    BY <2>1, <2>2
<1>2. SUFFICES ASSUME n > m + 1 PROVE FALSE
  BY <1>1 DEF Month
<1>3. m + 1 \in Month
  BY <1>1, <1>2, CalendarAssumption DEF Month
<1>4. MonthStart[m + 1] \in Day
  BY <1>3, CalendarAssumption
<1>5. MonthStart[m + 1] <= e
  BY <1>1, <1>2, <1>3, CalendarAssumption DEF Month
<1>6. ~(MonthStart[m + 1] <= d)
  <2>1. ~(m + 1 <= MonthOf[d])
    BY <1>1 DEF Month
  <2>2. QED
    BY <2>1, <1>3, CalendarAssumption
<1>7. MonthStart[m + 1] = e
  BY <1>1, <1>4, <1>5, <1>6 DEF Day
<1>8. MonthOf[MonthStart[m + 1]] = m + 1
  BY <1>3, CalendarAssumption
<1>9. QED
  BY <1>1, <1>2, <1>7, <1>8 DEF Month

(* A day in a month before that of the day after e is not after e.         *)
LEMMA EarlierMonth ==
    ASSUME NEW d \in Day, NEW e \in Day, MonthOf[d] < MonthOf[DayAfter(e)]
    PROVE  d <= e
<1>1. DayAfter(e) \in Day /\ MonthOf[d] \in Month /\ MonthOf[DayAfter(e)] \in Month
  BY DayFacts
<1>2. ~(DayAfter(e) <= d)
  BY <1>1, MonthsOrdered, CalendarAssumption DEF Month
<1>3. QED
  BY <1>1, <1>2, CalendarAssumption DEF DayAfter, EarlierOf, Day

(* The first day of a month is in it, and is its own first day.            *)
LEMMA MonthStarts ==
    /\ \A m \in Month : /\ MonthStart[m] \in Day
                        /\ MonthOf[MonthStart[m]] = m
                        /\ FirstDayOfMonth(MonthStart[m]) = MonthStart[m]
    /\ \A d \in Day : FirstDayOfMonth(d) <= d
<1>1. ASSUME NEW m \in Month
      PROVE  /\ MonthStart[m] \in Day
             /\ MonthOf[MonthStart[m]] = m
             /\ FirstDayOfMonth(MonthStart[m]) = MonthStart[m]
  BY CalendarAssumption DEF FirstDayOfMonth
<1>2. ASSUME NEW d \in Day PROVE FirstDayOfMonth(d) <= d
  <2>1. MonthOf[d] \in Month
    BY DayFacts
  <2>2. QED
    BY <2>1, CalendarAssumption DEF FirstDayOfMonth, Month
<1>3. QED
  BY <1>1, <1>2

(* A refresh starts with the first day of a month that is not after the    *)
(* one of the first unpublished day.                                       *)
LEMMA RefreshStarts ==
    ASSUME NEW end \in Day, NEW latest \in Day
    PROVE  /\ RefreshStart(end, latest) \in Day
           /\ RefreshStart(end, latest) = FirstDayOfMonth(RefreshStart(end, latest))
           /\ MonthOf[RefreshStart(end, latest)] <= MonthOf[DayAfter(latest)]
<1> DEFINE a == FirstDayOfPreviousMonth(end)
           b == FirstDayOfMonth(DayAfter(latest))
           s == RefreshStart(end, latest)
<1>1. DayAfter(latest) \in Day /\ a \in Day /\ b \in Day /\ MonthOf[end] \in Month
      /\ MonthOf[DayAfter(latest)] \in Month
  BY DayFacts
<1>2. a = FirstDayOfMonth(a)
  <2>1. LaterOf(MonthOf[end], 1) - 1 \in Month
    BY <1>1, CalendarAssumption DEF Month, LaterOf
  <2>2. QED
    BY <2>1, MonthStarts DEF FirstDayOfPreviousMonth
<1>3. b = FirstDayOfMonth(b) /\ MonthOf[b] = MonthOf[DayAfter(latest)]
  BY <1>1, MonthStarts DEF FirstDayOfMonth
<1>4. s = EarlierOf(a, b)
  BY DEF RefreshStart
<1> HIDE DEF a, b, s
<1>5. (s = a \/ s = b) /\ s <= b
  BY <1>1, <1>4 DEF EarlierOf, Day
<1>6. s \in Day /\ s = FirstDayOfMonth(s)
  BY <1>1, <1>2, <1>3, <1>5
<1>7. MonthOf[s] <= MonthOf[b]
  BY <1>1, <1>5, <1>6, MonthsOrdered
<1>8. QED
  BY <1>3, <1>6, <1>7 DEF s

-----------------------------------------------------------------------------
(* Dates.                                                                  *)

LEMMA BoundsJoin ==
    ASSUME ValuesInv, Unwindowed, NEW r \in Run, job[r].stage = "bounds", Bounded(r),
           SameBase(job[r], job'[r])
    PROVE  Joining(job'[r])
<1> DEFINE b         == job[r].base
           published == HasPublished(b, job[r].deployment)
           latest    == LatestComplete(published)
<1>1. /\ job[r].window = [start |-> NoDate, end |-> NoDate]
      /\ latest \in Day
      /\ published => b # None /\ b.latest \in Day
  <2>1. job[r].window \in Windows /\ (b # None => IsManifest(b))
    BY DEF ValuesInv, JobValues
  <2>2. latest \in Day
    BY DEF ValuesInv, Progress, LatestComplete
  <2>3. QED
    BY <2>1, <2>2 DEF Unwindowed, HasPublished, IsManifest
<1>2. /\ job'[r].bounds = latest
      /\ job'[r].range = IF published
                         THEN RefreshRange(job[r].window, latest, b.latest)
                         ELSE FirstRange(job[r].window, latest)
      /\ job'[r].base = b /\ job'[r].deployment = job[r].deployment
  BY DEF Bounded, SameBase
<1> HIDE DEF latest
<1>3. CASE published
  <2> DEFINE s == RefreshStart(latest, b.latest)
  <2>1. job'[r].range = [start |-> LaterOf(PublicStart, s), end |-> latest]
    BY <1>1, <1>2, <1>3 DEF RefreshRange
  <2>2. s \in Day /\ s = FirstDayOfMonth(s) /\ MonthOf[s] <= MonthOf[DayAfter(b.latest)]
    BY <1>1, <1>3, RefreshStarts
  <2> HIDE DEF s
  <2>3. CASE PublicStart > s
    BY <2>1, <2>3, <1>2, DayFacts DEF LaterOf, Joining, Day
  <2>4. CASE ~(PublicStart > s)
    <3>1. job'[r].range.start = s /\ job'[r].range.end = latest /\ PublicStart <= s
      BY <2>1, <2>2, <2>4, DayFacts DEF LaterOf, Day
    <3>2. QED
      BY <3>1, <2>2, <1>2, <1>3 DEF Joining
  <2>5. QED
    BY <2>3, <2>4
<1>4. CASE ~published
  <2>1. job'[r].range = [start |-> PublicStart, end |-> latest]
    BY <1>1, <1>2, <1>4 DEF FirstRange
  <2>2. QED
    BY <2>1, <1>2, DayFacts DEF Joining, Day
<1>5. QED
  BY <1>3, <1>4

(* The dates of the next manifest: from the first public day to the bounds *)
(* of the source.                                                          *)
LEMMA NextDates ==
    ASSUME ValuesInv, NEW r \in Run, job[r].stage = "manifest",
           Covering(job[r].base), Joining(job[r])
    PROVE  /\ NextEarliest(job[r]) = PublicStart
           /\ NextLatest(job[r]) = job[r].bounds
           /\ PublicStart <= job[r].bounds
<1> DEFINE j == job[r]
<1>1. /\ j.base # None => IsManifest(j.base) /\ j.base.earliest = PublicStart
      /\ j.bounds \in Day /\ j.range.start \in Day /\ j.range.end = j.bounds
      /\ PublicStart <= j.range.start /\ j.range.start <= j.range.end
      /\ j.range.start = PublicStart \/ j.base # None
  BY DEF ValuesInv, JobValues, Joining, Covering, ValidRange, HasPublished
<1>2. EarlierOf(EarliestBefore(j.base, j.range), j.range.start) = PublicStart
  <2>1. EarliestBefore(j.base, j.range) = PublicStart
    BY <1>1 DEF EarliestBefore
  <2>2. PublicStart \in Int /\ j.range.start \in Int
    BY <1>1, DayFacts, DaysInt
  <2>3. QED
    BY <2>1, <2>2, <1>1 DEF EarlierOf
<1>3. NextEarliest(j) = PublicStart
  BY <1>2, DayFacts DEF NextEarliest, PublishedEarliest, LaterOf
<1>4. LatestBefore(j.base, j.range) \in Day
  BY <1>1 DEF LatestBefore, IsManifest
<1>5. NextLatest(j) = j.bounds
  BY <1>1, <1>4 DEF NextLatest, PublishedLatest, LaterOf, EarlierOf, Day
<1>6. PublicStart \in Int /\ j.range.start \in Int /\ j.bounds \in Int
  BY <1>1, DayFacts, DaysInt
<1>7. QED
  BY <1>1, <1>3, <1>5, <1>6

(* A manifest that lists shards of a deployment is that deployment's.      *)
LEMMA OwnManifest ==
    ASSUME NEW m, Covering(m), NEW d \in Deployment, HasPublished(m, d)
    PROVE  m # None /\ m.deployment = d
<1>1. m # None
  BY DEF HasPublished
<1>2. PICK x \in DOMAIN m.artifacts : x[1] = d
  BY DEF HasPublished
<1>3. PICK e \in {m.deployment, Stable}, y \in Kind, z \in MonthKeys(m.earliest, m.latest) :
          x = Key(e, y, z)
  BY <1>1, <1>2 DEF Covering, Covers, KeysBetween
<1>4. d # Stable
  BY PublisherAssumption
<1>5. QED
  BY <1>1, <1>2, <1>3, <1>4 DEF Key

(* The manifest a run publishes lists every kind of every month it         *)
(* announces: those the run wrote, and before them those of the manifest   *)
(* it had read.                                                            *)
LEMMA NextCovers ==
    ASSUME ValuesInv, NEW r \in Run, job[r].stage = "manifest",
           Covering(job[r].base), Joining(job[r])
    PROVE  Covering(NextOf(job[r]))
<1> DEFINE j     == job[r]
           m     == NextOf(j)
           first == MonthOf[PublicStart]
           last  == MonthOf[j.bounds]
           start == MonthOf[j.range.start]
<1>1. /\ m.deployment = j.deployment
      /\ m.earliest = PublicStart /\ m.latest = j.bounds
      /\ PublicStart <= j.bounds
      /\ DOMAIN m.artifacts =
            {k \in ShardKeys(j) \cup DOMAIN ArtifactsBefore(j.base) :
                k[1] \in {j.deployment, Stable} /\ k[3] \in MonthKeys(PublicStart, j.bounds)}
  <2>1. /\ m.deployment = j.deployment
        /\ m.earliest = NextEarliest(j) /\ m.latest = NextLatest(j)
        /\ DOMAIN m.artifacts =
              {k \in ShardKeys(j) \cup DOMAIN ArtifactsBefore(j.base) :
                  /\ k[1] \in {j.deployment, Stable}
                  /\ k[3] \in MonthKeys(NextEarliest(j), NextLatest(j))}
    BY NextParts
  <2>2. NextEarliest(j) = PublicStart /\ NextLatest(j) = j.bounds /\ PublicStart <= j.bounds
    BY NextDates
  <2> HIDE DEF j, m
  <2>3. QED
    BY <2>1, <2>2
<1>2. /\ j.base # None => IsManifest(j.base)
      /\ j.bounds \in Day /\ j.range.start \in Day /\ j.range.end = j.bounds
  BY DEF ValuesInv, JobValues, Joining
<1>3. first \in Nat /\ last \in Nat /\ start \in Nat
  BY <1>2, DayFacts DEF Month
<1>4. MonthKeys(PublicStart, j.bounds) = first .. last
      /\ MonthKeys(j.range.start, j.range.end) = start .. last
  BY <1>2 DEF MonthKeys
<1>5. ASSUME NEW k \in DOMAIN m.artifacts
      PROVE  \E d \in {j.deployment, Stable}, kind \in Kind, month \in first .. last :
                k = Key(d, kind, month)
  <2>1. /\ k \in ShardKeys(j) \cup DOMAIN ArtifactsBefore(j.base)
        /\ k[1] \in {j.deployment, Stable} /\ k[3] \in first .. last
    BY <1>1, <1>4
  <2>2. k \in Keys
    <3>1. ShardKeys(j) \subseteq Keys
      BY ShardValues
    <3>2. DOMAIN ArtifactsBefore(j.base) \subseteq Keys
      BY <1>2 DEF ArtifactsBefore, IsManifest, IsArtifacts
    <3>3. QED
      BY <2>1, <3>1, <3>2
  <2>3. k = Key(k[1], k[2], k[3]) /\ k[2] \in Kind
    BY <2>1, <2>2 DEF Keys, Key
  <2>4. QED
    BY <2>1, <2>3
<1>6. ASSUME NEW kind \in Kind, NEW month \in first .. last
      PROVE  Key(j.deployment, kind, month) \in DOMAIN m.artifacts
  <2> DEFINE k == Key(j.deployment, kind, month)
  <2>1. k[1] = j.deployment /\ k[3] \in MonthKeys(PublicStart, j.bounds)
    BY <1>4 DEF Key
  <2>2. CASE start <= month
    <3>1. month \in MonthKeys(j.range.start, j.range.end)
      BY <2>2, <1>3, <1>4
    <3>2. k \in ShardKeys(j)
      BY <3>1 DEF ShardKeys
    <3>3. QED
      BY <3>2, <2>1, <1>1
  <2>3. CASE ~(start <= month)
    <3>1. j.range.start # PublicStart
      BY <2>3, <1>3
    <3>2. HasPublished(j.base, j.deployment) /\ start <= MonthOf[DayAfter(j.base.latest)]
      BY <3>1 DEF Joining
    <3>3. j.base # None /\ j.base.latest \in Day
      BY <3>2, <1>2 DEF HasPublished, IsManifest
    <3>4. MonthOf[j.base.latest] \in Nat /\ MonthOf[DayAfter(j.base.latest)] \in Nat
      BY <3>3, DayFacts DEF Month
    <3>5. month \in first .. MonthOf[j.base.latest]
      BY <3>2, <3>3, <3>4, <2>3, <1>3, NextMonth
    <3>6. Covering(j.base) /\ j.base.earliest = PublicStart /\ Covers(j.base)
      BY <3>3 DEF Covering
    <3>7. j.base.deployment = j.deployment
      <4>1. j.deployment \in Deployment
        BY DEF ValuesInv, JobValues
      <4>2. QED
        BY <4>1, <3>2, <3>6, OwnManifest
    <3>8. k \in DOMAIN j.base.artifacts
      BY <3>5, <3>6, <3>7 DEF MonthKeys, Covers, KeysBetween
    <3>9. k \in DOMAIN ArtifactsBefore(j.base)
      BY <3>3, <3>8 DEF ArtifactsBefore
    <3>10. QED
      BY <3>9, <2>1, <1>1
  <2>4. QED
    BY <2>2, <2>3
<1>7. Covers(m)
  <2>1. MonthKeys(m.earliest, m.latest) = first .. last
    BY <1>1, <1>4
  <2> HIDE DEF m, first, last
  <2>2. QED
    BY <2>1, <1>1, <1>5, <1>6 DEF Covers, KeysBetween
<1>8. QED
  BY <1>1, <1>7 DEF Covering

LEMMA DatesMove ==
    ASSUME ValuesInv, LockTypeOK, Unwindowed, DatesInv, NEW r \in Run, Moves(r)
    PROVE  DatesInv'
<1> DEFINE OK(q) == /\ Dated(job'[q])
                    /\ (late'[q] # None /\ late'[q].op = "manifest")
                            => Covering(late'[q].manifest)
<1>1. Dated(job[r])
  BY DEF DatesInv
<1>2. At(r, "manifest") => Covering(NextOf(job[r]))
  BY <1>1, NextCovers DEF Dated, At
<1>3. Covering(manifest')
  <2>1. CASE manifest' = manifest
    BY <2>1 DEF DatesInv
  <2>2. CASE Publishes(r)
    BY <2>2, <1>2 DEF Publishes
  <2>3. CASE PublishesLate(r)
    BY <2>3 DEF PublishesLate, DatesInv
  <2>4. QED
    BY <2>1, <2>2, <2>3, ManifestCourse
<1>4. Dated(job'[r])
  <2>1. Course(r) /\ Covering(manifest)
    BY JobCourse DEF DatesInv
  <2>2. CASE job[r].stage = "bounds" /\ job'[r].stage = "rows"
             /\ SameBase(job[r], job'[r]) /\ Bounded(r)
    <3>1. Joining(job'[r])
      BY <2>2, BoundsJoin
    <3>2. Covering(job'[r].base)
      BY <2>2, <1>1 DEF Dated, SameBase
    <3>3. QED
      BY <3>1, <3>2 DEF Dated
  <2>3. CASE /\ job[r].stage \in {"rows", "shards"}
             /\ SameWork(job[r], job'[r])
    BY <2>3, <1>1 DEF Dated, Joining, SameWork, SameBase
  <2>4. CASE job[r].stage = "lock" /\ job'[r].stage = "bounds" /\ SameBase(job[r], job'[r])
    BY <2>4, <1>1 DEF Dated, SameBase
  <2>5. CASE job'[r].stage = "lock" /\ job'[r].base = manifest
    BY <2>1, <2>5 DEF Dated
  <2>6. CASE job'[r].stage \in {"idle", "manifestRead", "list", "clean"}
    BY <2>6 DEF Dated
  <2>7. CASE job'[r] = job[r]
    BY <2>7, <1>1
  <2>8. QED
    BY <2>1, <2>2, <2>3, <2>4, <2>5, <2>6, <2>7 DEF Course
<1>5. ASSUME late'[r] # None, late'[r].op = "manifest" PROVE Covering(late'[r].manifest)
  <2>1. CASE late'[r] = late[r]
    BY <2>1, <1>5 DEF DatesInv
  <2>2. CASE /\ At(r, "manifest")
             /\ late'[r] = [op |-> "manifest", manifest |-> NextOf(job[r])]
    BY <2>2, <1>2
  <2>3. PutShard(job[r]).op = "shard"
    BY DEF PutShard
  <2>4. QED
    BY <1>5, <2>1, <2>2, <2>3, LateCourse
<1>6. ASSUME NEW q \in Run \ {r} PROVE OK(q)
  <2>1. job'[q] = job[q] /\ late'[q] = late[q]
    BY MovesAlone DEF ValuesInv, OthersRest
  <2>2. QED
    BY <2>1 DEF DatesInv
<1>7. QED
  BY <1>3, <1>4, <1>5, <1>6 DEF DatesInv

LEMMA DatesInvStep ==
    ASSUME ValuesInv, LockTypeOK, Unwindowed, DatesInv, [Next]_vars
    PROVE  DatesInv'
<1>1. ASSUME NEW r \in Run, Moves(r) PROVE DatesInv'
  BY <1>1, DatesMove
<1>2. CASE \/ Time \/ Index \/ Restart \/ UNCHANGED vars
           \/ \E d \in Deployment : Redeploy(d)
  <2>1. UNCHANGED <<manifest, job, late>>
    BY <1>2 DEF Time, Index, Restart, Redeploy, pubVars, storeVars, vars
  <2>2. QED
    BY <2>1 DEF DatesInv
<1>3. QED
  BY <1>1, <1>2 DEF Next, Moves

LEMMA DatesInvInit == Init => DatesInv
<1> SUFFICES ASSUME Init PROVE DatesInv
  OBVIOUS
<1>1. PICK p \in InitialProgress :
          \/ manifest = None
          \/ /\ p.cross >= PublicStart
             /\ \E e \in {deployed, Stable} : PublishedUpTo(e, p.cross)
  BY DEF Init
<1>2. Covering(manifest)
  <2>1. CASE manifest = None
    BY <2>1 DEF Covering
  <2>2. ASSUME p.cross >= PublicStart,
               NEW d \in {deployed, Stable}, PublishedUpTo(d, p.cross)
        PROVE  Covering(manifest)
    <3> DEFINE f == CompleteShards(d, p.cross)
    <3>1. DOMAIN f = KeysBetween(d, PublicStart, p.cross)
      BY DEF CompleteShards, KeysBetween
    <3> HIDE DEF f
    <3>2. manifest = [deployment |-> d, earliest |-> PublicStart,
                      latest |-> p.cross, artifacts |-> f]
      BY <2>2 DEF PublishedUpTo, f
    <3>3. PublicStart <= p.cross
      <4>1. p.cross \in Int /\ PublicStart \in Int
        BY PublisherAssumption, DayFacts, DaysInt
      <4>2. QED
        BY <4>1, <2>2
    <3>4. /\ manifest.deployment = d /\ manifest.earliest = PublicStart
          /\ manifest.latest = p.cross /\ manifest.artifacts = f
      BY <3>2
    <3>5. QED
      BY <3>1, <3>3, <3>4 DEF Covering, Covers
  <2>3. QED
    BY <1>1, <2>1, <2>2
<1>3. ASSUME NEW r \in Run PROVE job[r].stage = "idle" /\ late[r] = None
  BY DEF Init, NoJob
<1>4. QED
  BY <1>2, <1>3 DEF DatesInv, Dated

(* Without a window of its own (PUBLISHER_START_DATE, PUBLISHER_END_DATE), *)
(* every run joins its range to the dates it read, and every manifest, the *)
(* ones that arrive late included, covers the dates it announces.          *)
THEOREM DatesInvariant == ASSUME Unwindowed PROVE Spec => []DatesInv
<1>1. ValuesInv /\ LockTypeOK /\ DatesInv /\ [Next]_vars => DatesInv'
  BY DatesInvStep
<1>2. QED
  BY <1>1, DatesInvInit, ValuesInvariant, PTL DEF Spec

(* The manifest lists every kind of shard of every month between its dates *)
(* and no other shard, although resolvePublishRange regenerates only some  *)
(* of the months and pruneArtifactsOutsidePublishedBounds drops entries:   *)
(* with runs that overlap, fail or are late, a source that is reset and a  *)
(* deployment that is switched at any time.                                *)
THEOREM ManifestAlwaysCovers == ASSUME Unwindowed PROVE Spec => []ManifestCoversDates
<1>1. DatesInv => ManifestCoversDates
  BY DEF DatesInv, Covering, ManifestCoversDates
<1>2. QED
  BY <1>1, DatesInvariant, PTL

-----------------------------------------------------------------------------
(* Rows.                                                                   *)

LEMMA MonthsNat == \A d \in Day : MonthOf[d] \in Nat
<1>1. \A d \in Day : MonthOf[d] \in Month
  BY DayFacts
<1>2. QED
  BY <1>1 DEF Month

LEMMA DaysBetween ==
    ASSUME NEW a \in Day, NEW b \in Day, NEW d \in a .. b
    PROVE  d \in Day /\ a <= d /\ d <= b
  BY CalendarAssumption DEF Day

(* A day on or after the first day of a month is in it or in a later one.  *)
LEMMA SinceMonth ==
    ASSUME NEW d \in Day, NEW s \in Day, s = FirstDayOfMonth(s), MonthOf[s] <= MonthOf[d]
    PROVE  s <= d
  BY CalendarAssumption DEF FirstDayOfMonth

(* The manifest a run publishes records a row for each day it announces:   *)
(* for the months of the run in the rows it fetched, for earlier ones in   *)
(* the manifest it had read.                                               *)
LEMMA NextRecorded ==
    ASSUME ValuesInv, NEW r \in Run, job[r].stage = "manifest",
           Covering(job[r].base), Joining(job[r]), Recorded(job[r].base), HasRows(job[r])
    PROVE  Recorded(NextOf(job[r]))
<1> DEFINE j == job[r]
           m == NextOf(j)
<1>1. /\ m.deployment = j.deployment
      /\ m.earliest = PublicStart /\ m.latest = j.bounds
      /\ \A k \in DOMAIN m.artifacts :
            m.artifacts[k] = IF k \in ShardKeys(j) THEN Shard(j, k)
                             ELSE ArtifactsBefore(j.base)[k]
  BY NextParts, NextDates
<1>2. /\ j.base # None => IsManifest(j.base) /\ j.base.earliest = PublicStart
      /\ j.bounds \in Day /\ j.range.start \in Day /\ j.range.end = j.bounds
      /\ j.deployment \in Deployment
  BY DEF ValuesInv, JobValues, Joining, Covering
<1> HIDE DEF m
<1>3. ASSUME m # None, NEW d \in PublicStart .. j.bounds
      PROVE  d \in m.artifacts[Key(j.deployment, "metrics", MonthOf[d])].days
  <2> DEFINE k     == Key(j.deployment, "metrics", MonthOf[d])
             start == MonthOf[j.range.start]
  <2>1. d \in Day /\ PublicStart <= d /\ d <= j.bounds
    BY <1>2, DayFacts, DaysBetween
  <2>2. /\ start \in Nat /\ MonthOf[d] \in Nat /\ MonthOf[j.bounds] \in Nat
        /\ MonthOf[PublicStart] \in Nat
    BY <1>2, <2>1, DayFacts, MonthsNat
  <2>3. MonthOf[PublicStart] <= MonthOf[d] /\ MonthOf[d] <= MonthOf[j.bounds]
    BY <1>2, <2>1, DayFacts, MonthsOrdered
  <2>4. k \in DOMAIN m.artifacts
    <3>1. Covering(m)
      BY NextCovers DEF m
    <3>2. MonthOf[d] \in MonthKeys(PublicStart, j.bounds)
      BY <2>2, <2>3 DEF MonthKeys
    <3>3. {Key(j.deployment, x, y) : x \in Kind, y \in MonthKeys(PublicStart, j.bounds)}
              \subseteq DOMAIN m.artifacts
      BY <3>1, <1>1, <1>3 DEF Covering, Covers, KeysBetween
    <3>4. QED
      BY <3>2, <3>3, PublisherAssumption
  <2>5. k[2] = "metrics" /\ k[3] = MonthOf[d]
    BY DEF Key
  <2>6. CASE start <= MonthOf[d]
    <3>1. k \in ShardKeys(j)
      <4>1. MonthOf[d] \in MonthKeys(j.range.start, j.range.end)
        BY <2>2, <2>3, <2>6, <1>2 DEF MonthKeys
      <4>2. QED
        BY <4>1, PublisherAssumption DEF ShardKeys
    <3>2. m.artifacts[k].days = j.rows["metrics"].days \cap DaysOf(MonthOf[d])
      <4> HIDE DEF k
      <4>1. m.artifacts[k] = Shard(j, k)
        BY <1>1, <2>4, <3>1
      <4>2. QED
        BY <4>1, <2>5 DEF Shard
    <3>3. j.range.start <= d
      <4>1. CASE j.range.start = PublicStart
        BY <4>1, <2>1
      <4>2. CASE j.range.start = FirstDayOfMonth(j.range.start)
        BY <4>2, <2>1, <2>6, <1>2, SinceMonth
      <4>3. QED
        BY <4>1, <4>2 DEF Joining
    <3>4. d \in DaysFrom(j.range)
      BY <3>3, <2>1, <1>2 DEF DaysFrom, Day
    <3>5. d \in j.rows["metrics"].days
      BY <3>4 DEF HasRows
    <3>6. d \in DaysOf(MonthOf[d])
      BY <2>1 DEF DaysOf
    <3>7. QED
      BY <3>2, <3>5, <3>6
  <2>7. CASE ~(start <= MonthOf[d])
    <3>1. j.range.start # PublicStart
      BY <2>3, <2>7
    <3>2. HasPublished(j.base, j.deployment) /\ start <= MonthOf[DayAfter(j.base.latest)]
      BY <3>1 DEF Joining
    <3>3. j.base # None /\ j.base.latest \in Day /\ j.base.deployment = j.deployment
      BY <3>2, <1>2, OwnManifest DEF HasPublished, IsManifest
    <3>4. d <= j.base.latest
      <4>1. MonthOf[DayAfter(j.base.latest)] \in Nat
        BY <3>3, DayFacts DEF Month
      <4>2. MonthOf[d] < MonthOf[DayAfter(j.base.latest)]
        BY <4>1, <3>2, <2>2, <2>7
      <4>3. QED
        BY <4>2, <3>3, <2>1, EarlierMonth
    <3>5. d \in PublicStart .. j.base.latest
      BY <3>3, <3>4, <2>1, DayFacts DEF Day
    <3>6. d \in j.base.artifacts[k].days
      BY <3>3, <3>5, <1>2 DEF Recorded
    <3>7. k \notin ShardKeys(j)
      <4>1. ASSUME k \in ShardKeys(j) PROVE FALSE
        <5>1. PICK x \in Kind, y \in MonthKeys(j.range.start, j.range.end) :
                  k = Key(j.deployment, x, y)
          BY <4>1 DEF ShardKeys
        <5>2. y = MonthOf[d]
          BY <5>1 DEF Key
        <5>3. QED
          BY <5>1, <5>2, <2>2, <2>7, <1>2 DEF MonthKeys
      <4>2. QED
        BY <4>1
    <3> HIDE DEF k
    <3>8. m.artifacts[k] = j.base.artifacts[k]
      BY <1>1, <2>4, <3>3, <3>7 DEF ArtifactsBefore
    <3>9. QED
      BY <3>6, <3>8 DEF k
  <2>8. QED
    BY <2>6, <2>7
<1>4. QED
  BY <1>1, <1>3 DEF Recorded, m
(* The clock of a run that has started, and the control states it passes.  *)
LEMMA ClockKept ==
    ASSUME LockTypeOK, NEW r \in Run, Moves(r), NEW q \in Run,
           q # r \/ pc[q] # "idle"
    PROVE  started'[q] = started[q]
<1>1. CASE BeginRun(r)
  BY <1>1 DEF BeginRun, Start, LockTypeOK
<1>2. CASE ~BeginRun(r)
  BY <1>2
  DEF Moves, RunStep, RunFault, ReadManifest, TakeLock, FetchBounds, FetchRows,
      AcceptRows, WriteShard, WriteManifest, ListStale, DeleteStale, Unlock,
      RequestThrows, RunDies, LockWriteRepeated, LateLockRequest, LateRequest,
      Return, Finish, Acquire, PutIfAbsent, ReadHolder, Replace, Verify, Release,
      ReleaseRead, ReleaseDelete, Abort, Throw, RepeatedWrite, Land, Lose, lockVars
<1>3. QED
  BY <1>1, <1>2

LEMMA IdleIsOver ==
    ASSUME LockTypeOK, ValuesInv, NEW r \in Run, Moves(r), ~LateRequest(r)
    PROVE  pc'[r] # "idle"
<1> USE DEF Go, LockTypeOK, Acquiring, Holding, Late, Live, InFlight
<1>1. CASE BeginRun(r)
  BY <1>1 DEF BeginRun, Start
<1>2. CASE Return(r) \/ RequestThrows(r)
  BY <1>2 DEF Return, Finish, RequestThrows, Throw
<1>3. CASE ReadManifest(r)
  BY <1>3 DEF ReadManifest, lockVars
<1>4. CASE TakeLock(r) \/ LockWriteRepeated(r)
  <2>1. Acquire(r) \/ RepeatedWrite(r)
    BY <1>4 DEF TakeLock, LockWriteRepeated
  <2>2. QED
    BY <2>1, AcquireMoves
<1>5. CASE pc[r] = "critical" /\ UNCHANGED lockVars
  BY <1>5 DEF lockVars
<1>6. CASE Unlock(r) \/ LateLockRequest(r)
  BY <1>6 DEF Unlock, Release, ReleaseRead, ReleaseDelete, LateLockRequest, Land, Lose
<1>7. CASE RunDies(r)
  BY <1>7 DEF RunDies, Abort
<1>8. QED
  BY <1>1, <1>2, <1>3, <1>4, <1>5, <1>6, <1>7
  DEF Moves, RunStep, RunFault, FetchBounds, FetchRows, AcceptRows, WriteShard,
      WriteManifest, ListStale, DeleteStale

(* A run at work has started.                                              *)
LEMMA AtWork ==
    ASSUME ValuesInv, NEW r \in Run, job[r].stage # "idle"
    PROVE  /\ pc[r] \in Live
           /\ pc[r] # "idle"
<1>1. JobShape(job[r]) /\ Placed(r)
  BY DEF ValuesInv, JobValues
<1>2. QED
  BY <1>1 DEF JobShape, NoJob, Placed, At, UnderLock, Live, Acquiring, Holding

(* The manifests there can be; None should not be one of them.             *)
Manifests ==
    [deployment : Prefix, earliest : Day, latest : Day,
     artifacts : UNION {[keys -> Contents] : keys \in SUBSET Keys}]

(* The manifest a run publishes is one.                                    *)
LEMMA NextIsManifest ==
    ASSUME ValuesInv, NEW r \in Run, At(r, "manifest"), None \notin Manifests
    PROVE  NextOf(job[r]) # None
<1> DEFINE m    == NextOf(job[r])
           sets == {[keys -> Contents] : keys \in SUBSET Keys}
<1>1. IsManifest(m)
  <2>1. PutManifest(job[r]).manifest = m
    BY DEF PutManifest, NextOf
  <2>2. PutManifest(job[r]).op = "manifest"
    BY DEF PutManifest
  <2>3. QED
    BY <2>1, <2>2, PutManifestValues DEF RequestValues
<1>2. m = [deployment |-> m.deployment, earliest |-> m.earliest,
           latest |-> m.latest, artifacts |-> m.artifacts]
  BY DEF NextOf, NextManifest
<1>3. m.artifacts = [k \in DOMAIN m.artifacts |-> m.artifacts[k]]
  BY DEF NextOf, NextManifest, Pruned, Restrict
<1> HIDE DEF m
<1>4. m.artifacts \in UNION sets
  <2>1. DOMAIN m.artifacts \in SUBSET Keys
    BY <1>1 DEF IsManifest, IsArtifacts
  <2>2. m.artifacts \in [DOMAIN m.artifacts -> Contents]
    BY <1>1, <1>3 DEF IsManifest, IsArtifacts
  <2>3. QED
    BY <2>1, <2>2
<1>5. m \in Manifests
  <2> HIDE DEF sets
  <2>1. m \in [deployment : Prefix, earliest : Day, latest : Day,
               artifacts : UNION sets]
    BY <1>1, <1>2, <1>4 DEF IsManifest
  <2>2. QED
    BY <2>1 DEF Manifests, sets
<1>6. QED
  BY <1>5 DEF m
(* Once the manifest is that of the current deployment, it stays so: the   *)
(* runs and the late requests of a deployment publish only its own.        *)
LEMMA TakenOverStays ==
    ASSUME ValuesInv, StoreInv, LockTypeOK, RecordsInv, None \notin Manifests,
           NEW r \in Run, Moves(r), TakenOver
    PROVE  TakenOver'
<1>1. deployed' = deployed
  BY MovesAlone DEF ValuesInv, OthersRest
<1>2. CASE Publishes(r)
  <2>1. job[r].deployment = deployed
    BY <1>2 DEF Publishes, StoreInv, Control, At
  <2>2. manifest'.deployment = deployed /\ manifest' # None
    BY <1>2, <2>1, NextParts, NextIsManifest DEF Publishes
  <2>3. QED
    BY <1>1, <2>2 DEF TakenOver
<1>3. CASE PublishesLate(r)
  <2>1. /\ late[r].manifest # None
        /\ late[r].manifest.deployment = deployed
    BY <1>3 DEF PublishesLate, RecordsInv, RecordsOf, Publishable, StoreInv, Pending
  <2>2. QED
    BY <1>1, <1>3, <2>1 DEF PublishesLate, TakenOver
<1>4. CASE manifest' = manifest
  BY <1>1, <1>4 DEF TakenOver
<1>5. QED
  BY <1>2, <1>3, <1>4, ManifestCourse

(* FetchBounds settles on days that are indexed: all chains for a first    *)
(* publish, and then recent enough.                                        *)
LEMMA BoundsFit ==
    ASSUME ValuesInv, NEW r \in Run, job[r].stage = "bounds", Bounded(r),
           ~HasPublished(job[r].base, job[r].deployment)
    PROVE  FitForHandover(job'[r].bounds, r)
<1>1. job'[r].bounds = source.progress.all /\ FreshForHandover(source.progress.all, Today(r))
  BY DEF Bounded, LatestComplete
<1>2. source.progress.all \in Int
  BY DaysInt DEF ValuesInv, Progress
<1>3. QED
  BY <1>1, <1>2 DEF FitForHandover

(* The metrics rows of a first publish cover its range.                    *)
LEMMA FirstRows ==
    ASSUME ValuesInv, NEW r \in Run, Dated(job[r]), job[r].stage = "rows",
           ~HasPublished(job[r].base, job[r].deployment),
           FitForHandover(job[r].bounds, r)
    PROVE  DaysFrom(job[r].range) \subseteq IndexedRows(job[r].range)
<1> DEFINE range == job[r].range
<1>1. range.start = PublicStart /\ range.end = job[r].bounds
  BY DEF Dated, Joining
<1>2. range.end \in Int /\ range.start \in Int /\ range.start >= 1
  BY <1>1, CalendarAssumption, DaysInt DEF ValuesInv, JobValues, Day
<1>3. range.end <= source.progress.head
  <2>1. range.end <= source.progress.all
    BY <1>1 DEF FitForHandover
  <2>2. /\ source.progress.all \in Int /\ source.progress.cross \in Int
        /\ source.progress.head \in Int
    BY DaysInt DEF ValuesInv, Progress
  <2>3. source.progress.all <= source.progress.cross
        /\ source.progress.cross <= source.progress.head
    BY DEF ValuesInv, IsProgress
  <2>4. QED
    BY <1>2, <2>1, <2>2, <2>3
<1>4. source.progress.head \in Int
  BY DaysInt DEF ValuesInv, Progress
<1>5. QED
  BY <1>2, <1>3, <1>4 DEF DaysFrom, IndexedRows

(* What a run carries along.                                               *)
LEMMA CarryingMove ==
    ASSUME ValuesInv, StoreInv, LockTypeOK, DatesInv, RecordsInv, None \notin Manifests,
           NEW r \in Run, Moves(r)
    PROVE  Carrying(r)'
<1> DEFINE j == job[r]
           k == job'[r]
<1>1. Course(r) /\ Carrying(r) /\ Dated(j) /\ Control(r)
  BY JobCourse DEF RecordsInv, RecordsOf, DatesInv, StoreInv
<1>2. TakenOver => TakenOver'
  BY TakenOverStays
<1>3. source' = source
  BY MovesAlone DEF ValuesInv, OthersRest
<1>4. ASSUME j.stage # "idle", NEW d PROVE FitForHandover(d, r)' <=> FitForHandover(d, r)
  <2>1. started'[r] = started[r]
    BY <1>4, AtWork, ClockKept
  <2>2. QED
    BY <1>3, <2>1 DEF FitForHandover, FreshForHandover, Today
<1>5. CASE k = j
  <2>1. CASE j.stage = "idle"
    BY <1>5, <2>1 DEF Carrying
  <2>2. CASE j.stage # "idle"
    BY <1>1, <1>2, <1>4, <1>5, <2>2 DEF Carrying
  <2>3. QED
    BY <2>1, <2>2
<1>6. CASE k.stage \in {"idle", "manifestRead", "list", "clean"}
  BY <1>6 DEF Carrying
<1>7. CASE /\ j.stage = "manifestRead" /\ k.stage = "lock"
           /\ k.deployment = j.deployment /\ k.base = manifest
  <2>1. HasPublished(manifest, k.deployment) => TakenOver
    <3>1. k.deployment = deployed
      BY <1>1, <1>7 DEF Control, At
    <3>2. QED
      BY <3>1, OwnManifest DEF DatesInv, TakenOver, ValuesInv
  <2>2. QED
    BY <1>2, <1>7, <2>1 DEF Carrying, RecordsInv
<1>8. CASE j.stage = "lock" /\ k.stage = "bounds" /\ SameBase(j, k)
  BY <1>1, <1>2, <1>8 DEF Carrying, SameBase
<1>9. CASE j.stage = "bounds" /\ k.stage = "rows" /\ SameBase(j, k) /\ Bounded(r)
  <2>1. ~HasPublished(k.base, k.deployment) => FitForHandover(k.bounds, r)
    BY <1>9, BoundsFit DEF SameBase
  <2>2. k.rows["metrics"] = None
    BY <1>9, PublisherAssumption DEF Bounded
  <2>3. /\ Recorded(k.base)
        /\ HasPublished(k.base, k.deployment) => TakenOver'
    BY <1>1, <1>2, <1>9 DEF Carrying, SameBase
  <2>4. QED
    BY <1>4, <1>9, <2>1, <2>2, <2>3 DEF Carrying
<1>10. CASE j.stage = "rows" /\ k.stage = "rows" /\ SameWork(j, k) /\ Fetched(r)
  <2>1. ASSUME ~HasPublished(k.base, k.deployment), k.rows["metrics"] # None
        PROVE  HasRows(k)
    <3>1. ~HasPublished(j.base, j.deployment) /\ k.range = j.range
      BY <1>10, <2>1 DEF SameWork, SameBase
    <3>2. DaysFrom(j.range) \subseteq IndexedRows(j.range)
      BY <1>1, <1>10, <3>1, FirstRows DEF Carrying
    <3>3. PICK x \in Kind :
              k.rows = [j.rows EXCEPT ![x] =
                           [days |-> IndexedRows(j.range), version |-> source.version]]
      BY <1>10 DEF Fetched
    <3>4. DOMAIN j.rows = Kind /\ "metrics" \in Kind
      BY <1>10, PublisherAssumption DEF ValuesInv, JobValues
    <3>5. \/ k.rows["metrics"].days = IndexedRows(j.range)
          \/ k.rows["metrics"] = j.rows["metrics"]
      BY <3>3, <3>4
    <3>6. CASE k.rows["metrics"].days = IndexedRows(j.range)
      BY <3>1, <3>2, <3>6 DEF HasRows
    <3>7. CASE k.rows["metrics"] = j.rows["metrics"]
      BY <1>1, <1>10, <2>1, <3>1, <3>7 DEF Carrying, HasRows
    <3>8. QED
      BY <3>5, <3>6, <3>7
  <2>2. /\ Recorded(k.base)
        /\ HasPublished(k.base, k.deployment) => TakenOver'
        /\ ~HasPublished(k.base, k.deployment) => FitForHandover(k.bounds, r)
    BY <1>1, <1>2, <1>10 DEF Carrying, SameWork, SameBase
  <2>3. QED
    BY <1>4, <1>10, <2>1, <2>2 DEF Carrying
<1>11. CASE j.stage = "rows" /\ k.stage = "shards" /\ SameWork(j, k) /\ Accepted(r)
  <2>1. HasRows(j)
    <3>1. CASE HasPublished(j.base, j.deployment)
      BY <1>11, <3>1 DEF Accepted, MissingDays, HasRows
    <3>2. CASE ~HasPublished(j.base, j.deployment)
      <4>1. j.rows["metrics"] # None
        BY <1>11, PublisherAssumption DEF Accepted
      <4>2. QED
        BY <1>1, <1>11, <3>2, <4>1 DEF Carrying
    <3>3. QED
      BY <3>1, <3>2
  <2>2. HasRows(k)
    BY <1>11, <2>1 DEF Accepted, SameWork, HasRows
  <2>3. /\ Recorded(k.base)
        /\ HasPublished(k.base, k.deployment) => TakenOver'
        /\ ~HasPublished(k.base, k.deployment) => FitForHandover(k.bounds, r)
    BY <1>1, <1>2, <1>11 DEF Carrying, SameWork, SameBase
  <2>4. QED
    BY <1>4, <1>11, <2>2, <2>3 DEF Carrying
<1>12. CASE /\ j.stage = "shards" /\ k.stage \in {"shards", "manifest"}
            /\ SameWork(j, k) /\ k.rows = j.rows
  <2>1. HasRows(k)
    BY <1>1, <1>12 DEF Carrying, SameWork, HasRows
  <2>2. /\ Recorded(k.base)
        /\ HasPublished(k.base, k.deployment) => TakenOver'
        /\ ~HasPublished(k.base, k.deployment) => FitForHandover(k.bounds, r)
    BY <1>1, <1>2, <1>12 DEF Carrying, SameWork, SameBase
  <2>3. QED
    BY <1>4, <1>12, <2>1, <2>2 DEF Carrying
<1>13. QED
  BY <1>1, <1>5, <1>6, <1>7, <1>8, <1>9, <1>10, <1>11, <1>12 DEF Course
(* The manifest a run is about to publish.                                 *)
LEMMA NextPublishable ==
    ASSUME ValuesInv, DatesInv, RecordsInv, None \notin Manifests,
           NEW r \in Run, At(r, "manifest")
    PROVE  Publishable(NextOf(job[r]), r)
<1>1. Dated(job[r]) /\ Carrying(r) /\ job[r].stage = "manifest"
  BY DEF DatesInv, RecordsInv, RecordsOf, At
<1>2. Covering(job[r].base) /\ Joining(job[r]) /\ Recorded(job[r].base) /\ HasRows(job[r])
  BY <1>1 DEF Dated, Carrying
<1>3. NextOf(job[r]).latest = job[r].bounds
  BY <1>1, <1>2, NextParts, NextDates
<1>4. TakenOver \/ FitForHandover(job[r].bounds, r)
  BY <1>1 DEF Carrying
<1>5. NextOf(job[r]) # None /\ Recorded(NextOf(job[r]))
  BY <1>1, <1>2, NextRecorded, NextIsManifest
<1>6. QED
  BY <1>3, <1>4, <1>5 DEF Publishable

(* It stays fit.                                                           *)
LEMMA PublishableStays ==
    ASSUME NEW r \in Run, OthersRest(r), TakenOver => TakenOver',
           NEW q \in Run, started'[q] = started[q], NEW m, Publishable(m, q)
    PROVE  Publishable(m, q)'
<1>1. FitForHandover(m.latest, q) => FitForHandover(m.latest, q)'
  BY DEF OthersRest, FitForHandover, FreshForHandover, Today
<1>2. QED
  BY <1>1 DEF Publishable, Recorded
(* A late request of the run that moves: the one it had, or the manifest   *)
(* it was writing when it failed.                                          *)
LEMMA LateRecords ==
    ASSUME ValuesInv, StoreInv, LockTypeOK, DatesInv, RecordsInv, None \notin Manifests,
           NEW r \in Run, Moves(r), late'[r] # None, late'[r].op = "manifest",
           NEW m, m = late'[r].manifest
    PROVE  Publishable(m, r)'
<1>1. OthersRest(r) /\ (TakenOver => TakenOver')
  BY MovesAlone, TakenOverStays DEF ValuesInv
<1>2. Publishable(m, r) /\ pc[r] # "idle"
  <2>1. CASE late'[r] = late[r]
    BY <2>1 DEF RecordsInv, RecordsOf
  <2>2. CASE At(r, "manifest") /\ late'[r] = [op |-> "manifest", manifest |-> NextOf(job[r])]
    <3>1. m = NextOf(job[r])
      BY <2>2
    <3>2. pc[r] # "idle"
      BY <2>2, AtWork DEF At
    <3>3. QED
      BY <2>2, <3>1, <3>2, NextPublishable
  <2>3. PutShard(job[r]).op = "shard"
    BY DEF PutShard
  <2>4. QED
    BY <2>1, <2>2, <2>3, LateCourse
<1>3. started'[r] = started[r]
  BY <1>2, ClockKept
<1>4. QED
  BY <1>1, <1>2, <1>3, PublishableStays

LEMMA RecordsMove ==
    ASSUME ValuesInv, StoreInv, LockTypeOK, DatesInv, RecordsInv, None \notin Manifests,
           NEW r \in Run, Moves(r)
    PROVE  RecordsInv'
<1>1. OthersRest(r) /\ (TakenOver => TakenOver')
  BY MovesAlone, TakenOverStays DEF ValuesInv
<1>2. Recorded(manifest')
  <2>1. CASE Publishes(r)
    BY <2>1, NextPublishable DEF Publishes, Publishable
  <2>2. CASE PublishesLate(r)
    BY <2>2 DEF PublishesLate, RecordsInv, RecordsOf, Publishable
  <2>3. CASE manifest' = manifest
    BY <2>3 DEF RecordsInv
  <2>4. QED
    BY <2>1, <2>2, <2>3, ManifestCourse
<1>3. RecordsOf(r)'
  <2>1. Carrying(r)'
    BY CarryingMove
  <2>2. late'[r] # None => pc'[r] # "idle"
    <3>1. CASE LateRequest(r)
      BY <3>1 DEF LateRequest, ValuesInv
    <3>2. QED
      BY <3>1, IdleIsOver
  <2>3. ASSUME late'[r] # None, late'[r].op = "manifest"
        PROVE  Publishable(late[r].manifest, r)'
    <3>1. PICK m : m = late'[r].manifest
      OBVIOUS
    <3>2. Publishable(m, r)'
      BY <2>3, <3>1, LateRecords
    <3>3. QED
      BY <3>1, <3>2 DEF Publishable, Recorded, FitForHandover
  <2>4. QED
    BY <2>1, <2>2, <2>3 DEF RecordsOf
<1>4. ASSUME NEW q \in Run \ {r} PROVE RecordsOf(q)'
  <2>1. job'[q] = job[q] /\ pc'[q] = pc[q] /\ late'[q] = late[q] /\ RecordsOf(q)
    BY <1>1 DEF OthersRest, RecordsInv
  <2>2. started'[q] = started[q] /\ source' = source
    BY <1>1, ClockKept DEF OthersRest
  <2>3. Carrying(q)'
    BY <1>1, <2>1, <2>2
    DEF RecordsOf, Carrying, FitForHandover, FreshForHandover, Today
  <2>4. ASSUME late'[q] # None, late'[q].op = "manifest"
        PROVE  Publishable(late[q].manifest, q)'
    <3>1. PICK m : m = late[q].manifest
      OBVIOUS
    <3>2. Publishable(m, q)
      BY <2>1, <2>4, <3>1 DEF RecordsOf
    <3>3. Publishable(m, q)'
      BY <1>1, <2>2, <3>2, PublishableStays
    <3>4. QED
      BY <2>1, <3>1, <3>3 DEF Publishable, Recorded, FitForHandover
  <2>5. QED
    BY <2>1, <2>3, <2>4 DEF RecordsOf
<1>5. QED
  BY <1>2, <1>3, <1>4 DEF RecordsInv

(* New rows only raise the bounds of the source.                           *)
LEMMA IndexRecords ==
    ASSUME ValuesInv, RecordsInv, Index
    PROVE  RecordsInv'
<1>1. UNCHANGED <<clock, lock, pc, started, seen, faults, deployed, bucket, manifest, job, late>>
  BY DEF Index, lockVars, storeVars
<1>2. /\ source.progress.all <= source'.progress.all
      /\ source.progress.all \in Int /\ source'.progress.all \in Int
  <2>1. PICK p \in Progress : p.all >= source.progress.all /\ source'.progress = p
    BY DEF Index
  <2>2. p.all \in Int /\ source.progress.all \in Int
    BY DaysInt DEF ValuesInv, Progress
  <2>3. QED
    BY <2>1, <2>2
<1>3. ASSUME NEW q \in Run, NEW d \in Day, FitForHandover(d, q) PROVE FitForHandover(d, q)'
  <2>1. d <= source'.progress.all
    BY <1>2, <1>3, DaysInt DEF FitForHandover
  <2>2. FreshForHandover(d, Today(q))'
    BY <1>1, <1>3 DEF FitForHandover, FreshForHandover, Today
  <2>3. QED
    BY <2>1, <2>2 DEF FitForHandover
<1>4. ASSUME NEW q \in Run PROVE RecordsOf(q)'
  <2>1. RecordsOf(q) /\ JobValues(job[q]) /\ (late[q] # None => RequestValues(late[q]))
    BY DEF RecordsInv, ValuesInv
  <2>2. Carrying(q)'
    <3>1. PICK d : d = job[q].bounds
      OBVIOUS
    <3>2. job[q].stage \in {"rows", "shards", "manifest"} => d \in Day
      BY <2>1, <3>1 DEF JobValues
    <3>3. Carrying(q) /\ (TakenOver => TakenOver')
      BY <1>1, <2>1 DEF RecordsOf, TakenOver
    <3>4. ASSUME d \in Day, FitForHandover(job[q].bounds, q)
          PROVE  FitForHandover(job[q].bounds, q)'
      <4>1. FitForHandover(d, q)'
        BY <1>3, <3>1, <3>4
      <4>2. QED
        BY <1>1, <3>1, <4>1 DEF FitForHandover
    <3>5. QED
      BY <1>1, <3>2, <3>3, <3>4 DEF Carrying
  <2>3. ASSUME late'[q] # None, late'[q].op = "manifest"
        PROVE  Publishable(late[q].manifest, q)'
    <3>1. PICK m : m = late[q].manifest
      OBVIOUS
    <3>2. Publishable(m, q) /\ m.latest \in Day
      BY <1>1, <2>1, <2>3, <3>1 DEF RecordsOf, RequestValues, IsManifest
    <3>3. Publishable(m, q)'
      <4>1. FitForHandover(m.latest, q) => FitForHandover(m.latest, q)'
        BY <1>3, <3>2
      <4>2. QED
        BY <1>1, <3>2, <4>1 DEF Publishable, Recorded, TakenOver
    <3>4. QED
      BY <1>1, <3>1, <3>3 DEF Publishable, Recorded, FitForHandover
  <2>4. QED
    BY <1>1, <2>1, <2>2, <2>3 DEF RecordsOf
<1>5. QED
  BY <1>1, <1>4 DEF RecordsInv, Recorded
(* A deployment starts when the runs of the previous one have ended and    *)
(* none of their requests is under way.                                    *)
LEMMA RedeployRests ==
    ASSUME ValuesInv, RedeployWhenIdle, NEW d \in Deployment, Redeploy(d), NEW r \in Run
    PROVE  /\ UNCHANGED <<lockVars, storeVars, job, late>>
           /\ job[r].stage = "idle" /\ late[r] = None
<1>1. Idle /\ UNCHANGED <<lockVars, storeVars, job, late>>
  BY DEF Redeploy
<1>2. pc[r] \notin Live /\ late[r] = None
  BY <1>1 DEF Idle
<1>3. QED
  BY <1>1, <1>2, AtWork

LEMMA RecordsInvStep ==
    ASSUME ValuesInv, StoreInv, LockTypeOK, DatesInv, RecordsInv, None \notin Manifests,
           RedeployWhenIdle, ~RestartAllowed, [Next]_vars
    PROVE  RecordsInv'
<1>1. ASSUME NEW r \in Run, Moves(r) PROVE RecordsInv'
  BY <1>1, RecordsMove
<1>2. CASE Index
  BY <1>2, IndexRecords
<1>3. ASSUME NEW d \in Deployment, Redeploy(d) PROVE RecordsInv'
  <2>1. ASSUME NEW r \in Run
        PROVE  /\ UNCHANGED <<lockVars, storeVars, job, late>>
               /\ job[r].stage = "idle" /\ late[r] = None
    BY <1>3, RedeployRests
  <2>2. UNCHANGED storeVars
    BY <1>3 DEF Redeploy
  <2>3. QED
    BY <2>1, <2>2 DEF RecordsInv, RecordsOf, Carrying, storeVars, Recorded
<1>4. CASE Time \/ UNCHANGED vars
  <2>1. UNCHANGED <<pc, started, source, deployed, manifest, job, late>>
    BY <1>4 DEF Time, Tick, vars, lockVars, pubVars
  <2>2. ASSUME NEW q \in Run PROVE RecordsOf(q)'
    BY <2>1
    DEF RecordsInv, RecordsOf, Carrying, Publishable, Recorded, TakenOver,
        FitForHandover, FreshForHandover, Today
  <2>3. QED
    BY <2>1, <2>2 DEF RecordsInv, Recorded
<1>5. ~Restart
  BY DEF Restart
<1>6. QED
  BY <1>1, <1>2, <1>3, <1>4, <1>5 DEF Next, Moves

LEMMA RecordsInvInit == Init => RecordsInv
<1> SUFFICES ASSUME Init PROVE RecordsInv
  OBVIOUS
<1>1. PICK p \in InitialProgress :
          \/ manifest = None
          \/ /\ p.cross >= PublicStart
             /\ \E e \in {deployed, Stable} : PublishedUpTo(e, p.cross)
  BY DEF Init
<1>2. Recorded(manifest)
  <2>1. CASE manifest = None
    BY <2>1 DEF Recorded
  <2>2. ASSUME p.cross >= PublicStart,
               NEW e \in {deployed, Stable}, PublishedUpTo(e, p.cross)
        PROVE  Recorded(manifest)
    <3> DEFINE f == CompleteShards(e, p.cross)
    <3>1. /\ manifest.deployment = e /\ manifest.earliest = PublicStart
          /\ manifest.latest = p.cross /\ manifest.artifacts = f
      <4>1. manifest = [deployment |-> e, earliest |-> PublicStart,
                        latest |-> p.cross, artifacts |-> CompleteShards(e, p.cross)]
        BY <2>2 DEF PublishedUpTo
      <4> HIDE DEF f
      <4>2. QED
        BY <4>1 DEF f
    <3>2. p.cross \in Day
      BY PublisherAssumption
    <3>3. ASSUME NEW d \in PublicStart .. p.cross
          PROVE  d \in f[Key(e, "metrics", MonthOf[d])].days
      <4> DEFINE k == Key(e, "metrics", MonthOf[d])
      <4>1. d \in Day /\ PublicStart <= d /\ d <= p.cross
        BY <3>2, DayFacts, DaysBetween
      <4>2. MonthOf[PublicStart] <= MonthOf[d] /\ MonthOf[d] <= MonthOf[p.cross]
        BY <3>2, <4>1, DayFacts, MonthsOrdered
      <4>3. MonthOf[d] \in MonthKeys(PublicStart, p.cross)
        BY <3>2, <4>1, <4>2, DayFacts, MonthsNat DEF MonthKeys
      <4>4. k \in {Key(e, kind, month) :
                      kind \in Kind, month \in MonthKeys(PublicStart, p.cross)}
        BY <4>3, PublisherAssumption
      <4>5. k[3] = MonthOf[d]
        BY DEF Key
      <4> HIDE DEF k
      <4>6. f[k].days = DaysOf(MonthOf[d]) \cap (PublicStart .. p.cross)
        BY <4>4, <4>5 DEF CompleteShards
      <4>7. QED
        BY <4>1, <4>6 DEF DaysOf, k
    <3> HIDE DEF f
    <3>4. QED
      BY <3>1, <3>3 DEF Recorded
  <2>3. QED
    BY <1>1, <2>1, <2>2
<1>3. ASSUME NEW r \in Run PROVE job[r].stage = "idle" /\ late[r] = None
  BY DEF Init, NoJob
<1>4. QED
  BY <1>2, <1>3 DEF RecordsInv, RecordsOf, Carrying

(* While the source only moves forward under a deployment, and a new one   *)
(* waits for the runs of the previous one, what every run is about to      *)
(* publish records each day it announces, and a run that found no shards   *)
(* of its deployment publishes fit days or finds the manifest taken over.  *)
THEOREM RecordsInvariant ==
    ASSUME Unwindowed, RedeployWhenIdle, ~RestartAllowed, None \notin Manifests
    PROVE  Spec => []RecordsInv
<1>1. ValuesInv /\ StoreInv /\ LockTypeOK /\ DatesInv /\ RecordsInv /\ [Next]_vars
        => RecordsInv'
  BY RecordsInvStep
<1>2. QED
  BY <1>1, RecordsInvInit, ValuesInvariant, StoreInvariant, DatesInvariant, PTL DEF Spec

(* fetchBounds and the test for missing days keep the promise of the       *)
(* manifest: the shards it records hold a metrics row for every day from   *)
(* the first public day to the latest one announced, with any number of    *)
(* runs, on any calendar, whatever fails or arrives late.                  *)
THEOREM AnnouncedDaysAlwaysRecorded ==
    ASSUME Unwindowed, RedeployWhenIdle, ~RestartAllowed, None \notin Manifests
    PROVE  Spec => []AnnouncedDaysRecorded
<1>1. RecordsInv => AnnouncedDaysRecorded
  BY DEF RecordsInv, Recorded, AnnouncedDaysRecorded, MetricsKey
<1>2. QED
  BY <1>1, RecordsInvariant, PTL
LEMMA HandoverStep ==
    ASSUME ValuesInv, StoreInv, LockTypeOK, DatesInv, RecordsInv, None \notin Manifests,
           [Next]_vars
    PROVE  [HandoverComplete]_manifest
<1> SUFFICES ASSUME manifest' # manifest, manifest' # None,
                    manifest # None => manifest.deployment # manifest'.deployment
             PROVE  /\ manifest'.latest <= source.progress.all
                    /\ \E r \in Run : /\ pc[r] = "critical" \/ late'[r] # late[r]
                                      /\ FreshForHandover(manifest'.latest, Today(r))
  BY DEF HandoverComplete
<1>1. PICK r \in Run : Moves(r)
  BY DEF Next, Moves, Time, Index, Redeploy, Restart, vars, pubVars, storeVars
<1>2. Publishable(manifest', r) /\ manifest'.deployment = deployed
  <2>1. CASE Publishes(r)
    <3>1. Publishable(NextOf(job[r]), r)
      BY <2>1, NextPublishable DEF Publishes
    <3>2. NextOf(job[r]).deployment = deployed
      BY <2>1, NextParts DEF Publishes, StoreInv, Control, At
    <3>3. QED
      BY <2>1, <3>1, <3>2 DEF Publishes
  <2>2. CASE PublishesLate(r)
    BY <2>2 DEF PublishesLate, RecordsInv, RecordsOf, StoreInv, Pending
  <2>3. QED
    BY <1>1, <2>1, <2>2, ManifestCourse
<1>3. FitForHandover(manifest'.latest, r)
  BY <1>2 DEF Publishable, TakenOver
<1>4. pc[r] = "critical" \/ late'[r] # late[r]
  BY <1>1, ManifestCourse DEF Publishes, PublishesLate
<1>5. QED
  BY <1>3, <1>4 DEF FitForHandover

(* isFreshForDeploymentHandover, tested once by a run on bounds it reads   *)
(* before its rows: whenever the manifest passes to a deployment, every    *)
(* day it then announces is indexed on all chains, and the last of them is *)
(* at most a day behind the clock of the run that publishes it, however    *)
(* late its request arrives.                                               *)
THEOREM HandoverAlwaysComplete ==
    ASSUME Unwindowed, RedeployWhenIdle, ~RestartAllowed, None \notin Manifests
    PROVE  Spec => HandoverOnlyWhenComplete
<1>1. ValuesInv /\ StoreInv /\ LockTypeOK /\ DatesInv /\ RecordsInv /\ [Next]_vars
        => [HandoverComplete]_manifest
  BY HandoverStep
<1>2. QED
  BY <1>1, RecordsInvariant, ValuesInvariant, StoreInvariant, DatesInvariant, PTL
  DEF Spec, HandoverOnlyWhenComplete

-----------------------------------------------------------------------------
(* The clean-up.                                                           *)

(* New shards are those of the current deployment.                         *)
LEMMA OwnShards ==
    ASSUME ValuesInv, StoreInv, CleanUpInv, NEW r \in Run, Moves(r),
           NEW k \in DOMAIN bucket', k[1] # deployed
    PROVE  k \in DOMAIN bucket
<1>1. ASSUME NEW request, Perform(request),
             request.op = "shard" => request.key[1] = deployed
      PROVE  k \in DOMAIN bucket
  BY <1>1 DEF Perform, Restrict
<1>2. CASE WriteShard(r)
  <2>1. Perform(PutShard(job[r])) /\ job[r].deployment = deployed
    BY <1>2 DEF WriteShard, StoreInv, Control, At
  <2>2. PutShard(job[r]).key[1] = deployed
    BY <2>1 DEF PutShard, ShardKey, Key
  <2>3. QED
    BY <1>1, <2>1, <2>2
<1>3. CASE WriteManifest(r)
  BY <1>1, <1>3 DEF WriteManifest, PutManifest
<1>4. CASE DeleteStale(r)
  <2>1. PICK x \in job[r].stale : Perform(DeleteShard(x))
    BY <1>4 DEF DeleteStale
  <2>2. QED
    BY <1>1, <2>1 DEF DeleteShard
<1>5. CASE LateRequest(r)
  <2>1. Perform(late[r]) \/ UNCHANGED storeVars
    BY <1>5 DEF LateRequest
  <2>2. late[r].op = "shard" => late[r].key[1] = deployed
    BY <1>5 DEF LateRequest, CleanUpInv, OwnLate
  <2>3. QED
    BY <1>1, <2>1, <2>2 DEF storeVars
<1>6. CASE ~(WriteShard(r) \/ WriteManifest(r) \/ DeleteStale(r) \/ LateRequest(r))
  BY <1>6
  DEF Moves, BeginRun, RunStep, RunFault, ReadManifest, TakeLock, FetchBounds,
      FetchRows, AcceptRows, ListStale, Unlock, RequestThrows, RunDies,
      LockWriteRepeated, LateLockRequest, pubVars, storeVars
<1>7. QED
  BY <1>2, <1>3, <1>4, <1>5, <1>6

(* The clean-up lists all stale shards and drops one when it deletes it.   *)
Lists(r) ==
    /\ job'[r].stale = StaleKeys(job[r].deployment)
    /\ At(r, "list")
    /\ bucket' = bucket

Deletes(r) ==
    \E k \in job[r].stale :
        /\ At(r, "clean")
        /\ job'[r].stale = job[r].stale \ {k}
        /\ bucket' = Restrict(bucket, DOMAIN bucket \ {k})

LEMMA CleanCourse ==
    ASSUME ValuesInv, LockTypeOK, NEW r \in Run, Moves(r), job'[r].stage = "clean"
    PROVE  Lists(r) \/ Deletes(r) \/ job'[r] = job[r]
<1>1. ASSUME NEW j, Step(r, j) PROVE job'[r] = j
  BY <1>1, StepMoves DEF ValuesInv
<1>2. CASE BeginRun(r)
  BY <1>1, <1>2 DEF BeginRun
<1>3. CASE ReadManifest(r)
  BY <1>1, <1>3 DEF ReadManifest
<1>4. CASE TakeLock(r) \/ LockWriteRepeated(r)
  <2>1. job'[r] = AfterAcquire(r) /\ job[r].stage = "lock"
    BY <1>1, <1>4 DEF TakeLock, LockWriteRepeated, At
  <2>2. job[r] = [stage |-> "lock", deployment |-> job[r].deployment,
                  window |-> job[r].window, base |-> job[r].base]
    BY <2>1 DEF ValuesInv, JobValues, JobShape, NoJob
  <2>3. [job[r] EXCEPT !.stage = "bounds"].stage = "bounds"
    BY <2>2
  <2>4. QED
    BY <2>1, <2>3 DEF AfterAcquire, NoJob
<1>5. CASE Return(r)
  BY <1>1, <1>5 DEF Return, NoJob
<1>6. CASE FetchBounds(r) /\ ~Return(r)
  BY <1>1, <1>6 DEF FetchBounds
<1>7. ASSUME NEW k \in Kind, FetchRows(r, k) PROVE FALSE
  <2>1. job[r].stage = "rows" /\ JobShape(job[r])
    BY <1>7 DEF FetchRows, At, ValuesInv, JobValues
  <2>2. job'[r].stage = "rows"
    <3>1. job[r] = [stage |-> "rows", deployment |-> job[r].deployment,
                    base |-> job[r].base, bounds |-> job[r].bounds,
                    range |-> job[r].range, rows |-> job[r].rows]
      BY <2>1 DEF JobShape, NoJob
    <3> DEFINE rows == [job[r].rows EXCEPT ![k] =
                    [days |-> IndexedRows(job[r].range), version |-> source.version]]
    <3>2. job'[r] = [job[r] EXCEPT !.rows = rows]
      BY <1>1, <1>7 DEF FetchRows
    <3> HIDE DEF rows
    <3>3. QED
      BY <3>1, <3>2
  <2>3. QED
    BY <2>2
<1>8. CASE AcceptRows(r) /\ ~Return(r)
  BY <1>1, <1>8 DEF AcceptRows
<1>9. CASE WriteShard(r)
  <2>1. /\ \/ job'[r] = [job[r] EXCEPT !.next = PlaceAfter(job[r].next)]
           \/ job'[r] = [job[r] EXCEPT !.stage = "manifest"]
        /\ job[r].stage = "shards"
    BY <1>1, <1>9 DEF WriteShard, At
  <2>2. job[r] = [stage |-> "shards", deployment |-> job[r].deployment,
                  base |-> job[r].base, bounds |-> job[r].bounds,
                  range |-> job[r].range, rows |-> job[r].rows, next |-> job[r].next]
    BY <2>1 DEF ValuesInv, JobValues, JobShape, NoJob
  <2>3. QED
    BY <2>1, <2>2
<1>10. CASE WriteManifest(r)
  BY <1>1, <1>10 DEF WriteManifest
<1>11. CASE ListStale(r) /\ ~Return(r)
  BY <1>1, <1>11 DEF ListStale, Lists, storeVars
<1>12. CASE DeleteStale(r) /\ ~Return(r)
  <2>1. PICK k \in job[r].stale : /\ job'[r] = [job[r] EXCEPT !.stale = job[r].stale \ {k}]
                                  /\ Perform(DeleteShard(k))
                                  /\ At(r, "clean")
    BY <1>1, <1>12 DEF DeleteStale
  <2>2. job[r] = [stage |-> "clean", deployment |-> job[r].deployment,
                  stale |-> job[r].stale]
    BY <2>1 DEF ValuesInv, JobValues, JobShape, NoJob, At
  <2>3. job'[r].stale = job[r].stale \ {k}
    BY <2>1, <2>2
  <2>4. bucket' = Restrict(bucket, DOMAIN bucket \ {k})
    BY <2>1 DEF Perform, DeleteShard
  <2>5. QED
    BY <2>1, <2>3, <2>4 DEF Deletes
<1>13. CASE Unlock(r) \/ LateLockRequest(r) \/ LateRequest(r)
  BY <1>13 DEF Unlock, LateLockRequest, LateRequest, pubVars
<1>14. CASE RequestThrows(r) \/ RunDies(r)
  BY <1>1, <1>14 DEF RequestThrows, RunDies, NoJob
<1>15. QED
  BY <1>2, <1>3, <1>4, <1>5, <1>6, <1>7, <1>8, <1>9, <1>10, <1>11, <1>12, <1>13, <1>14
  DEF Moves, RunStep, RunFault
LEMMA CleanUpMove ==
    ASSUME ValuesInv, StoreInv, LockTypeOK, CleanUpInv, NEW r \in Run, Moves(r)
    PROVE  CleanUpInv'
<1>1. OthersRest(r)
  BY MovesAlone DEF ValuesInv
<1>2. ASSUME NEW k \in DOMAIN bucket', k[1] # deployed PROVE k \in DOMAIN bucket
  BY <1>2, OwnShards
<1>3. \A q \in Run : KnowsStale(q) /\ OwnLate(q)
  BY DEF CleanUpInv
<1>4. ASSUME NEW q \in Run, job'[q] = job[q] PROVE KnowsStale(q)'
  BY <1>1, <1>2, <1>3, <1>4 DEF KnowsStale, At, OthersRest
<1>5. KnowsStale(r)'
  <2> SUFFICES ASSUME job'[r].stage = "clean",
                      NEW k \in DOMAIN bucket', k[1] \notin {deployed, Stable}
               PROVE  k \in job'[r].stale
    BY <1>1 DEF KnowsStale, At, OthersRest
  <2>1. k \in DOMAIN bucket
    BY <1>2
  <2>2. CASE Lists(r)
    <3>1. job[r].deployment = deployed
      BY <2>2 DEF Lists, StoreInv, Control, At
    <3>2. QED
      BY <2>1, <2>2, <3>1 DEF Lists, StaleKeys
  <2>3. CASE Deletes(r)
    <3>1. PICK x \in job[r].stale :
              /\ At(r, "clean")
              /\ job'[r].stale = job[r].stale \ {x}
              /\ bucket' = Restrict(bucket, DOMAIN bucket \ {x})
      BY <2>3 DEF Deletes
    <3>2. k # x
      BY <3>1 DEF Restrict
    <3>3. k \in job[r].stale
      BY <1>3, <2>1, <3>1 DEF KnowsStale
    <3>4. QED
      BY <3>1, <3>2, <3>3
  <2>4. CASE job'[r] = job[r]
    BY <1>3, <2>1, <2>4 DEF KnowsStale, At
  <2>5. QED
    BY <2>2, <2>3, <2>4, CleanCourse
<1>6. OwnLate(r)'
  <2> SUFFICES ASSUME late'[r] # None, late'[r].op = "shard"
               PROVE  late'[r].key[1] = deployed
    BY <1>1 DEF OwnLate, OthersRest
  <2>1. CASE late'[r] = late[r]
    BY <1>3, <2>1 DEF OwnLate
  <2>2. CASE At(r, "shards") /\ late'[r] = PutShard(job[r])
    <3>1. job[r].deployment = deployed
      BY <2>2 DEF StoreInv, Control, At
    <3>2. PutShard(job[r]).key[1] = deployed
      BY <3>1 DEF PutShard, ShardKey, Key
    <3>3. QED
      BY <2>2, <3>2
  <2>3. late'[r] # [op |-> "manifest", manifest |-> NextOf(job[r])]
    <3>1. [op |-> "manifest", manifest |-> NextOf(job[r])].op = "manifest"
      OBVIOUS
    <3>2. QED
      BY <3>1
  <2>4. late'[r].op # "delete"
    OBVIOUS
  <2>5. QED
    BY <2>1, <2>2, <2>3, <2>4, LateCourse
<1>7. ASSUME NEW q \in Run \ {r} PROVE (KnowsStale(q) /\ OwnLate(q))'
  <2>1. job'[q] = job[q] /\ late'[q] = late[q] /\ deployed' = deployed
    BY <1>1 DEF OthersRest
  <2>2. OwnLate(q)'
    BY <1>3, <2>1 DEF OwnLate
  <2>3. QED
    BY <1>4, <2>1, <2>2
<1>8. QED
  BY <1>5, <1>6, <1>7 DEF CleanUpInv

LEMMA CleanUpInvStep ==
    ASSUME ValuesInv, StoreInv, LockTypeOK, CleanUpInv, RedeployWhenIdle, [Next]_vars
    PROVE  CleanUpInv'
<1>1. ASSUME NEW r \in Run, Moves(r) PROVE CleanUpInv'
  BY <1>1, CleanUpMove
<1>2. ASSUME NEW d \in Deployment, Redeploy(d) PROVE CleanUpInv'
  <2>1. ASSUME NEW r \in Run
        PROVE  UNCHANGED <<job, late>> /\ job[r].stage = "idle" /\ late[r] = None
    BY <1>2, RedeployRests
  <2>2. QED
    BY <2>1 DEF CleanUpInv, KnowsStale, OwnLate, At
<1>3. CASE Time \/ Index \/ Restart \/ UNCHANGED vars
  <2>1. UNCHANGED <<deployed, bucket, job, late>>
    BY <1>3 DEF Time, Index, Restart, vars, pubVars, storeVars
  <2>2. QED
    BY <2>1 DEF CleanUpInv, KnowsStale, OwnLate, At
<1>4. QED
  BY <1>1, <1>2, <1>3 DEF Next, Moves

LEMMA CleanUpInvInit == Init => CleanUpInv
<1> SUFFICES ASSUME Init PROVE CleanUpInv
  OBVIOUS
<1>1. ASSUME NEW r \in Run PROVE job[r].stage = "idle" /\ late[r] = None
  BY DEF Init, NoJob
<1>2. QED
  BY <1>1 DEF CleanUpInv, KnowsStale, OwnLate, At

(* A run that leaves the clean-up without a fault had nothing to delete,   *)
(* or deletes the last stale shard.                                        *)
LEMMA CleanUpEnds ==
    ASSUME LockTypeOK, ValuesInv, NEW r \in Run, Moves(r),
           At(r, "list") \/ At(r, "clean"),
           pc[r] = "critical", pc'[r] = "releasing", faults' = faults
    PROVE  \/ /\ At(r, "list") /\ StaleKeys(job[r].deployment) = {}
              /\ bucket' = bucket
           \/ /\ At(r, "clean")
              /\ \E k : /\ job[r].stale = {k}
                        /\ bucket' = Restrict(bucket, DOMAIN bucket \ {k})
<1>1. CASE ListStale(r)
  BY <1>1 DEF ListStale, lockVars, storeVars
<1>2. CASE DeleteStale(r)
  BY <1>2 DEF DeleteStale, Perform, DeleteShard, lockVars
<1>3. CASE RequestThrows(r) \/ RunDies(r)
  <2>1. faults \in Nat /\ faults' = faults + 1
    BY <1>3 DEF RequestThrows, Throw, RunDies, Abort, LockTypeOK
  <2>2. QED
    BY <2>1
<1>4. CASE BeginRun(r)
  BY <1>4 DEF BeginRun, Start
<1>5. CASE ReadManifest(r) \/ TakeLock(r) \/ LockWriteRepeated(r)
  BY <1>5 DEF ReadManifest, TakeLock, LockWriteRepeated, At
<1>6. CASE FetchBounds(r) \/ (\E k \in Kind : FetchRows(r, k)) \/ AcceptRows(r)
             \/ WriteShard(r) \/ WriteManifest(r)
  BY <1>6 DEF FetchBounds, FetchRows, AcceptRows, WriteShard, WriteManifest, At
<1>7. CASE Unlock(r)
  BY <1>7 DEF Unlock, Release, ReleaseRead, ReleaseDelete
<1>8. CASE LateLockRequest(r)
  BY <1>8 DEF LateLockRequest, Land, Lose, Late
<1>9. CASE LateRequest(r)
  BY <1>9 DEF LateRequest, lockVars
<1>10. QED
  BY <1>1, <1>2, <1>3, <1>4, <1>5, <1>6, <1>7, <1>8, <1>9 DEF Moves, RunStep, RunFault

LEMMA CleanUpStep ==
    ASSUME ValuesInv, StoreInv, LockTypeOK, CleanUpInv, [Next]_vars
    PROVE  [CleanedUp]_vars
<1> SUFFICES ASSUME NEW r \in Run, At(r, "list") \/ At(r, "clean"),
                    pc[r] = "critical", pc'[r] = "releasing", faults' = faults,
                    NEW k \in DOMAIN bucket'
             PROVE  k[1] \in {job[r].deployment, Stable}
  BY DEF CleanedUp
<1>1. Moves(r)
  <2>1. PICK q \in Run : Moves(q)
    BY DEF Next, Moves, Time, Tick, Index, Redeploy, Restart, vars, lockVars
  <2>2. q = r
    BY <2>1, MovesAlone DEF OthersRest, ValuesInv
  <2>3. QED
    BY <2>1, <2>2
<1>2. job[r].deployment = deployed
  BY DEF StoreInv, Control, At
<1>3. CASE At(r, "list") /\ StaleKeys(job[r].deployment) = {} /\ bucket' = bucket
  BY <1>3 DEF StaleKeys
<1>4. CASE /\ At(r, "clean")
           /\ \E x : /\ job[r].stale = {x}
                     /\ bucket' = Restrict(bucket, DOMAIN bucket \ {x})
  <2>1. PICK x : /\ job[r].stale = {x}
                 /\ bucket' = Restrict(bucket, DOMAIN bucket \ {x})
    BY <1>4
  <2>2. k # x /\ k \in DOMAIN bucket
    BY <2>1 DEF Restrict
  <2>3. QED
    BY <1>2, <1>4, <2>1, <2>2 DEF CleanUpInv, KnowsStale
<1>5. QED
  BY <1>1, <1>3, <1>4, CleanUpEnds

(* cleanupHistoricalDeploymentArtifacts lists once and deletes one by one, *)
(* while late writes of other runs land: when a run returns from it, every *)
(* shard in the bucket is one of its own deployment.                       *)
THEOREM CleanUpAlwaysComplete ==
    ASSUME RedeployWhenIdle PROVE Spec => CleanUpComplete
<1>1. ValuesInv /\ StoreInv /\ LockTypeOK /\ CleanUpInv /\ [Next]_vars => CleanUpInv'
  BY CleanUpInvStep
<1>2. ValuesInv /\ StoreInv /\ LockTypeOK /\ CleanUpInv /\ [Next]_vars => [CleanedUp]_vars
  BY CleanUpStep
<1>3. QED
  BY <1>1, <1>2, CleanUpInvInit, ValuesInvariant, StoreInvariant, PTL
  DEF Spec, CleanUpComplete
=============================================================================
