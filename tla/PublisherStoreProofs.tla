-------------------------- MODULE PublisherStoreProofs --------------------------
(***************************************************************************)
(* What a reader of the store may rely on while runs of the publisher come *)
(* one after the other, for every calendar, every set of runs and every    *)
(* bound: announced dates do not move back, announced days stay, and the   *)
(* publisher implements PublishedArtifacts.                                *)
(***************************************************************************)
EXTENDS PublisherDatesProofs, PublisherStore

-----------------------------------------------------------------------------
(* Latest dates.                                                           *)

LEMMA AloneWhileLocksLast == OverlapNeedsExpiry /\ LocksLast => OneAtATime
  BY DEF OverlapNeedsExpiry, LocksLast, OneAtATime

(* The stages in which a run has bounds.                                   *)
Publishing == {"rows", "shards", "manifest"}

(* The latest date of the next manifest.                                   *)
LEMMA NextLatestIsBounds ==
    ASSUME ValuesInv, DatesInv, NEW r \in Run, At(r, "manifest")
    PROVE  /\ NextOf(job[r]).latest = job[r].bounds
           /\ NextOf(job[r]).deployment = job[r].deployment
<1>1. Dated(job[r]) /\ job[r].stage = "manifest"
  BY DEF DatesInv, At
<1>2. Covering(job[r].base) /\ Joining(job[r])
  BY <1>1 DEF Dated
<1>3. QED
  BY <1>1, <1>2, NextParts, NextDates

(* A manifest left behind is the one its run was publishing.               *)
LEMMA NewLateManifest ==
    ASSUME ValuesInv, NEW r \in Run, Moves(r),
           late'[r] # None, late'[r] # late[r], late'[r].op = "manifest"
    PROVE  At(r, "manifest") /\ late'[r].manifest = NextOf(job[r])
<1>1. PutShard(job[r]).op = "shard"
  BY DEF PutShard
<1>2. [op |-> "manifest", manifest |-> NextOf(job[r])].manifest = NextOf(job[r])
  OBVIOUS
<1>3. QED
  BY <1>1, <1>2, LateCourse

(* A step of another run leaves the manifest alone, unless it is one of    *)
(* its late requests.                                                      *)
LEMMA OtherManifests ==
    ASSUME ValuesInv, OneAtATime, NEW r \in Run, Moves(r),
           NEW q \in Run, job[q].stage \in Publishing, q # r
    PROVE  /\ manifest' = manifest \/ PublishesLate(r)
           /\ ~At(r, "manifest")
<1>1. pc[q] = "critical"
  BY DEF ValuesInv, Placed, Publishing, UnderLock
<1>2. pc[r] # "critical"
  BY <1>1 DEF OneAtATime
<1>3. ~At(r, "manifest")
  BY <1>2 DEF ValuesInv, Placed, At, UnderLock
<1>4. QED
  BY <1>3, ManifestCourse DEF Publishes

LEMMA ReachingStays ==
    ASSUME ValuesInv, StoreInv, LockTypeOK, DatesInv, RecordsInv, OneAtATime, ForwardInv,
           NEW r \in Run, Moves(r),
           NEW q \in Run, job[q].stage \in Publishing, job'[q].stage \in Publishing,
           SameWork(job[q], job'[q])
    PROVE  Reaching(q)'
<1> DEFINE j == job[q]
<1>1. OthersRest(r)
  BY MovesAlone DEF ValuesInv
<1>2. Reaching(q)
  BY DEF ForwardInv
<1>3. /\ j.bounds <= source.progress.cross /\ j.bounds \in Day
      /\ job'[q].bounds = j.bounds /\ job'[q].base = j.base
      /\ job'[q].deployment = j.deployment /\ source' = source
  BY <1>1, <1>2 DEF Reaching, Publishing, SameWork, SameBase, OthersRest, ValuesInv, JobValues
<1>9. j.bounds <= j.bounds
  <2>1. j.bounds \in Int
    BY <1>3, DaysInt
  <2>2. QED
    BY <2>1
<1>4. SUFFICES ASSUME HasPublished(j.base, j.deployment)
               PROVE  /\ manifest'.latest <= j.bounds
                      /\ \A p \in Run :
                            (late'[p] # None /\ late'[p].op = "manifest")
                                => late'[p].manifest.latest <= j.bounds
  BY <1>3 DEF Reaching
<1>5. /\ manifest.latest <= j.bounds
      /\ \A p \in Run :
            (late[p] # None /\ late[p].op = "manifest") => late[p].manifest.latest <= j.bounds
  BY <1>2, <1>4 DEF Reaching, Publishing
<1>6. manifest'.latest <= j.bounds
  <2>1. CASE Publishes(r)
    <3>1. q = r /\ At(r, "manifest")
      BY <2>1, OtherManifests DEF Publishes
    <3>2. manifest'.latest = j.bounds
      BY <2>1, <3>1, NextLatestIsBounds DEF Publishes
    <3>3. QED
      BY <1>9, <3>1, <3>2
  <2>2. CASE PublishesLate(r)
    BY <1>5, <2>2 DEF PublishesLate
  <2>3. CASE manifest' = manifest
    BY <1>5, <2>3
  <2>4. QED
    BY <2>1, <2>2, <2>3, ManifestCourse
<1>7. ASSUME NEW p \in Run, late'[p] # None, late'[p].op = "manifest"
      PROVE  late'[p].manifest.latest <= j.bounds
  <2>1. CASE late'[p] = late[p]
    BY <1>5, <1>7, <2>1
  <2>2. CASE p = r /\ late'[r] # late[r]
    <3>1. /\ At(r, "manifest")
          /\ late'[r].manifest = NextOf(job[r])
      BY <1>7, <2>2, NewLateManifest
    <3>2. q = r
      BY <3>1, OtherManifests
    <3>3. late'[p].manifest.latest = j.bounds
      BY <2>2, <3>1, <3>2, NextLatestIsBounds
    <3>4. QED
      BY <1>9, <3>3
  <2>3. QED
    BY <1>1, <2>1, <2>2 DEF OthersRest
<1>8. QED
  BY <1>6, <1>7

(* FetchBounds of a refresh asks the source for its latest days again.     *)
LEMMA BoundsReach ==
    ASSUME ValuesInv, StoreInv, LockTypeOK, RecordsInv, ForwardInv,
           NEW r \in Run, Moves(r), job[r].stage = "bounds", Bounded(r),
           SameBase(job[r], job'[r])
    PROVE  Reaching(r)'
<1> DEFINE j         == job[r]
           published == HasPublished(j.base, j.deployment)
<1>1. OthersRest(r) /\ source' = source
  BY MovesAlone DEF ValuesInv, OthersRest
<1>2. /\ job'[r].bounds = LatestComplete(published)
      /\ job'[r].base = j.base /\ job'[r].deployment = j.deployment
  BY DEF Bounded, SameBase
<1>3. job'[r].bounds <= source.progress.cross
  <2>1. /\ source.progress.all <= source.progress.cross
        /\ source.progress.cross <= source.progress.cross
    <3>1. source.progress.cross \in Int
      BY DaysInt DEF ValuesInv, Progress
    <3>2. QED
      BY <3>1 DEF ValuesInv, IsProgress
  <2>2. QED
    BY <1>2, <2>1 DEF LatestComplete
<1>4. SUFFICES ASSUME published
               PROVE  /\ manifest'.latest <= job'[r].bounds
                      /\ \A p \in Run :
                            (late'[p] # None /\ late'[p].op = "manifest")
                                => late'[p].manifest.latest <= job'[r].bounds
  BY <1>1, <1>2, <1>3 DEF Reaching
<1>5. job'[r].bounds = source.progress.cross
  BY <1>2, <1>4 DEF LatestComplete
<1>6. manifest.latest <= source.progress.cross
  <2>1. TakenOver
    BY <1>4 DEF RecordsInv, RecordsOf, Carrying
  <2>2. QED
    BY <2>1 DEF TakenOver, ForwardInv, Reached
<1>7. ASSUME NEW p \in Run, late[p] # None, late[p].op = "manifest"
      PROVE  late[p].manifest.latest <= source.progress.cross
  <2>1. late[p].manifest # None /\ late[p].manifest.deployment = deployed
    BY <1>7 DEF RecordsInv, RecordsOf, Publishable, StoreInv, Pending
  <2>2. QED
    BY <1>7, <2>1 DEF ForwardInv, Reached
<1>8. ~At(r, "manifest")
  BY DEF At
<1>9. manifest'.latest <= source.progress.cross
  BY <1>6, <1>7, <1>8, ManifestCourse DEF Publishes, PublishesLate
<1>10. ASSUME NEW p \in Run, late'[p] # None, late'[p].op = "manifest"
       PROVE  late'[p].manifest.latest <= source.progress.cross
  <2>1. late'[p] = late[p]
    BY <1>1, <1>8, <1>10, NewLateManifest DEF OthersRest
  <2>2. QED
    BY <1>7, <1>10, <2>1
<1>11. QED
  BY <1>5, <1>9, <1>10

LEMMA ForwardMove ==
    ASSUME ValuesInv, StoreInv, LockTypeOK, DatesInv, RecordsInv, OneAtATime, ForwardInv,
           NEW r \in Run, Moves(r)
    PROVE  ForwardInv'
<1>1. OthersRest(r) /\ source' = source /\ deployed' = deployed
  BY MovesAlone DEF ValuesInv, OthersRest
<1>2. At(r, "manifest") => NextOf(job[r]).latest <= source.progress.cross
  BY NextLatestIsBounds DEF ForwardInv, Reaching, At
<1>3. Reached(manifest)'
  <2>1. CASE Publishes(r)
    BY <1>1, <1>2, <2>1 DEF Publishes, Reached
  <2>2. CASE PublishesLate(r)
    BY <1>1, <2>2 DEF PublishesLate, Reached, ForwardInv
  <2>3. CASE manifest' = manifest
    BY <1>1, <2>3 DEF Reached, ForwardInv
  <2>4. QED
    BY <2>1, <2>2, <2>3, ManifestCourse
<1>4. ASSUME NEW q \in Run, late'[q] # None, late'[q].op = "manifest"
      PROVE  Reached(late[q].manifest)'
  <2>1. CASE late'[q] = late[q]
    BY <1>1, <1>4, <2>1 DEF Reached, ForwardInv
  <2>2. CASE q = r /\ late'[r] # late[r]
    BY <1>1, <1>2, <1>4, <2>2, NewLateManifest DEF Reached
  <2>3. QED
    BY <1>1, <2>1, <2>2 DEF OthersRest
<1>5. ASSUME NEW q \in Run PROVE Reaching(q)'
  <2>1. CASE job[q].stage \in Publishing /\ job'[q].stage \in Publishing
             /\ SameWork(job[q], job'[q])
    BY <2>1, ReachingStays
  <2>2. CASE job'[q].stage \notin Publishing
    BY <2>2 DEF Reaching, Publishing
  <2>3. CASE job'[q] = job[q]
    BY <2>1, <2>2, <2>3 DEF SameWork, SameBase
  <2>4. CASE q = r
    BY <2>1, <2>2, <2>3, <2>4, JobCourse, BoundsReach DEF Course, Publishing
  <2>5. QED
    BY <1>1, <2>3, <2>4 DEF OthersRest
<1>6. QED
  BY <1>3, <1>4, <1>5 DEF ForwardInv

LEMMA IndexForward ==
    ASSUME ValuesInv, ForwardInv, Index
    PROVE  ForwardInv'
<1>1. UNCHANGED <<deployed, manifest, job, late>>
  BY DEF Index, storeVars
<1>2. \A d \in Day : d <= source.progress.cross => d <= source'.progress.cross
  <2>1. PICK p \in Progress : p.cross >= source.progress.cross /\ source'.progress = p
    BY DEF Index
  <2>2. p.cross \in Int /\ source.progress.cross \in Int
    BY <2>1, DaysInt DEF ValuesInv, Progress
  <2>3. ASSUME NEW d \in Day, d <= source.progress.cross
        PROVE  d <= source'.progress.cross
    <3>1. d \in Int
      BY DaysInt
    <3>2. QED
      BY <2>1, <2>2, <2>3, <3>1
  <2>4. QED
    BY <2>3
<1>3. ASSUME NEW q \in Run PROVE Reaching(q)'
  <2>1. job[q].stage \in {"rows", "shards", "manifest"} => job[q].bounds \in Day
    BY DEF ValuesInv, JobValues
  <2>2. QED
    BY <1>1, <1>2, <2>1 DEF ForwardInv, Reaching
<1>4. Reached(manifest)'
  BY <1>1, <1>2 DEF ForwardInv, Reached, ValuesInv, IsManifest
<1>5. ASSUME NEW q \in Run, late[q] # None, late[q].op = "manifest"
      PROVE  Reached(late[q].manifest)'
  <2>1. late[q].manifest.latest \in Day
    BY <1>5 DEF ValuesInv, RequestValues, IsManifest
  <2>2. QED
    BY <1>1, <1>2, <1>5, <2>1 DEF ForwardInv, Reached
<1>6. QED
  BY <1>1, <1>3, <1>4, <1>5 DEF ForwardInv

LEMMA ForwardInvStep ==
    ASSUME ValuesInv, StoreInv, LockTypeOK, DatesInv, RecordsInv, OneAtATime, ForwardInv,
           RedeployWhenIdle, ~RestartAllowed, [Next]_vars, [IdIsNew]_vars
    PROVE  ForwardInv'
<1>1. ASSUME NEW r \in Run, Moves(r) PROVE ForwardInv'
  BY <1>1, ForwardMove
<1>2. CASE Index
  BY <1>2, IndexForward
<1>3. ASSUME NEW d \in Deployment, Redeploy(d) PROVE ForwardInv'
  <2>1. ASSUME NEW r \in Run
        PROVE  UNCHANGED <<job, late>> /\ job[r].stage = "idle" /\ late[r] = None
    BY <1>3, RedeployRests
  <2>2. manifest' = manifest /\ deployed' # deployed
    BY <1>3 DEF Redeploy, storeVars
  <2>3. manifest # None => manifest.deployment # deployed'
    BY <2>2 DEF IdIsNew, vars, pubVars
  <2>4. QED
    BY <2>1, <2>2, <2>3 DEF ForwardInv, Reached, Reaching
<1>4. CASE Time \/ UNCHANGED vars
  <2>1. UNCHANGED <<source, deployed, manifest, job, late>>
    BY <1>4 DEF Time, vars, pubVars
  <2>2. QED
    BY <2>1 DEF ForwardInv, Reached, Reaching
<1>5. ~Restart
  BY DEF Restart
<1>6. QED
  BY <1>1, <1>2, <1>3, <1>4, <1>5 DEF Next, Moves

LEMMA ForwardInvInit == Init => ForwardInv
<1> SUFFICES ASSUME Init PROVE ForwardInv
  OBVIOUS
<1>1. ASSUME NEW r \in Run PROVE job[r].stage = "idle" /\ late[r] = None
  BY <1>1 DEF Init, NoJob
<1>2. Reached(manifest)
  <2>1. PICK p \in InitialProgress :
            /\ source = [progress |-> p, version |-> 0]
            /\ \/ manifest = None
               \/ \E d \in {deployed, Stable} : PublishedUpTo(d, p.cross)
    BY DEF Init
  <2>2. ASSUME NEW d \in {deployed, Stable}, PublishedUpTo(d, p.cross)
        PROVE  Reached(manifest)
    <3>1. manifest.latest = p.cross
      BY <2>2 DEF PublishedUpTo
    <3>2. source.progress.cross = p.cross /\ p.cross \in Int
      BY <2>1, PublisherAssumption, DaysInt
    <3>3. QED
      BY <3>1, <3>2 DEF Reached
  <2>3. QED
    BY <2>1, <2>2 DEF Reached
<1>3. QED
  BY <1>1, <1>2 DEF ForwardInv, Reaching

(* The bounds of a refresh, and so the latest date it announces, reach at  *)
(* least as far as the manifest and every manifest that may still arrive.  *)
THEOREM ForwardInvariant ==
    ASSUME Unwindowed, RedeployWhenIdle, ~RestartAllowed, None \notin Manifests
    PROVE  Spec /\ []LocksLast /\ [][IdIsNew]_vars => []ForwardInv
<1>1. ValuesInv /\ StoreInv /\ LockTypeOK /\ DatesInv /\ RecordsInv /\ OneAtATime
        /\ ForwardInv /\ [Next]_vars /\ [IdIsNew]_vars => ForwardInv'
  BY ForwardInvStep
<1>2. QED
  BY <1>1, ForwardInvInit, AloneWhileLocksLast, PublisherNoOverlap, ValuesInvariant,
     StoreInvariant, DatesInvariant, RecordsInvariant, PTL
  DEF Spec

LEMMA LatestStep ==
    ASSUME ValuesInv, StoreInv, LockTypeOK, DatesInv, ForwardInv, [Next]_vars
    PROVE  [LatestKept]_vars
<1> SUFFICES ASSUME manifest # None, manifest' # None,
                    manifest.deployment = manifest'.deployment,
                    manifest'.latest < manifest.latest
             PROVE  LateRequestLands \/ BehindRunMoves
  BY DEF LatestKept
<1>1. manifest.latest \in Int
  BY DaysInt DEF ValuesInv, IsManifest
<1>2. manifest' # manifest
  BY <1>1
<1>3. PICK r \in Run : Moves(r)
  BY <1>2 DEF Next, Moves, Time, Index, Redeploy, Restart, vars, pubVars, storeVars
<1>4. CASE PublishesLate(r)
  BY <1>4 DEF PublishesLate, LateRequestLands
<1>5. CASE Publishes(r)
  <2>1. At(r, "manifest") /\ job'[r] # job[r]
    BY <1>5 DEF Publishes, At
  <2>2. /\ manifest'.latest = job[r].bounds
        /\ manifest'.deployment = job[r].deployment
    BY <1>5, <2>1, NextLatestIsBounds DEF Publishes
  <2>3. ~HasPublished(job[r].base, job[r].deployment)
    <3>1. job[r].bounds \in Int
      BY <2>1, DaysInt DEF ValuesInv, JobValues, At
    <3>2. ~(manifest.latest <= job[r].bounds)
      BY <1>1, <2>2, <3>1
    <3>3. QED
      BY <2>1, <3>2 DEF ForwardInv, Reaching, At
  <2>4. Behind(r)
    BY <2>1, <2>2, <2>3 DEF Behind, At
  <2>5. QED
    BY <2>1, <2>4 DEF BehindRunMoves
<1>6. QED
  BY <1>2, <1>3, <1>4, <1>5, ManifestCourse

(* resolvePublishRange and the dates of the next manifest: as long as the  *)
(* source only moves forward, runs end before their lock expires and an id *)
(* is not taken up again, the latest date announced for a deployment never *)
(* moves back, except by a request its run gave up on or by a run that     *)
(* read the manifest before the first publish of its deployment.           *)
THEOREM LatestAlwaysMovesForward ==
    ASSUME Unwindowed, RedeployWhenIdle, ~RestartAllowed, None \notin Manifests
    PROVE  Spec /\ []LocksLast /\ [][IdIsNew]_vars => LatestNeverMovesBack
<1>1. ValuesInv /\ StoreInv /\ LockTypeOK /\ DatesInv /\ ForwardInv /\ [Next]_vars
        => [LatestKept]_vars
  BY LatestStep
<1>2. QED
  BY <1>1, ForwardInvariant, ValuesInvariant, StoreInvariant, DatesInvariant, PTL
  DEF Spec, LatestNeverMovesBack

-----------------------------------------------------------------------------
(* Days of the shards.                                                     *)

(* A run that is not behind has rows for every announced day of the months *)
(* it writes.                                                              *)
LEMMA RowsOfAnnounced ==
    ASSUME ValuesInv, DatesInv, RecordsInv, ForwardInv,
           NEW r \in Run, job[r].stage \in {"shards", "manifest"}, ~Behind(r),
           manifest # None, manifest.deployment = job[r].deployment,
           NEW d \in manifest.earliest .. manifest.latest,
           MonthOf[job[r].range.start] <= MonthOf[d]
    PROVE  d \in DaysFrom(job[r].range) /\ d \in job[r].rows["metrics"].days
<1> DEFINE j == job[r]
<1>1. Joining(j) /\ HasRows(j) /\ Covering(manifest)
  BY DEF DatesInv, Dated, RecordsInv, RecordsOf, Carrying
<1>2. /\ j.range.start \in Day /\ j.range.end \in Day /\ j.bounds \in Day
      /\ manifest.earliest \in Day /\ manifest.latest \in Day
  BY DEF ValuesInv, JobValues, IsManifest
<1>3. d \in Day /\ PublicStart <= d /\ d <= manifest.latest
  BY <1>1, <1>2, DaysBetween DEF Covering
<1>4. manifest.latest <= j.bounds
  <2>1. CASE HasPublished(j.base, j.deployment)
    BY <2>1 DEF ForwardInv, Reaching
  <2>2. CASE ~HasPublished(j.base, j.deployment)
    <3>1. ~(j.bounds < manifest.latest)
      BY <2>2 DEF Behind
    <3>2. j.bounds \in Int /\ manifest.latest \in Int
      BY <1>2, DaysInt
    <3>3. QED
      BY <3>1, <3>2
  <2>3. QED
    BY <2>1, <2>2
<1>5. j.range.start <= d
  <2>1. CASE j.range.start = PublicStart
    BY <1>3, <2>1
  <2>2. CASE j.range.start = FirstDayOfMonth(j.range.start)
    BY <1>2, <1>3, <2>2, SinceMonth
  <2>3. QED
    BY <1>1, <2>1, <2>2 DEF Joining
<1>6. d \in DaysFrom(j.range)
  <2>1. /\ d \in Int /\ manifest.latest \in Int /\ j.bounds \in Int
        /\ j.range.start \in Int
    BY <1>2, <1>3, DaysInt
  <2>2. j.range.end = j.bounds
    BY <1>1 DEF Joining
  <2>3. QED
    BY <1>3, <1>4, <1>5, <2>1, <2>2 DEF DaysFrom
<1>7. QED
  BY <1>1, <1>6 DEF HasRows

(* The bucket changes when a run writes a shard or deletes a stale one, or *)
(* when a request of an ended run arrives late.                            *)
Writes(r) ==
    LET j == job[r]
        k == ShardKey(j, j.next)
    IN  /\ At(r, "shards") /\ pc[r] = "critical"
        /\ bucket' = [x \in DOMAIN bucket \cup {k} |->
                         IF x = k THEN Shard(j, k) ELSE bucket[x]]
        /\ job'[r] # j

Removes(r) ==
    \E k \in job[r].stale :
        At(r, "clean") /\ bucket' = Restrict(bucket, DOMAIN bucket \ {k})

LEMMA WriteShardMoves ==
    ASSUME ValuesInv, NEW r \in Run, WriteShard(r)
    PROVE  job'[r] # job[r]
<1> DEFINE j == job[r]
<1>1. j.next \in [month : MonthKeys(j.range.start, j.range.end), kind : 1 .. Len(Kinds)]
  BY DEF WriteShard, At, ValuesInv, JobValues
<1>2. j.range.start \in Day /\ j.range.end \in Day
  BY DEF WriteShard, At, ValuesInv, JobValues
<1>3. j.next.month \in Int /\ j.next.kind \in Int
  <2>1. MonthOf[j.range.start] \in Int /\ MonthOf[j.range.end] \in Int
    BY <1>2, MonthsNat
  <2>2. QED
    BY <1>1, <2>1, PlacesNat DEF MonthKeys
<1>4. PlaceAfter(j.next) # j.next
  <2>1. [j.next EXCEPT !.kind = @ + 1].kind = j.next.kind + 1
    BY <1>1
  <2>2. [month |-> j.next.month + 1, kind |-> 1].month = j.next.month + 1
    OBVIOUS
  <2>3. j.next.kind + 1 # j.next.kind /\ j.next.month + 1 # j.next.month
    BY <1>3
  <2>4. CASE j.next.kind < Len(Kinds)
    BY <2>1, <2>3, <2>4 DEF PlaceAfter
  <2>5. CASE ~(j.next.kind < Len(Kinds))
    <3>1. PlaceAfter(j.next).month = j.next.month + 1
      BY <2>2, <2>5 DEF PlaceAfter
    <3>2. QED
      BY <2>3, <3>1
  <2>6. QED
    BY <2>4, <2>5
<1>5. job[r] = [stage |-> "shards", deployment |-> job[r].deployment,
                base |-> job[r].base, bounds |-> job[r].bounds,
                range |-> job[r].range, rows |-> job[r].rows, next |-> job[r].next]
  BY DEF WriteShard, ValuesInv, JobValues, JobShape, NoJob, At
<1>6. \/ job'[r] = [job[r] EXCEPT !.next = PlaceAfter(job[r].next)]
      \/ job'[r] = [job[r] EXCEPT !.stage = "manifest"]
  BY StepMoves DEF WriteShard, ValuesInv
<1>7. QED
  BY <1>4, <1>5, <1>6

LEMMA BucketCourse ==
    ASSUME ValuesInv, NEW r \in Run, Moves(r)
    PROVE  bucket' = bucket \/ Writes(r) \/ Removes(r) \/ LateRequest(r)
<1>1. CASE WriteShard(r)
  <2>1. Perform(PutShard(job[r])) /\ At(r, "shards") /\ pc[r] = "critical"
    BY <1>1 DEF WriteShard
  <2>2. QED
    BY <1>1, <2>1, WriteShardMoves DEF Perform, PutShard, Writes
<1>2. CASE WriteManifest(r)
  BY <1>2 DEF WriteManifest, Perform, PutManifest
<1>3. CASE DeleteStale(r)
  BY <1>3 DEF DeleteStale, Perform, DeleteShard, Removes
<1>4. CASE ~(WriteManifest(r) \/ WriteShard(r) \/ DeleteStale(r) \/ LateRequest(r))
  BY <1>4
  DEF Moves, BeginRun, RunStep, RunFault, ReadManifest, TakeLock, FetchBounds,
      FetchRows, AcceptRows, ListStale, Unlock, RequestThrows, RunDies,
      LockWriteRepeated, LateLockRequest, pubVars, storeVars
<1>5. QED
  BY <1>1, <1>2, <1>3, <1>4

(* The key of the next shard.                                              *)
LEMMA NextKey ==
    ASSUME ValuesInv, NEW r \in Run, At(r, "shards"),
           NEW k, k = ShardKey(job[r], job[r].next)
    PROVE  /\ k \in Keys
           /\ k[1] = job[r].deployment /\ k[2] \in Kind
           /\ k[3] = job[r].next.month
           /\ k[3] \in MonthKeys(job[r].range.start, job[r].range.end)
<1>1. PutShard(job[r]).key = k
  BY DEF PutShard
<1>2. k \in Keys
  BY <1>1, PutShardValues DEF RequestValues, PutShard
<1>3. job[r].next.month \in MonthKeys(job[r].range.start, job[r].range.end)
  BY DEF ValuesInv, JobValues, At
<1>4. k[1] = job[r].deployment /\ k[3] = job[r].next.month
  BY DEF ShardKey, Key
<1>5. QED
  BY <1>2, <1>3, <1>4 DEF Keys

LEMMA DaysStep ==
    ASSUME ValuesInv, StoreInv, LockTypeOK, DatesInv, RecordsInv, ForwardInv, [Next]_vars
    PROVE  [DaysKept]_vars
<1> SUFFICES ASSUME manifest # None, manifest' = manifest,
                    NEW d \in manifest.earliest .. manifest.latest,
                    Stored(d), ~LateRequestLands, ~BehindRunMoves
             PROVE  Stored(d)'
  BY DEF DaysKept
<1> DEFINE x == MetricsKey(d)
<1>1. x' = x
  BY DEF MetricsKey
<1>2. CASE bucket' = bucket
  BY <1>1, <1>2 DEF Stored
<1>3. ASSUME bucket' # bucket PROVE Stored(d)'
  <2>1. PICK r \in Run : Moves(r)
    BY <1>3 DEF Next, Moves, Time, Index, Redeploy, Restart, vars, pubVars, storeVars
  <2>2. CASE Writes(r)
    <3> DEFINE j == job[r]
               k == ShardKey(j, j.next)
    <3>1. /\ At(r, "shards")
          /\ bucket' = [y \in DOMAIN bucket \cup {k} |->
                           IF y = k THEN Shard(j, k) ELSE bucket[y]]
      BY <2>2 DEF Writes
    <3>2. ~Behind(r)
      BY <2>2 DEF Writes, BehindRunMoves
    <3>3. CASE x # k
      BY <1>1, <3>1, <3>3 DEF Stored
    <3>4. CASE x = k
      <4>1. /\ k[1] = j.deployment /\ k[3] = j.next.month
            /\ k[3] \in MonthKeys(j.range.start, j.range.end)
        BY <3>1, NextKey
      <4>2. x[1] = manifest.deployment /\ x[2] = "metrics" /\ x[3] = MonthOf[d]
        BY DEF MetricsKey, Key
      <4>3. /\ j.range.start \in Day /\ j.range.end \in Day
            /\ manifest.earliest \in Day /\ manifest.latest \in Day
        BY <3>1 DEF ValuesInv, JobValues, IsManifest, At
      <4>4. d \in Day
        BY <4>3, DaysBetween
      <4>5. MonthOf[j.range.start] <= MonthOf[d]
        <5>1. MonthOf[j.range.start] \in Int /\ MonthOf[j.range.end] \in Int
          BY <4>3, MonthsNat
        <5>2. QED
          BY <3>4, <4>1, <4>2, <5>1 DEF MonthKeys
      <4>6. d \in j.rows["metrics"].days
        BY <3>1, <3>2, <3>4, <4>1, <4>2, <4>5, RowsOfAnnounced DEF At
      <4>7. d \in Shard(j, k).days
        BY <3>4, <4>2, <4>4, <4>6 DEF Shard, DaysOf
      <4>8. QED
        BY <1>1, <3>1, <3>4, <4>7 DEF Stored
    <3>5. QED
      BY <3>3, <3>4
  <2>3. CASE Removes(r)
    <3>1. PICK k \in job[r].stale :
              At(r, "clean") /\ bucket' = Restrict(bucket, DOMAIN bucket \ {k})
      BY <2>3 DEF Removes
    <3>2. k[1] # deployed /\ manifest.deployment = deployed
      BY <3>1 DEF StoreInv, Cleaning, HandedOver, At
    <3>3. x # k
      BY <3>2 DEF MetricsKey, Key
    <3>4. QED
      BY <1>1, <3>1, <3>3 DEF Stored, Restrict
  <2>4. ~LateRequest(r)
    BY DEF LateRequest, LateRequestLands, ValuesInv
  <2>5. QED
    BY <1>3, <2>1, <2>2, <2>3, <2>4, BucketCourse
<1>4. QED
  BY <1>2, <1>3

(* A refresh rewrites announced shards in place, one by one and before the *)
(* manifest, and the clean-up deletes shards: neither takes an announced   *)
(* day out of the store, except a request its run gave up on or a run that *)
(* read the manifest before the first publish of its deployment.           *)
THEOREM AnnouncedDaysAlwaysStay ==
    ASSUME Unwindowed, RedeployWhenIdle, ~RestartAllowed, None \notin Manifests
    PROVE  Spec /\ []LocksLast /\ [][IdIsNew]_vars => AnnouncedDaysStay
<1>1. ValuesInv /\ StoreInv /\ LockTypeOK /\ DatesInv /\ RecordsInv /\ ForwardInv
        /\ [Next]_vars => [DaysKept]_vars
  BY DaysStep
<1>2. QED
  BY <1>1, ForwardInvariant, ValuesInvariant, StoreInvariant, DatesInvariant,
     RecordsInvariant, PTL
  DEF Spec, AnnouncedDaysStay

-----------------------------------------------------------------------------
(* What the store holds until a request fails.                             *)

LEMMA FaultsMove ==
    ASSUME LockTypeOK, NEW r \in Run, Moves(r)
    PROVE  \/ faults' = faults /\ (late' = late \/ LateRequest(r))
           \/ faults' = faults + 1 /\ UNCHANGED storeVars
<1>1. CASE BeginRun(r)
  BY <1>1 DEF BeginRun, Start
<1>2. CASE ReadManifest(r) \/ Unlock(r) \/ LateLockRequest(r)
  BY <1>2
  DEF ReadManifest, Unlock, Release, ReleaseRead, ReleaseDelete, LateLockRequest,
      Land, Lose, lockVars, pubVars
<1>3. CASE TakeLock(r)
  BY <1>3 DEF TakeLock, Acquire, PutIfAbsent, ReadHolder, Replace, Verify
<1>4. CASE FetchBounds(r) \/ (\E k \in Kind : FetchRows(r, k)) \/ AcceptRows(r)
           \/ WriteShard(r) \/ WriteManifest(r) \/ ListStale(r) \/ DeleteStale(r)
  BY <1>4
  DEF FetchBounds, FetchRows, AcceptRows, WriteShard, WriteManifest, ListStale,
      DeleteStale, Return, Finish, lockVars
<1>5. CASE LateRequest(r)
  BY <1>5 DEF LateRequest, lockVars
<1>6. CASE RequestThrows(r) \/ RunDies(r) \/ LockWriteRepeated(r)
  BY <1>6 DEF RequestThrows, Throw, RunDies, Abort, LockWriteRepeated, RepeatedWrite
<1>7. QED
  BY <1>1, <1>2, <1>3, <1>4, <1>5, <1>6 DEF Moves, RunStep, RunFault

(* A step after which no request has failed.                               *)
QuietStep(r) == Moves(r) /\ faults' = 0

LEMMA Quiet ==
    ASSUME ValuesInv, LockTypeOK, ServedInv, NEW r \in Run, QuietStep(r)
    PROVE  /\ faults = 0 /\ Served /\ \A q \in Run : Keeping(q)
           /\ \A q \in Run : late[q] = None /\ late'[q] = None
           /\ manifest' = manifest \/ Publishes(r)
           /\ bucket' = bucket \/ Writes(r) \/ Removes(r)
<1>1. faults \in Nat
  BY DEF LockTypeOK
<1>2. faults = 0 /\ (late' = late \/ LateRequest(r))
  BY <1>1, FaultsMove DEF QuietStep
<1>3. \A q \in Run : late[q] = None
  BY <1>2 DEF ServedInv, Keeping
<1>4. ~LateRequest(r) /\ ~PublishesLate(r)
  BY <1>3 DEF LateRequest, PublishesLate
<1>5. QED
  BY <1>2, <1>3, <1>4, ManifestCourse, BucketCourse DEF ServedInv, QuietStep

(* The manifest of the deployment only moves forward.                      *)
LEMMA ManifestForward ==
    ASSUME ValuesInv, LockTypeOK, DatesInv, ForwardInv, ServedInv, NobodyBehind,
           NEW r \in Run, QuietStep(r), TakenOver, StoreInv
    PROVE  manifest.latest <= manifest'.latest
<1>1. manifest.latest \in Int
  BY DaysInt DEF ValuesInv, IsManifest, TakenOver
<1>2. CASE Publishes(r)
  <2>1. At(r, "manifest") /\ manifest'.latest = job[r].bounds
    BY <1>2, NextLatestIsBounds DEF Publishes
  <2>2. CASE HasPublished(job[r].base, job[r].deployment)
    BY <2>1, <2>2 DEF ForwardInv, Reaching, At
  <2>3. CASE ~HasPublished(job[r].base, job[r].deployment)
    <3>1. job[r].deployment = deployed
      BY <2>1 DEF StoreInv, Control, At
    <3>2. ~(job[r].bounds < manifest.latest)
      BY <2>1, <2>3, <3>1 DEF NobodyBehind, Behind, TakenOver, At
    <3>3. job[r].bounds \in Int
      BY <2>1, DaysInt DEF ValuesInv, JobValues, At
    <3>4. QED
      BY <1>1, <2>1, <3>2, <3>3
  <2>4. QED
    BY <2>2, <2>3
<1>3. CASE manifest' = manifest
  BY <1>1, <1>3
<1>4. QED
  BY <1>2, <1>3, Quiet

(* The days a run found announced stay announced.                          *)
BaseKept(q) ==
    job[q].stage \in {"lock", "bounds", "rows", "shards", "manifest"} =>
        (HasPublished(job[q].base, job[q].deployment)
            => job[q].base.latest <= manifest.latest)

LEMMA BaseKeptMove ==
    ASSUME ValuesInv, StoreInv, LockTypeOK, DatesInv, RecordsInv, ForwardInv, ServedInv,
           NobodyBehind, NEW r \in Run, QuietStep(r), NEW q \in Run
    PROVE  BaseKept(q)'
<1> DEFINE j == job[q]
           k == job'[q]
           Reading == {"lock", "bounds", "rows", "shards", "manifest"}
<1>1. OthersRest(r) /\ Course(r)
  BY MovesAlone, JobCourse DEF ValuesInv, QuietStep
<1> SUFFICES ASSUME k.stage \in Reading, HasPublished(k.base, k.deployment)
             PROVE  k.base.latest <= manifest'.latest
  BY DEF BaseKept
<1>2. CASE j.stage \in Reading /\ SameBase(j, k)
  <2>1. HasPublished(j.base, j.deployment) /\ k.base = j.base
    BY <1>2 DEF SameBase
  <2>2. TakenOver
    BY <1>2, <2>1 DEF RecordsInv, RecordsOf, Carrying
  <2>3. j.base.latest <= manifest.latest
    BY <1>2, <2>1, Quiet DEF Keeping
  <2>4. manifest.latest <= manifest'.latest
    BY <2>2, ManifestForward
  <2>5. manifest.latest \in Int
    BY <2>2, DaysInt DEF ValuesInv, IsManifest, TakenOver
  <2>6. j.base.latest \in Int /\ manifest'.latest \in Int
    <3>1. j.base.latest \in Day
      BY <1>2, <2>1 DEF ValuesInv, JobValues, HasPublished, IsManifest
    <3>2. manifest'.latest \in Day
      <4>1. CASE Publishes(r)
        <5>1. At(r, "manifest") /\ manifest'.latest = job[r].bounds
          BY <4>1, NextLatestIsBounds DEF Publishes
        <5>2. QED
          BY <5>1 DEF ValuesInv, JobValues, At
      <4>2. CASE manifest' = manifest
        BY <2>2, <4>2 DEF ValuesInv, IsManifest, TakenOver
      <4>3. QED
        BY <4>1, <4>2, Quiet
    <3>3. QED
      BY <3>1, <3>2, DaysInt
  <2>7. QED
    BY <2>1, <2>3, <2>4, <2>5, <2>6
<1>3. CASE q = r /\ j.stage = "manifestRead" /\ k.base = manifest
  <2>1. manifest' = manifest
    BY <1>3, Quiet DEF Publishes, At
  <2>2. manifest # None
    BY <1>3 DEF HasPublished
  <2>3. manifest.latest \in Int
    BY <2>2, DaysInt DEF ValuesInv, IsManifest
  <2>4. QED
    BY <1>3, <2>1, <2>3
<1>4. CASE k = j
  BY <1>2, <1>4 DEF SameBase
<1>5. CASE q = r /\ k # j
  BY <1>1, <1>2, <1>3, <1>5 DEF Course, SameWork
<1>6. QED
  BY <1>1, <1>4, <1>5 DEF OthersRest

(* How a run comes to write shards.                                        *)
Begins(r) ==
    /\ At(r, "rows") /\ job'[r].stage = "shards"
    /\ job'[r].range = job[r].range
    /\ job'[r].next = FirstPlace(job[r].range)

LEMMA WritingCourse ==
    ASSUME ValuesInv, LockTypeOK, NEW r \in Run, Moves(r),
           job'[r].stage \in {"shards", "manifest"}
    PROVE  job'[r] = job[r] \/ WriteShard(r) \/ Begins(r)
<1>1. ASSUME NEW j, Step(r, j) PROVE job'[r] = j
  BY <1>1, StepMoves DEF ValuesInv
<1>2. CASE BeginRun(r)
  BY <1>1, <1>2 DEF BeginRun
<1>3. CASE ReadManifest(r)
  BY <1>1, <1>3 DEF ReadManifest
<1>4. CASE TakeLock(r) \/ LockWriteRepeated(r)
  <2>1. job'[r] = AfterAcquire(r) /\ job[r].stage = "lock"
    BY <1>1, <1>4 DEF TakeLock, LockWriteRepeated, At
  <2>2. job[r] = [stage |-> "lock", deployment |-> job[r].deployment,
                  window |-> job[r].window, base |-> job[r].base]
    BY <2>1 DEF ValuesInv, JobValues, JobShape, NoJob
  <2>3. [job[r] EXCEPT !.stage = "bounds"].stage = "bounds"
    BY <2>2
  <2>4. QED
    BY <2>1, <2>3 DEF AfterAcquire, NoJob
<1>5. CASE Return(r)
  BY <1>1, <1>5 DEF Return, NoJob
<1>6. CASE FetchBounds(r) /\ ~Return(r)
  BY <1>1, <1>6 DEF FetchBounds
<1>7. ASSUME NEW k \in Kind, FetchRows(r, k) PROVE FALSE
  <2>1. Course(r) /\ job[r].stage = "rows"
    BY <1>7, JobCourse DEF FetchRows, At
  <2> DEFINE rows == [job[r].rows EXCEPT ![k] =
                    [days |-> IndexedRows(job[r].range), version |-> source.version]]
  <2>2. job[r] = [stage |-> "rows", deployment |-> job[r].deployment,
                  base |-> job[r].base, bounds |-> job[r].bounds,
                  range |-> job[r].range, rows |-> job[r].rows]
    BY <2>1 DEF ValuesInv, JobValues, JobShape, NoJob
  <2>3. job'[r] = [job[r] EXCEPT !.rows = rows]
    BY <1>1, <1>7 DEF FetchRows
  <2> HIDE DEF rows
  <2>4. QED
    BY <2>2, <2>3
<1>8. CASE AcceptRows(r) /\ ~Return(r)
  BY <1>1, <1>8 DEF AcceptRows, Begins
<1>9. CASE WriteManifest(r)
  BY <1>1, <1>9 DEF WriteManifest
<1>10. CASE ListStale(r) /\ ~Return(r)
  BY <1>1, <1>10 DEF ListStale
<1>11. CASE DeleteStale(r) /\ ~Return(r)
  <2>1. PICK k \in job[r].stale : /\ job'[r] = [job[r] EXCEPT !.stale = job[r].stale \ {k}]
                                  /\ At(r, "clean")
    BY <1>1, <1>11 DEF DeleteStale
  <2>2. job[r] = [stage |-> "clean", deployment |-> job[r].deployment,
                  stale |-> job[r].stale]
    BY <2>1 DEF ValuesInv, JobValues, JobShape, NoJob, At
  <2>3. job'[r].stage = "clean"
    BY <2>1, <2>2
  <2>4. QED
    BY <2>3
<1>12. CASE Unlock(r) \/ LateLockRequest(r) \/ LateRequest(r)
  BY <1>12 DEF Unlock, LateLockRequest, LateRequest, pubVars
<1>13. CASE RequestThrows(r) \/ RunDies(r)
  BY <1>1, <1>13 DEF RequestThrows, RunDies, NoJob
<1>14. QED
  BY <1>2, <1>3, <1>4, <1>5, <1>6, <1>7, <1>8, <1>9, <1>10, <1>11, <1>12, <1>13
  DEF Moves, RunStep, RunFault

(* What a run has written after a shard: what it had before, and that one. *)
LEMMA WroteNext ==
    ASSUME ValuesInv, NEW r \in Run, WriteShard(r),
           NEW month \in MonthKeys(job[r].range.start, job[r].range.end),
           WroteMetrics(job'[r], month)
    PROVE  \/ WroteMetrics(job[r], month)
           \/ month = job[r].next.month /\ Kinds[job[r].next.kind] = "metrics"
<1> DEFINE j    == job[r]
           next == j.next
<1>1. /\ j = [stage |-> "shards", deployment |-> j.deployment, base |-> j.base,
              bounds |-> j.bounds, range |-> j.range, rows |-> j.rows, next |-> j.next]
      /\ next \in [month : MonthKeys(j.range.start, j.range.end), kind : 1 .. Len(Kinds)]
      /\ j.range \in [start : Day, end : Day]
  BY DEF WriteShard, ValuesInv, JobValues, JobShape, NoJob, At
<1>2. month \in Int /\ next.month \in Int /\ next.kind \in Int /\ month <= MonthOf[j.range.end]
  <2>1. MonthOf[j.range.start] \in Int /\ MonthOf[j.range.end] \in Int
    BY <1>1, MonthsNat
  <2>2. QED
    BY <1>1, <2>1, PlacesNat DEF MonthKeys
<1>3. PICK i \in 1 .. Len(Kinds) :
          /\ Kinds[i] = "metrics"
          /\ job'[r].stage = "manifest" \/ Precedes(month, i, job'[r].next)
  BY DEF WroteMetrics
<1>4. job'[r] = IF next # LastPlace(j.range) THEN [j EXCEPT !.next = PlaceAfter(next)]
                ELSE [j EXCEPT !.stage = "manifest"]
  BY StepMoves DEF WriteShard, ValuesInv
<1>5. SUFFICES Precedes(month, i, next) \/ (month = next.month /\ i = next.kind)
  BY <1>3 DEF WroteMetrics
<1>6. i \in Int /\ Len(Kinds) \in Int /\ i <= Len(Kinds) /\ 1 <= i
  BY PlacesNat
<1>7. CASE next # LastPlace(j.range)
  <2>1. job'[r].stage = "shards" /\ job'[r].next = PlaceAfter(next)
    BY <1>1, <1>4, <1>7
  <2>2. Precedes(month, i, PlaceAfter(next))
    BY <1>3, <2>1
  <2> HIDE DEF next
  <2>3. CASE next.kind < Len(Kinds)
    <3>1. PlaceAfter(next) = [month |-> next.month, kind |-> next.kind + 1]
      BY <1>1, <2>3 DEF PlaceAfter
    <3>2. QED
      BY <1>2, <1>6, <2>2, <3>1 DEF Precedes
  <2>4. CASE ~(next.kind < Len(Kinds))
    <3>1. PlaceAfter(next) = [month |-> next.month + 1, kind |-> 1]
      BY <1>1, <2>4 DEF PlaceAfter
    <3>2. next.kind = Len(Kinds)
      BY <1>1, <1>2, <1>6, <2>4
    <3>3. QED
      BY <1>2, <1>6, <2>2, <3>1, <3>2 DEF Precedes
  <2>5. QED
    BY <2>3, <2>4
<1>8. CASE next = LastPlace(j.range)
  BY <1>2, <1>6, <1>8 DEF LastPlace, Precedes
<1>9. QED
  BY <1>7, <1>8

(* The shards a run has written still have its rows.                       *)
StoredAt(q) == job[q].stage \in {"shards", "manifest"} => StoredRows(job[q])

LEMMA StoredMove ==
    ASSUME ValuesInv, StoreInv, LockTypeOK, RecordsInv, OneAtATime, ServedInv,
           NEW r \in Run, QuietStep(r), NEW q \in Run
    PROVE  StoredAt(q)'
<1> SUFFICES ASSUME job'[q].stage \in {"shards", "manifest"},
                    NEW d \in DaysFrom(job'[q].range),
                    WroteMetrics(job'[q], MonthOf[d]),
                    NEW k, k = Key(job'[q].deployment, "metrics", MonthOf[d])
             PROVE  k \in DOMAIN bucket' /\ d \in bucket'[k].days
  BY DEF StoredAt, StoredRows
<1>1. OthersRest(r) /\ Course(r) /\ Moves(r)
  BY MovesAlone, JobCourse DEF ValuesInv, QuietStep
<1>2. k[1] = job'[q].deployment /\ k[2] = "metrics" /\ k[3] = MonthOf[d]
  BY DEF Key
<1>3. ASSUME job'[q] = job[q] PROVE k \in DOMAIN bucket' /\ d \in bucket'[k].days
  <2>1. StoredRows(job[q]) /\ pc[q] = "critical" /\ k[1] = deployed
    BY <1>2, <1>3, Quiet DEF Keeping, StoreInv, Control, At, UnderLock
  <2>2. k \in DOMAIN bucket /\ d \in bucket[k].days
    BY <1>3, <2>1 DEF StoredRows
  <2>3. ~Writes(r)
    BY <1>3, <2>1 DEF Writes, OneAtATime
  <2>4. CASE Removes(r)
    <3>1. PICK x \in job[r].stale :
              At(r, "clean") /\ bucket' = Restrict(bucket, DOMAIN bucket \ {x})
      BY <2>4 DEF Removes
    <3>2. x[1] # deployed
      BY <3>1 DEF StoreInv, Cleaning, At
    <3>3. QED
      BY <2>1, <2>2, <3>1, <3>2 DEF Restrict
  <2>5. QED
    BY <2>2, <2>3, <2>4, Quiet
<1>4. ASSUME q = r, WriteShard(r) PROVE k \in DOMAIN bucket' /\ d \in bucket'[k].days
  <2> DEFINE j   == job[r]
             own == ShardKey(j, j.next)
  <2>1. /\ At(r, "shards") /\ StoredRows(j) /\ HasRows(j)
        /\ bucket' = [x \in DOMAIN bucket \cup {own} |->
                         IF x = own THEN Shard(j, own) ELSE bucket[x]]
    <3>1. At(r, "shards") /\ Perform(PutShard(j))
      BY <1>4 DEF WriteShard
    <3>2. StoredRows(j) /\ HasRows(j)
      BY <3>1, Quiet DEF Keeping, RecordsInv, RecordsOf, Carrying, At
    <3>3. QED
      BY <3>1, <3>2 DEF Perform, PutShard
  <2>2. job'[r].range = j.range /\ job'[r].deployment = j.deployment
    BY <1>1, <1>4, <2>1 DEF Course, SameWork, SameBase, At
  <2>3. /\ j.range.start \in Day /\ j.range.end \in Day
        /\ d \in DaysFrom(j.range)
    BY <1>4, <2>1, <2>2 DEF ValuesInv, JobValues, At
  <2>4. d \in Day /\ MonthOf[d] \in MonthKeys(j.range.start, j.range.end)
    <3>1. j.range \in [start : Day, end : Day]
      BY <2>1 DEF ValuesInv, JobValues, At
    <3>2. d \in Day
      BY <2>3, <3>1, RangeInDay
    <3>3. MonthOf[j.range.start] <= MonthOf[d] /\ MonthOf[d] <= MonthOf[j.range.end]
      <4>1. d \in Int /\ j.range.start <= d /\ d <= j.range.end
        BY <2>3, DaysInt DEF DaysFrom
      <4>2. QED
        BY <2>3, <3>2, <4>1, MonthsOrdered
    <3>4. MonthOf[j.range.start] \in Int /\ MonthOf[j.range.end] \in Int /\ MonthOf[d] \in Int
      BY <2>3, <3>2, MonthsNat
    <3>5. QED
      BY <3>2, <3>3, <3>4 DEF MonthKeys
  <2>5. k = own => d \in Shard(j, own).days
    <3>1. d \in j.rows["metrics"].days
      BY <2>1, <2>3 DEF HasRows
    <3>2. QED
      BY <1>2, <2>4, <3>1 DEF Shard, DaysOf
  <2>6. CASE WroteMetrics(j, MonthOf[d])
    <3>1. k = Key(j.deployment, "metrics", MonthOf[d])
      BY <1>4, <2>2
    <3>2. k \in DOMAIN bucket /\ d \in bucket[k].days
      BY <2>1, <2>3, <2>6, <3>1 DEF StoredRows
    <3>3. QED
      BY <2>1, <2>5, <3>2
  <2>7. CASE MonthOf[d] = j.next.month /\ Kinds[j.next.kind] = "metrics"
    <3>1. k = own
      BY <1>4, <2>2, <2>7 DEF ShardKey
    <3>2. QED
      BY <2>1, <2>5, <3>1
  <2>8. QED
    BY <1>4, <2>4, <2>6, <2>7, WroteNext
<1>5. ASSUME q = r, Begins(r) PROVE FALSE
  <2> DEFINE start == job[r].range.start
  <2>1. /\ job'[r].stage = "shards" /\ job'[r].next = FirstPlace(job[r].range)
        /\ d \in DaysFrom(job[r].range)
        /\ job[r].range \in [start : Day, end : Day]
    BY <1>5 DEF Begins, ValuesInv, JobValues, At
  <2>2. d \in Day /\ start \in Day /\ start <= d
    BY <2>1, RangeInDay DEF DaysFrom
  <2>3. MonthOf[start] <= MonthOf[d] /\ MonthOf[start] \in Int /\ MonthOf[d] \in Int
    BY <2>2, MonthsOrdered, MonthsNat
  <2>4. PICK i \in 1 .. Len(Kinds) : Precedes(MonthOf[d], i, FirstPlace(job[r].range))
    BY <1>5, <2>1 DEF WroteMetrics
  <2>5. MonthOf[d] < MonthOf[start] \/ i < 1
    BY <2>4 DEF Precedes, FirstPlace
  <2>6. i >= 1 /\ i \in Int
    BY PlacesNat
  <2>7. QED
    BY <2>3, <2>5, <2>6
<1>6. q # r => job'[q] = job[q]
  BY <1>1 DEF OthersRest
<1>7. QED
  BY <1>1, <1>3, <1>4, <1>5, <1>6, WritingCourse

(* The days a run announces are stored: those of its range by its shards,  *)
(* those before it by the shards of the manifest it had read.              *)
LEMMA PublishedServed ==
    ASSUME ValuesInv, StoreInv, LockTypeOK, DatesInv, RecordsInv, ServedInv,
           NEW r \in Run, QuietStep(r), Publishes(r)
    PROVE  Served'
<1> DEFINE j     == job[r]
           start == MonthOf[j.range.start]
<1>1. /\ job[r].stage = "manifest" /\ bucket' = bucket
      /\ Served /\ Keeping(r) /\ Carrying(r)
      /\ Covering(j.base) /\ Joining(j) /\ Covering(manifest)
      /\ j.deployment = deployed
  <2>1. job[r].stage = "manifest"
    BY DEF Publishes, At
  <2>2. bucket' = bucket
    BY <2>1, Quiet DEF Writes, Removes, At
  <2>3. QED
    BY <2>1, <2>2, Quiet
    DEF DatesInv, Dated, RecordsInv, RecordsOf, StoreInv, Control, At
<1>2. /\ manifest'.deployment = j.deployment
      /\ manifest'.earliest = PublicStart /\ manifest'.latest = j.bounds
  BY <1>1, NextParts, NextDates DEF Publishes
<1>3. /\ j.base # None => IsManifest(j.base)
      /\ j.bounds \in Day /\ j.range.start \in Day /\ j.range.end = j.bounds
      /\ manifest # None => IsManifest(manifest)
  BY <1>1 DEF ValuesInv, JobValues, Joining
<1>4. ASSUME NEW d \in PublicStart .. j.bounds,
             NEW k, k = Key(j.deployment, "metrics", MonthOf[d])
      PROVE  k \in DOMAIN bucket /\ d \in bucket[k].days
  <2>1. d \in Day /\ PublicStart <= d /\ d <= j.bounds
    BY <1>3, DayFacts, DaysBetween
  <2>2. start \in Nat /\ MonthOf[d] \in Nat
    BY <1>3, <2>1, MonthsNat
  <2>3. CASE start <= MonthOf[d]
    <3>1. j.range.start <= d
      <4>1. CASE j.range.start = PublicStart
        BY <4>1, <2>1
      <4>2. CASE j.range.start = FirstDayOfMonth(j.range.start)
        BY <4>2, <2>1, <2>3, <1>3, SinceMonth
      <4>3. QED
        BY <1>1, <4>1, <4>2 DEF Joining
    <3>2. d \in DaysFrom(j.range)
      BY <3>1, <2>1, <1>3 DEF DaysFrom, Day
    <3>3. WroteMetrics(j, MonthOf[d])
      <4>1. PICK i \in DOMAIN Kinds : Kinds[i] = "metrics"
        BY PublisherAssumption DEF Kind
      <4>2. i \in 1 .. Len(Kinds)
        BY PublisherAssumption
      <4>3. QED
        BY <1>1, <4>1, <4>2 DEF WroteMetrics
    <3>4. QED
      BY <1>1, <1>4, <3>2, <3>3 DEF Keeping, StoredRows
  <2>4. CASE ~(start <= MonthOf[d])
    <3>1. j.range.start # PublicStart
      BY <2>1, <2>4, DayFacts, MonthsOrdered
    <3>2. HasPublished(j.base, j.deployment) /\ start <= MonthOf[DayAfter(j.base.latest)]
      BY <1>1, <3>1 DEF Joining
    <3>3. j.base.latest \in Day
      BY <1>3, <3>2 DEF HasPublished, IsManifest
    <3>4. d <= j.base.latest
      <4>1. MonthOf[DayAfter(j.base.latest)] \in Nat
        BY <3>3, DayFacts DEF Month
      <4>2. MonthOf[d] < MonthOf[DayAfter(j.base.latest)]
        BY <4>1, <3>2, <2>2, <2>4
      <4>3. QED
        BY <4>2, <3>3, <2>1, EarlierMonth
    <3>5. TakenOver /\ j.base.latest <= manifest.latest
      BY <1>1, <3>2 DEF Carrying, Keeping
    <3>6. /\ manifest # None /\ manifest.deployment = j.deployment
          /\ manifest.earliest = PublicStart /\ manifest.latest \in Day
      BY <1>1, <1>3, <3>5 DEF TakenOver, Covering, IsManifest
    <3>7. d \in manifest.earliest .. manifest.latest
      <4>1. d \in Int /\ j.base.latest \in Int /\ manifest.latest \in Int /\ PublicStart \in Int
        BY <2>1, <3>3, <3>6, DaysInt, DayFacts
      <4>2. d <= manifest.latest
        BY <3>4, <3>5, <4>1
      <4>3. QED
        BY <2>1, <3>6, <4>1, <4>2
    <3>8. Stored(d)
      BY <1>1, <3>6, <3>7 DEF Served
    <3>9. QED
      BY <1>4, <3>6, <3>8 DEF Stored, MetricsKey
  <2>5. QED
    BY <2>3, <2>4
<1>5. QED
  BY <1>1, <1>2, <1>4 DEF Served, Stored, MetricsKey

LEMMA ServedMove ==
    ASSUME ValuesInv, StoreInv, LockTypeOK, DatesInv, RecordsInv, ForwardInv, ServedInv,
           NobodyBehind, NEW r \in Run, QuietStep(r)
    PROVE  Served'
<1>1. CASE Publishes(r)
  BY <1>1, PublishedServed
<1>2. CASE manifest' = manifest
  <2>1. [DaysKept]_vars
    BY DaysStep DEF QuietStep, Moves, Next
  <2>2. ~LateRequestLands
    BY Quiet DEF LateRequestLands
  <2>3. ~BehindRunMoves
    BY DEF BehindRunMoves, NobodyBehind
  <2>4. SUFFICES ASSUME manifest # None, NEW d \in manifest.earliest .. manifest.latest
                 PROVE  Stored(d)'
    BY <1>2 DEF Served
  <2>5. Stored(d)
    BY <2>4, Quiet DEF Served
  <2>6. CASE UNCHANGED vars
    BY <2>5, <2>6 DEF vars, pubVars, Stored, MetricsKey
  <2>7. CASE DaysKept
    BY <1>2, <2>2, <2>3, <2>4, <2>5, <2>7 DEF DaysKept
  <2>8. QED
    BY <2>1, <2>6, <2>7
<1>3. QED
  BY <1>1, <1>2, Quiet

LEMMA ShardOfMonth ==
    ASSUME NEW j, NEW k
    PROVE  Shard(j, k).days \subseteq DaysOf(k[3])
  BY DEF Shard

LEMMA LateOfMonthMove ==
    ASSUME ValuesInv, LockTypeOK, ServedInv, NEW r \in Run, Moves(r), NEW q \in Run
    PROVE  LateOfMonth(q)'
<1>1. OthersRest(r)
  BY MovesAlone DEF ValuesInv
<1>2. CASE late'[q] = late[q]
  BY <1>2 DEF LateOfMonth, ServedInv
<1>3. CASE q = r /\ late'[r] = PutShard(job[r])
  <2>1. late'[q].key = ShardKey(job[r], job[r].next)
        /\ late'[q].shard = Shard(job[r], ShardKey(job[r], job[r].next))
    BY <1>3 DEF PutShard
  <2>2. late'[q].shard.days \subseteq DaysOf(late'[q].key[3])
    BY <2>1, ShardOfMonth
  <2>3. QED
    BY <2>2 DEF LateOfMonth
<1>4. CASE q = r /\ late'[r].op # "shard"
  BY <1>4 DEF LateOfMonth
<1>5. CASE q = r /\ late'[r] = None
  BY <1>5 DEF LateOfMonth
<1>6. QED
  BY <1>1, <1>2, <1>3, <1>4, <1>5, LateCourse DEF OthersRest

LEMMA ServedInvStep ==
    ASSUME ValuesInv, StoreInv, LockTypeOK, DatesInv, RecordsInv, OneAtATime, ForwardInv,
           ServedInv, NobodyBehind, RedeployWhenIdle, ~RestartAllowed, [Next]_vars
    PROVE  ServedInv'
<1>1. ASSUME NEW r \in Run, Moves(r) PROVE ServedInv'
  <2>1. \A q \in Run : LateOfMonth(q)'
    BY <1>1, LateOfMonthMove
  <2>2. ASSUME faults' = 0, NEW q \in Run PROVE Served' /\ Keeping(q)'
    <3>1. QuietStep(r)
      BY <1>1, <2>2 DEF QuietStep
    <3>2. Served' /\ BaseKept(q)' /\ StoredAt(q)' /\ late'[q] = None
      BY <3>1, ServedMove, BaseKeptMove, StoredMove, Quiet
    <3>3. QED
      BY <3>2 DEF Keeping, BaseKept, StoredAt
  <2>3. QED
    BY <1>1, <2>1, <2>2 DEF ServedInv
<1>2. CASE Index \/ Time \/ UNCHANGED vars
  <2>1. UNCHANGED <<faults, bucket, manifest, job, late>>
    BY <1>2 DEF Index, Time, Tick, vars, pubVars, lockVars, storeVars
  <2>2. QED
    BY <2>1
    DEF ServedInv, Served, Stored, MetricsKey, Keeping, StoredRows, LateOfMonth
<1>3. ASSUME NEW d \in Deployment, Redeploy(d) PROVE ServedInv'
  <2>1. ASSUME NEW r \in Run
        PROVE  UNCHANGED <<job, late>> /\ job[r].stage = "idle" /\ late[r] = None
    BY <1>3, RedeployRests
  <2>2. UNCHANGED <<faults, bucket, manifest>>
    BY <1>3 DEF Redeploy, lockVars, storeVars
  <2>3. QED
    BY <2>1, <2>2 DEF ServedInv, Served, Stored, MetricsKey, Keeping, LateOfMonth
<1>4. ~Restart
  BY DEF Restart
<1>5. QED
  BY <1>1, <1>2, <1>3, <1>4 DEF Next, Moves

LEMMA ServedInvInit == Init => ServedInv
<1> SUFFICES ASSUME Init PROVE ServedInv
  OBVIOUS
<1>1. ValuesInv /\ DatesInv /\ RecordsInv
  BY ValuesInvInit, DatesInvInit, RecordsInvInit
<1>2. PICK p \in InitialProgress :
          \/ manifest = None
          \/ \E d \in {deployed, Stable} : PublishedUpTo(d, p.cross)
  BY DEF Init
<1>3. Served
  <2>1. SUFFICES ASSUME manifest # None, NEW d \in manifest.earliest .. manifest.latest
                 PROVE  Stored(d)
    BY DEF Served
  <2>2. manifest.artifacts = bucket
    <3>2. PICK e \in {deployed, Stable} : PublishedUpTo(e, p.cross)
      BY <1>2, <2>1
    <3> DEFINE f == CompleteShards(e, p.cross)
    <3>1. /\ bucket = f
          /\ manifest = [deployment |-> e, earliest |-> PublicStart,
                         latest |-> p.cross, artifacts |-> f]
      BY <3>2 DEF PublishedUpTo
    <3> HIDE DEF f
    <3>3. QED
      BY <3>1
  <2>3. d \in manifest.artifacts[MetricsKey(d)].days
    BY <1>1, <2>1 DEF RecordsInv, Recorded, MetricsKey
  <2>4. MetricsKey(d) \in DOMAIN manifest.artifacts
    <3>1. /\ manifest.earliest \in Day /\ manifest.latest \in Day
          /\ Covering(manifest)
      BY <1>1, <2>1 DEF ValuesInv, IsManifest, DatesInv
    <3>2. d \in Day /\ manifest.earliest <= d /\ d <= manifest.latest
      BY <3>1, DaysBetween
    <3>3. MonthOf[manifest.earliest] <= MonthOf[d] /\ MonthOf[d] <= MonthOf[manifest.latest]
      BY <3>1, <3>2, MonthsOrdered
    <3>4. MonthOf[d] \in MonthKeys(manifest.earliest, manifest.latest)
      BY <3>1, <3>2, <3>3, MonthsNat DEF MonthKeys
    <3>5. QED
      BY <2>1, <3>1, <3>4, PublisherAssumption
      DEF Covering, Covers, KeysBetween, MetricsKey
  <2>5. QED
    BY <2>2, <2>3, <2>4 DEF Stored
<1>4. ASSUME NEW r \in Run PROVE job[r].stage = "idle" /\ late[r] = None
  BY DEF Init, NoJob
<1>5. QED
  BY <1>3, <1>4 DEF ServedInv, Keeping, LateOfMonth

(* Until a request fails, every announced day is in the store and every    *)
(* run finds the rows of the shards it has written: publishing the         *)
(* manifest after the shards never announces a day readers would miss, if  *)
(* runs end before their lock expires and none is behind.                  *)
THEOREM ServedInvariant ==
    ASSUME Unwindowed, RedeployWhenIdle, ~RestartAllowed, None \notin Manifests
    PROVE  Spec /\ []LocksLast /\ [][IdIsNew]_vars /\ []NobodyBehind => []ServedInv
<1>1. ValuesInv /\ StoreInv /\ LockTypeOK /\ DatesInv /\ RecordsInv /\ OneAtATime
        /\ ForwardInv /\ ServedInv /\ NobodyBehind /\ [Next]_vars => ServedInv'
  BY ServedInvStep
<1>2. QED
  BY <1>1, ServedInvInit, AloneWhileLocksLast, PublisherNoOverlap, ValuesInvariant,
     StoreInvariant, DatesInvariant, RecordsInvariant, ForwardInvariant, PTL
  DEF Spec

-----------------------------------------------------------------------------
(* The publisher implements PublishedArtifacts.                            *)

LEMMA SameCalendar ==
    /\ Artifacts!Day = Day /\ Artifacts!Prefix = Prefix
    /\ Artifacts!Keys = Keys
    /\ Artifacts!OwnedKeys = {k \in Keys : k[1] \in Deployment}
    /\ \A d, e : Artifacts!MonthKeys(d, e) = MonthKeys(d, e)
    /\ \A p, d, e : Artifacts!KeysOf(p, d, e) = KeysBetween(p, d, e)
<1>1. /\ Artifacts!Day = Day /\ Artifacts!Prefix = Prefix
      /\ Artifacts!Month = Month
      /\ \A d, e : Artifacts!MonthKeys(d, e) = MonthKeys(d, e)
  BY DEF Artifacts!Day, Day, Artifacts!MonthKeys, MonthKeys, Artifacts!Prefix, Prefix,
         Artifacts!Month, Month
<1>2. Artifacts!Keys = Keys
  BY <1>1 DEF Artifacts!Keys, Keys
<1>3. Artifacts!OwnedKeys = {k \in Keys : k[1] \in Deployment}
  BY <1>1 DEF Artifacts!OwnedKeys, Keys, Prefix
<1>4. \A p, d, e : Artifacts!KeysOf(p, d, e) = KeysBetween(p, d, e)
  BY <1>1 DEF Artifacts!KeysOf, KeysBetween, Key
<1>5. QED
  BY <1>1, <1>2, <1>3, <1>4

(* The manifests a reader may find; None should not be one of them.        *)
SeenManifests ==
    [deployment : Prefix, earliest : Day, latest : Day, listed : SUBSET Keys]

LEMMA StoreIsConsistent ==
    ASSUME ValuesInv, StoreInv, DatesInv, ServedInv, None \notin SeenManifests
    PROVE  SeenConsistently
<1> DEFINE m == SeenManifest
<1>1. CASE manifest = None
  BY <1>1
  DEF SeenConsistently, SeenManifest, Artifacts!Consistent, Artifacts!ListedIn,
      Artifacts!ServedIn
<1>2. CASE manifest # None
  <2>1. /\ m = [deployment |-> manifest.deployment, earliest |-> manifest.earliest,
                latest |-> manifest.latest, listed |-> DOMAIN manifest.artifacts]
        /\ IsManifest(manifest) /\ Covering(manifest) /\ Listed(manifest)
    BY <1>2 DEF SeenManifest, ValuesInv, DatesInv, StoreInv
  <2>2. m \in SeenManifests
    BY <2>1 DEF SeenManifests, IsManifest, IsArtifacts
  <2>3. m # None
    BY <2>2
  <2>4. /\ m.deployment = manifest.deployment /\ m.earliest = manifest.earliest
        /\ m.latest = manifest.latest /\ m.listed = DOMAIN manifest.artifacts
    BY <2>1
  <2> HIDE DEF m
  <2>5. Artifacts!IsManifest(m)
    <3>1. /\ Artifacts!KeysOf(m.deployment, m.earliest, m.latest) \subseteq m.listed
          /\ m.listed \subseteq Artifacts!KeysOf(m.deployment, m.earliest, m.latest)
                                   \cup Artifacts!KeysOf(Stable, m.earliest, m.latest)
      BY <1>2, <2>1, <2>4, SameCalendar DEF Covering, Covers
    <3>2. QED
      BY <1>2, <2>1, <2>4, <3>1, SameCalendar DEF Covering, IsManifest, Artifacts!IsManifest
  <2>6. Artifacts!ListedIn(bucket, m)
    BY <1>2, <2>1, <2>4 DEF Listed, Artifacts!ListedIn
  <2>7. faults = 0 => Artifacts!ServedIn(bucket, m)
    BY <1>2, <2>4 DEF ServedInv, Served, Stored, MetricsKey, Key, Artifacts!ServedIn
  <2>8. QED
    BY <1>2, <2>3, <2>5, <2>6, <2>7 DEF SeenConsistently, Artifacts!Consistent, m
<1>3. QED
  BY <1>1, <1>2

(* The requests that reach the store.                                      *)
Requests(r) ==
    {request \in {PutShard(job[r]), PutManifest(job[r]), late[r]}
                    \cup {DeleteShard(k) : k \in job[r].stale} :
        \/ request = PutShard(job[r]) /\ At(r, "shards")
        \/ request = PutManifest(job[r]) /\ At(r, "manifest")
        \/ At(r, "clean") /\ \E k \in job[r].stale : request = DeleteShard(k)
        \/ request = late[r] /\ late[r] # None}

LEMMA RequestKinds ==
    ASSUME NEW r \in Run, NEW request \in Requests(r)
    PROVE  \/ request.op = "shard" /\ request = PutShard(job[r]) /\ At(r, "shards")
           \/ request.op = "manifest" /\ request = PutManifest(job[r]) /\ At(r, "manifest")
           \/ /\ request.op = "delete" /\ At(r, "clean")
              /\ \E k \in job[r].stale : request = DeleteShard(k)
           \/ request = late[r] /\ late[r] # None
<1>1. /\ PutShard(job[r]).op = "shard" /\ PutManifest(job[r]).op = "manifest"
      /\ \A k : DeleteShard(k).op = "delete"
  BY DEF PutShard, PutManifest, DeleteShard
<1>2. \/ request = PutShard(job[r]) /\ At(r, "shards")
      \/ request = PutManifest(job[r]) /\ At(r, "manifest")
      \/ At(r, "clean") /\ \E k \in job[r].stale : request = DeleteShard(k)
      \/ request = late[r] /\ late[r] # None
  BY DEF Requests
<1>3. QED
  BY <1>1, <1>2

LEMMA StoreCourse ==
    ASSUME NEW r \in Run, Moves(r)
    PROVE  UNCHANGED storeVars \/ \E request \in Requests(r) : Perform(request)
<1>1. CASE WriteShard(r)
  BY <1>1 DEF WriteShard, Requests
<1>2. CASE WriteManifest(r)
  BY <1>2 DEF WriteManifest, Requests
<1>3. CASE DeleteStale(r)
  BY <1>3 DEF DeleteStale, Requests, DeleteShard
<1>4. CASE LateRequest(r)
  BY <1>4 DEF LateRequest, Requests
<1>5. CASE ~(WriteManifest(r) \/ WriteShard(r) \/ DeleteStale(r) \/ LateRequest(r))
  BY <1>5
  DEF Moves, BeginRun, RunStep, RunFault, ReadManifest, TakeLock, FetchBounds,
      FetchRows, AcceptRows, ListStale, Unlock, RequestThrows, RunDies,
      LockWriteRepeated, LateLockRequest, pubVars, storeVars
<1>6. QED
  BY <1>1, <1>2, <1>3, <1>4, <1>5

IsStore == bucket = [k \in DOMAIN bucket |-> bucket[k]]

LEMMA StoreStep == IsStore /\ [Next]_vars => IsStore'
<1> SUFFICES ASSUME IsStore, [Next]_vars PROVE IsStore'
  OBVIOUS
<1>1. CASE UNCHANGED storeVars
  BY <1>1 DEF IsStore, storeVars
<1>2. ASSUME NEW r \in Run, NEW request \in Requests(r), Perform(request)
      PROVE  IsStore'
  <2>1. ASSUME NEW f, f = [k \in DOMAIN bucket \cup {request.key} |->
                            IF k = request.key THEN request.shard ELSE bucket[k]]
        PROVE  f = [k \in DOMAIN f |-> f[k]]
    BY <2>1
  <2>2. ASSUME NEW f, f = Restrict(bucket, DOMAIN bucket \ {request.key})
        PROVE  f = [k \in DOMAIN f |-> f[k]]
    BY <2>2 DEF Restrict
  <2>3. QED
    BY <1>2, <2>1, <2>2 DEF Perform, IsStore
<1>3. CASE ~(\E r \in Run : Moves(r))
  BY <1>1, <1>3
  DEF Next, Moves, Time, Index, Redeploy, Restart, vars, pubVars, storeVars
<1>4. QED
  BY <1>1, <1>2, <1>3, StoreCourse

LEMMA StoreInit == Init => IsStore
<1> SUFFICES ASSUME Init PROVE IsStore
  OBVIOUS
<1>1. CASE bucket = [k \in {} |-> None]
  BY <1>1 DEF IsStore
<1>2. ASSUME NEW d, NEW latest, bucket = CompleteShards(d, latest)
      PROVE  IsStore
  BY <1>2 DEF IsStore, CompleteShards
<1>3. QED
  BY <1>1, <1>2 DEF Init, PublishedUpTo

(* A shard that a run writes, now or later, has days of its month only.    *)
LEMMA ShardRequest ==
    ASSUME ValuesInv, ServedInv, NEW r \in Run,
           NEW request \in Requests(r), request.op = "shard"
    PROVE  /\ request.key \in Artifacts!OwnedKeys
           /\ Artifacts!IsShard(request.key, request.shard)
<1>1. ASSUME request = PutShard(job[r]), At(r, "shards")
      PROVE  RequestValues(request) /\ request.shard.days \subseteq DaysOf(request.key[3])
  <2> DEFINE k == ShardKey(job[r], job[r].next)
  <2>1. request.key = k /\ request.shard = Shard(job[r], k)
    BY <1>1 DEF PutShard
  <2>2. request.shard.days \subseteq DaysOf(request.key[3])
    BY <2>1, ShardOfMonth
  <2> HIDE DEF k
  <2>3. RequestValues(request)
    BY <1>1, PutShardValues
  <2>4. QED
    BY <2>2, <2>3
<1>2. ASSUME request = late[r], late[r] # None
      PROVE  RequestValues(request) /\ request.shard.days \subseteq DaysOf(request.key[3])
  BY <1>2 DEF ValuesInv, ServedInv, LateOfMonth
<1>4. RequestValues(request) /\ request.shard.days \subseteq DaysOf(request.key[3])
  BY <1>1, <1>2, RequestKinds
<1>5. QED
  BY <1>4, SameCalendar
  DEF RequestValues, Contents, Artifacts!IsShard, Artifacts!MonthDays, DaysOf

LEMMA StoreShardStep ==
    ASSUME ValuesInv, ServedInv, SeenConsistently', NEW r \in Run, faults' = faults,
           NEW request \in Requests(r), request.op = "shard", Perform(request)
    PROVE  \E k \in Artifacts!OwnedKeys : Artifacts!StoreShard(k)
<1> DEFINE k == request.key
<1>1. /\ bucket' = [x \in DOMAIN bucket \cup {k} |->
                       IF x = k THEN request.shard ELSE bucket[x]]
      /\ manifest' = manifest
  BY DEF Perform
<1>2. SeenManifest' = SeenManifest
  BY <1>1 DEF SeenManifest
<1>3. k \in Artifacts!OwnedKeys /\ Artifacts!IsShard(k, bucket'[k])
  BY <1>1, ShardRequest
<1>4. DOMAIN bucket' = DOMAIN bucket \cup {k}
  BY <1>1
<1>5. \A other \in DOMAIN bucket \ {k} : bucket'[other] = bucket[other]
  BY <1>1
<1>6. Artifacts!Consistent(bucket', SeenManifest)
  BY <1>2 DEF SeenConsistently, Artifacts!Consistent
<1>7. QED
  BY <1>2, <1>3, <1>4, <1>5, <1>6, SameCalendar DEF Artifacts!StoreShard

LEMMA AnnounceStep ==
    ASSUME ValuesInv, StoreInv, LockTypeOK, DatesInv, RecordsInv, ForwardInv, ServedInv,
           NobodyBehind, None \notin Manifests, ValuesInv', DatesInv', SeenConsistently,
           SeenConsistently', NEW r \in Run, Moves(r), faults' = faults,
           NEW request \in Requests(r), request.op = "manifest", Perform(request)
    PROVE  Artifacts!Announce
<1>1. manifest' = request.manifest /\ bucket' = bucket
  BY DEF Perform
<1>2. manifest' # None
  <2>1. CASE request = PutManifest(job[r]) /\ At(r, "manifest")
    <3>1. manifest' = NextOf(job[r])
      BY <1>1, <2>1 DEF PutManifest, NextOf
    <3>2. QED
      BY <2>1, <3>1, NextIsManifest
  <2>2. CASE request = late[r] /\ late[r] # None
    BY <1>1, <2>2 DEF RecordsInv, RecordsOf, Publishable
  <2>3. QED
    BY <2>1, <2>2, RequestKinds
<1>3. SeenManifest' # None /\ Artifacts!IsManifest(SeenManifest')
  BY <1>2 DEF SeenConsistently
<1>4. Artifacts!Consistent(bucket, SeenManifest')
  BY <1>1 DEF SeenConsistently, Artifacts!Consistent
<1>5. ASSUME faults = 0, SeenManifest # None
      PROVE  Artifacts!Extends(SeenManifest', SeenManifest)
  <2>1. manifest # None
    BY <1>5 DEF SeenManifest
  <2>2. /\ SeenManifest.deployment = manifest.deployment
        /\ SeenManifest.earliest = PublicStart /\ SeenManifest.latest = manifest.latest
    BY <2>1 DEF SeenManifest, DatesInv, Covering
  <2>3. /\ SeenManifest'.deployment = manifest'.deployment
        /\ SeenManifest'.earliest = PublicStart /\ SeenManifest'.latest = manifest'.latest
    BY <1>2 DEF SeenManifest, DatesInv, Covering
  <2>4. ASSUME manifest.deployment = manifest'.deployment
        PROVE  manifest.latest <= manifest'.latest
    <3>1. QuietStep(r)
      BY <1>5 DEF QuietStep
    <3>2. CASE Publishes(r)
      <4>1. At(r, "manifest") /\ manifest'.deployment = job[r].deployment
        BY <3>2, NextLatestIsBounds DEF Publishes
      <4>2. job[r].deployment = deployed
        BY <4>1 DEF StoreInv, Control, At
      <4>3. TakenOver
        BY <2>1, <2>4, <4>1, <4>2 DEF TakenOver
      <4>4. QED
        BY <3>1, <4>3, ManifestForward
    <3>3. CASE manifest' = manifest
      <4>1. manifest.latest \in Int
        BY <2>1, DaysInt DEF ValuesInv, IsManifest
      <4>2. QED
        BY <3>3, <4>1
    <3>4. QED
      BY <3>1, <3>2, <3>3, Quiet
  <2>5. PublicStart <= PublicStart
    BY DayFacts, DaysInt
  <2>6. QED
    BY <2>2, <2>3, <2>4, <2>5 DEF Artifacts!Extends
<1>6. QED
  BY <1>1, <1>3, <1>4, <1>5 DEF Artifacts!Announce

(* The stable keys are left alone.                                         *)
LEMMA StaleRequest ==
    ASSUME StoreInv, NEW r \in Run, NEW request \in Requests(r), request.op = "delete"
    PROVE  request.key[1] # Stable
<1>1. ASSUME At(r, "clean"), NEW k \in job[r].stale, request = DeleteShard(k)
      PROVE  request.key[1] # Stable
  BY <1>1 DEF StoreInv, Cleaning, At, DeleteShard
<1>2. ASSUME request = late[r], late[r] # None
      PROVE  request.key[1] # Stable
  BY <1>2 DEF StoreInv, Pending
<1>3. QED
  BY <1>1, <1>2, RequestKinds

LEMMA RemoveShardStep ==
    ASSUME ValuesInv, StoreInv, IsStore, SeenConsistently', faults' = faults,
           NEW r \in Run, NEW request \in Requests(r), request.op = "delete",
           Perform(request)
    PROVE  \/ \E k \in Artifacts!OwnedKeys : Artifacts!RemoveShard(k)
           \/ UNCHANGED Artifacts!artifactVars
<1> DEFINE k == request.key
<1>1. bucket' = Restrict(bucket, DOMAIN bucket \ {k}) /\ manifest' = manifest
  BY DEF Perform
<1>2. SeenManifest' = SeenManifest
  BY <1>1 DEF SeenManifest
<1>3. /\ DOMAIN bucket' = DOMAIN bucket \ {k}
      /\ \A other \in DOMAIN bucket' : bucket'[other] = bucket[other]
  BY <1>1 DEF Restrict
<1>4. Artifacts!ListedIn(bucket', SeenManifest)
  BY <1>2 DEF SeenConsistently, Artifacts!Consistent
<1>5. CASE k \in DOMAIN bucket
  <2>1. k \in Artifacts!OwnedKeys
    <3>1. k \in Keys
      BY <1>5 DEF ValuesInv, IsArtifacts
    <3>2. k[1] # Stable
      BY StaleRequest
    <3>3. QED
      BY <3>1, <3>2, SameCalendar DEF Keys, Prefix
  <2>2. QED
    BY <1>2, <1>3, <1>4, <2>1 DEF Artifacts!RemoveShard
<1>6. CASE k \notin DOMAIN bucket
  <2>1. bucket' = bucket
    <3>1. DOMAIN bucket \ {k} = DOMAIN bucket
      BY <1>6
    <3>2. QED
      BY <1>1, <3>1 DEF Restrict, IsStore
  <2>2. QED
    BY <1>2, <2>1 DEF Artifacts!artifactVars
<1>7. QED
  BY <1>5, <1>6

LEMMA ArtifactsStep ==
    ASSUME ValuesInv, StoreInv, LockTypeOK, DatesInv, RecordsInv, ForwardInv, ServedInv,
           IsStore, NobodyBehind, SeenConsistently, ValuesInv', DatesInv', SeenConsistently',
           None \notin Manifests, ~RestartAllowed, [Next]_vars
    PROVE  [Artifacts!ArtifactsNext]_Artifacts!artifactVars
<1>1. ASSUME UNCHANGED storeVars, faults' = faults
      PROVE  UNCHANGED Artifacts!artifactVars
  BY <1>1 DEF storeVars, SeenManifest, Artifacts!artifactVars
<1>2. CASE Time \/ Index \/ (\E d \in Deployment : Redeploy(d)) \/ UNCHANGED vars
  <2>1. UNCHANGED storeVars /\ faults' = faults
    BY <1>2 DEF Time, Tick, Index, Redeploy, vars, lockVars, pubVars, storeVars
  <2>2. QED
    BY <1>1, <2>1
<1>3. ASSUME NEW r \in Run, Moves(r)
      PROVE  [Artifacts!ArtifactsNext]_Artifacts!artifactVars
  <2>1. CASE faults' = faults + 1 /\ UNCHANGED storeVars
    <3>1. (faults' = 0) = FALSE
      BY <2>1 DEF LockTypeOK
    <3>2. Artifacts!GiveUp
      BY <2>1, <3>1 DEF storeVars, SeenManifest, Artifacts!GiveUp
    <3>3. QED
      BY <3>2 DEF Artifacts!ArtifactsNext
  <2>2. ASSUME faults' = faults, NEW request \in Requests(r), Perform(request)
        PROVE  [Artifacts!ArtifactsNext]_Artifacts!artifactVars
    <3>1. CASE request.op = "shard"
      BY <2>2, <3>1, StoreShardStep DEF Artifacts!ArtifactsNext
    <3>2. CASE request.op = "manifest"
      BY <1>3, <2>2, <3>2, AnnounceStep DEF Artifacts!ArtifactsNext
    <3>3. CASE request.op = "delete"
      BY <2>2, <3>3, RemoveShardStep DEF Artifacts!ArtifactsNext
    <3>4. QED
      BY <2>2, <3>1, <3>2, <3>3 DEF Perform
  <2>3. QED
    BY <1>1, <1>3, <2>1, <2>2, FaultsMove, StoreCourse
<1>4. QED
  BY <1>2, <1>3 DEF Next, Moves, Restart

LEMMA ArtifactsStart ==
    ASSUME Init, ValuesInv, SeenConsistently
    PROVE  Artifacts!ArtifactsInit
<1>1. faults = 0
  BY DEF Init, LockInit
<1>2. ASSUME NEW k \in DOMAIN bucket
      PROVE  k \in Artifacts!Keys /\ Artifacts!IsShard(k, bucket[k])
  <2>1. k \in Keys /\ bucket[k] \in Contents
    BY <1>2 DEF ValuesInv, IsArtifacts
  <2>2. bucket[k].days \subseteq DaysOf(k[3])
    <3>1. PICK d \in {deployed, Stable}, p \in InitialProgress :
                 bucket = CompleteShards(d, p.cross)
      BY <1>2 DEF Init, PublishedUpTo
    <3>2. QED
      BY <1>2, <3>1 DEF CompleteShards
  <2>3. QED
    BY <2>1, <2>2, SameCalendar
    DEF Contents, Artifacts!IsShard, Artifacts!MonthDays, DaysOf
<1>3. QED
  BY <1>1, <1>2 DEF SeenConsistently, Artifacts!ArtifactsInit

(* publishMetricsArtifacts keeps its promise to the readers of the store:  *)
(* while runs end before their lock expires, none is behind and no id is   *)
(* taken up again, each request a run makes, also one that fails, is lost  *)
(* or arrives late, is a step of PublishedArtifacts.                       *)
THEOREM PublisherImplementsArtifacts ==
    ASSUME Unwindowed, RedeployWhenIdle, ~RestartAllowed,
           None \notin Manifests, None \notin SeenManifests
    PROVE  Spec /\ []LocksLast /\ [][IdIsNew]_vars /\ []NobodyBehind
               => ImplementsArtifacts
<1>1. ValuesInv /\ StoreInv /\ DatesInv /\ ServedInv => SeenConsistently
  BY StoreIsConsistent
<1>2. ValuesInv /\ StoreInv /\ LockTypeOK /\ DatesInv /\ RecordsInv /\ ForwardInv
        /\ ServedInv /\ IsStore /\ NobodyBehind /\ SeenConsistently
        /\ ValuesInv' /\ DatesInv' /\ SeenConsistently' /\ [Next]_vars
        => [Artifacts!ArtifactsNext]_Artifacts!artifactVars
  BY ArtifactsStep
<1>3. Init /\ ValuesInv /\ SeenConsistently => Artifacts!ArtifactsInit
  BY ArtifactsStart
<1>4. Spec => []IsStore
  BY StoreInit, StoreStep, PTL DEF Spec
<1>5. QED
  BY <1>1, <1>2, <1>3, <1>4, ServedInvariant, ForwardInvariant, ValuesInvariant,
     StoreInvariant, DatesInvariant, RecordsInvariant, PTL
  DEF Spec, ImplementsArtifacts, Artifacts!ArtifactsSpec
=============================================================================
