------------------------------- MODULE Publisher -------------------------------
(***************************************************************************)
(* publishMetricsArtifacts (publisher.ts): runs of the one-shot publisher  *)
(* that read the indexed metrics through Hasura and publish monthly shards *)
(* and a manifest in an object store, under the lock of PublisherLock.     *)
(*                                                                         *)
(* A run reads the manifest, takes the lock, reads the bounds and the rows *)
(* of the source, overwrites the shards of its range one after the other,  *)
(* replaces the manifest, deletes the shards of other deployments and      *)
(* releases the lock.  Each request is a step.  The data are abstracted:   *)
(* a shard is the set of days it has rows for and the version of the       *)
(* source the rows were read from, which also stand for its hash.          *)
(***************************************************************************)
EXTENDS PublisherLock, PublishRange, Sequences, Functions, FiniteSets

CONSTANTS
    Deployment,      \* indexer deployment ids
    Stable,          \* what stands for one in keys that carry none
    Kinds,           \* sequence of the shard kinds, in the order written
    Windows,         \* PUBLISHER_START_DATE / PUBLISHER_END_DATE settings
    BaseDay,         \* the UTC day at clock 0
    TicksPerDay,     \* ticks of the clock in a day
    MaxVersion,      \* bound: changes of the source
    RestartAllowed,  \* the indexer may restart under an unchanged id
    RedeployWhenIdle,\* a new deployment waits for publisher runs to end
    InitialProgress, \* the progress the source may have at the start
    None             \* no manifest, no request, no rows yet

Kind == {Kinds[i] : i \in DOMAIN Kinds}

ASSUME PublisherAssumption ==
    /\ Kinds \in Seq(Kind) /\ Kinds # <<>>
    /\ "metrics" \in Kind
    /\ Windows \subseteq [start : Day \cup {NoDate}, end : Day \cup {NoDate}]
    /\ BaseDay \in Day
    /\ TicksPerDay \in Nat \ {0}
    /\ MaxVersion \in Nat
    /\ RestartAllowed \in BOOLEAN
    /\ RedeployWhenIdle \in BOOLEAN
    /\ InitialProgress \subseteq [head : Day, cross : Day, all : Day]
    /\ Stable \notin Deployment
    /\ None \notin Deployment

VARIABLES
    source,    \* what the indexer has produced and Hasura serves
    deployed,  \* the deployment id in the environment of new runs
    bucket,    \* the shards stored
    manifest,  \* v2/manifest.json, or None
    job,       \* the local variables of each run
    late       \* a request that outlived its run, or None

storeVars == <<bucket, manifest>>
pubVars   == <<source, deployed, bucket, manifest, job, late>>
vars      == <<lockVars, pubVars>>

-----------------------------------------------------------------------------
(* Shards and keys.  The keys of today carry the deployment id             *)
(* (v2/deployments/<id>/...); the stable keys of older publishers carry    *)
(* none (v2/metrics/daily/...) and their manifest names no deployment.     *)

Prefix == Deployment \cup {Stable}

Key(prefix, kind, month) == <<prefix, kind, month>>

DaysOf(month)   == {d \in Day : MonthOf[d] = month}
DaysFrom(range) == range.start .. range.end

Today(r) == BaseDay + (started[r] \div TicksPerDay)

(* Progress of the source: the latest day with rows of some chain, of both *)
(* Arbitrum and Ethereum, and of all chains; 0 before there is one.  Every *)
(* day from 1 on has rows up to the head.                                  *)
Progress == [head : Day, cross : Day, all : Day]

NothingIndexed == [head |-> 0, cross |-> 0, all |-> 0]

IndexedRows(range) == {d \in DaysFrom(range) : 1 <= d /\ d <= source.progress.head}

(* Mutants: the two bounds are swapped; a first publish does not wait for  *)
(* all chains.                                                             *)
LatestSwapped(published) ==
    IF published THEN source.progress.all ELSE source.progress.cross
LatestOfTwoChains(published) == source.progress.cross

(* fetchBounds: a first publish of a deployment asks for days all chains   *)
(* have indexed, a refresh for days Arbitrum and Ethereum have indexed.    *)
LatestComplete(published) ==
    IF published THEN source.progress.cross ELSE source.progress.all

-----------------------------------------------------------------------------
(* The manifest.                                                           *)

(* deploymentHasPublishedArtifacts                                         *)
HasPublished(m, deployment) ==
    m # None /\ \E k \in DOMAIN m.artifacts : k[1] = deployment

EarliestBefore(m, range) == IF m = None THEN range.start ELSE m.earliest
LatestBefore(m, range)   == IF m = None THEN range.end ELSE m.latest

(* Mutant: the shards of earlier ranges are left out.                      *)
ArtifactsForgotten(m) == [k \in {} |-> None]
ArtifactsBefore(m)    == IF m = None THEN [k \in {} |-> None] ELSE m.artifacts

(* pruneHistoricalDeploymentArtifacts, which keeps the stable keys, and    *)
(* pruneArtifactsOutsidePublishedBounds, which does not look at the prefix *)
Pruned(artifacts, deployment, earliest, latest) ==
    Restrict(artifacts,
             {k \in DOMAIN artifacts : /\ k[1] \in {deployment, Stable}
                                       /\ k[3] \in MonthKeys(earliest, latest)})

(* The manifest a run publishes: what it read at the start, overridden by  *)
(* the shards it wrote, with the dates extended to its range.              *)
NextManifest(base, deployment, range, bounds, shards) ==
    LET earliest == PublishedEarliest(EarliestBefore(base, range), range)
        latest   == PublishedLatest(LatestBefore(base, range), range, bounds)
        known    == ArtifactsBefore(base)
        all      == [k \in DOMAIN shards \cup DOMAIN known |->
                        IF k \in DOMAIN shards THEN shards[k] ELSE known[k]]
    IN  [deployment |-> deployment,
         earliest   |-> earliest,
         latest     |-> latest,
         artifacts  |-> Pruned(all, deployment, earliest, latest)]

-----------------------------------------------------------------------------
(* The work of a run.                                                      *)

NoJob == [stage |-> "idle"]

(* A run writes the shards of its range month by month, and for each month *)
(* kind by kind; `next` is the place of the next one.                      *)
FirstPlace(range) == [month |-> MonthOf[range.start], kind |-> 1]

LastPlace(range) == [month |-> MonthOf[range.end], kind |-> Len(Kinds)]

PlaceAfter(place) ==
    IF place.kind < Len(Kinds)
    THEN [place EXCEPT !.kind = @ + 1]
    ELSE [month |-> place.month + 1, kind |-> 1]

ShardKey(j, place) == Key(j.deployment, Kinds[place.kind], place.month)

ShardKeys(j) ==
    {Key(j.deployment, kind, month) :
        kind \in Kind, month \in MonthKeys(j.range.start, j.range.end)}

Shard(j, k) ==
    [days    |-> j.rows[k[2]].days \cap DaysOf(k[3]),
     version |-> j.rows[k[2]].version]

Shards(j) == [k \in ShardKeys(j) |-> Shard(j, k)]

(* The requests that change the store.                                     *)
PutShard(j) ==
    LET k == ShardKey(j, j.next)
    IN  [op |-> "shard", key |-> k, shard |-> Shard(j, k)]

PutManifest(j) ==
    [op |-> "manifest",
     manifest |-> NextManifest(j.base, j.deployment, j.range, j.bounds, Shards(j))]

DeleteShard(k) == [op |-> "delete", key |-> k]

(* What a request does to the store.                                       *)
Perform(request) ==
    \/ /\ request.op = "shard"
       /\ bucket' = [k \in DOMAIN bucket \cup {request.key} |->
                        IF k = request.key THEN request.shard ELSE bucket[k]]
       /\ UNCHANGED manifest
    \/ /\ request.op = "manifest"
       /\ manifest' = request.manifest
       /\ UNCHANGED bucket
    \/ /\ request.op = "delete"
       /\ bucket' = Restrict(bucket, DOMAIN bucket \ {request.key})
       /\ UNCHANGED manifest

-----------------------------------------------------------------------------
(* Steps of a run before it holds the lock.                                *)

At(r, stage) == job[r].stage = stage

Step(r, j) == job' = [job EXCEPT ![r] = j]

(* The process starts with the deployment id of its environment.           *)
BeginRun(r) ==
    /\ Start(r)
    /\ \E w \in Windows :
          Step(r, [stage |-> "manifestRead", deployment |-> deployed, window |-> w])
    /\ UNCHANGED <<source, deployed, storeVars, late>>

(* getExistingManifest, before the lock is asked for.                      *)
ReadManifest(r) ==
    /\ pc[r] = "starting"
    /\ At(r, "manifestRead")
    /\ Step(r, [stage |-> "lock", deployment |-> job[r].deployment,
                window |-> job[r].window, base |-> manifest])
    /\ UNCHANGED <<lockVars, source, deployed, storeVars, late>>

(* Mutant: a run that is refused goes on with its job.                     *)
AfterAcquireAnyway(r) ==
    IF pc'[r] = "critical" THEN [job[r] EXCEPT !.stage = "bounds"] ELSE job[r]

(* acquirePublisherLock: the run ends when it does not get the lock.       *)
AfterAcquire(r) ==
    IF pc'[r] = "critical" THEN [job[r] EXCEPT !.stage = "bounds"]
    ELSE IF pc'[r] = "refused" THEN NoJob
    ELSE job[r]

TakeLock(r) ==
    /\ At(r, "lock")
    /\ Acquire(r)
    /\ Step(r, AfterAcquire(r))
    /\ UNCHANGED <<source, deployed, storeVars, late>>

-----------------------------------------------------------------------------
(* Steps under the lock.                                                   *)

(* Mutant: a run that returns leaves its lock behind.                      *)
ReturnLocked(r) ==
    /\ pc[r] = "critical"
    /\ Go(r, "done")
    /\ UNCHANGED <<clock, etags, lock, started, seen, faults>>
    /\ Step(r, NoJob)

(* Return from the try block, with or without having published.            *)
Return(r) ==
    /\ Finish(r)
    /\ Step(r, NoJob)

(* fetchBounds, the handover test and resolvePublishRange.  A source that  *)
(* is not ready and a range that ends before it starts end the run.        *)
FetchBounds(r) ==
    LET j         == job[r]
        published == HasPublished(j.base, j.deployment)
        latest    == LatestComplete(published)
        range     == IF published
                     THEN RefreshRange(j.window, latest, j.base.latest)
                     ELSE FirstRange(j.window, latest)
        ready     == latest # 0 /\ (published \/ FreshForHandover(latest, Today(r)))
    IN  /\ pc[r] = "critical"
        /\ At(r, "bounds")
        /\ \/ /\ ~(ready /\ ValidRange(range))
              /\ Return(r)
           \/ /\ ready
              /\ ValidRange(range)
              /\ Step(r, [stage |-> "rows", deployment |-> j.deployment,
                          base |-> j.base, bounds |-> latest, range |-> range,
                          rows |-> [k \in Kind |-> None]])
              /\ UNCHANGED lockVars
        /\ UNCHANGED <<source, deployed, storeVars, late>>

(* One of the three concurrent row queries is answered.                    *)
FetchRows(r, k) ==
    /\ pc[r] = "critical"
    /\ At(r, "rows")
    /\ job[r].rows[k] = None
    /\ Step(r, [job[r] EXCEPT !.rows[k] =
                   [days |-> IndexedRows(job[r].range), version |-> source.version]])
    /\ UNCHANGED <<lockVars, source, deployed, storeVars, late>>

(* All rows are there.  A refresh with a day missing publishes nothing.    *)
MissingDays(j) == DaysFrom(j.range) \ j.rows["metrics"].days

AcceptRows(r) ==
    LET j == job[r]
    IN  /\ pc[r] = "critical"
        /\ At(r, "rows")
        /\ \A k \in Kind : j.rows[k] # None
        /\ \/ /\ HasPublished(j.base, j.deployment)
              /\ MissingDays(j) # {}
              /\ Return(r)
           \/ /\ HasPublished(j.base, j.deployment) => MissingDays(j) = {}
              /\ Step(r, [stage |-> "shards", deployment |-> j.deployment,
                          base |-> j.base, bounds |-> j.bounds, range |-> j.range,
                          rows |-> j.rows, next |-> FirstPlace(j.range)])
              /\ UNCHANGED lockVars
        /\ UNCHANGED <<source, deployed, storeVars, late>>

(* Write the next shard in place.                                          *)
WriteShard(r) ==
    LET j == job[r]
    IN  /\ pc[r] = "critical"
        /\ At(r, "shards")
        /\ Perform(PutShard(j))
        /\ Step(r, IF j.next # LastPlace(j.range)
                   THEN [j EXCEPT !.next = PlaceAfter(@)]
                   ELSE [j EXCEPT !.stage = "manifest"])
        /\ UNCHANGED <<lockVars, source, deployed, late>>

(* Replace the manifest.                                                   *)
WriteManifest(r) ==
    LET j == job[r]
    IN  /\ pc[r] = "critical"
        /\ At(r, "manifest")
        /\ Perform(PutManifest(j))
        /\ Step(r, [stage |-> "list", deployment |-> j.deployment])
        /\ UNCHANGED <<lockVars, source, deployed, late>>

(* Mutants: shards of every deployment count as stale; only one kind does. *)
EveryKey(deployment) == DOMAIN bucket
StaleMetricsKeys(deployment) ==
    {k \in DOMAIN bucket : k[1] \notin {deployment, Stable} /\ k[2] = "metrics"}

(* cleanupHistoricalDeploymentArtifacts lists the shards of all            *)
(* deployments once and deletes those of the others one after the other.   *)
StaleKeys(deployment) == {k \in DOMAIN bucket : k[1] \notin {deployment, Stable}}

ListStale(r) ==
    LET stale == StaleKeys(job[r].deployment)
    IN  /\ pc[r] = "critical"
        /\ At(r, "list")
        /\ \/ /\ stale = {}
              /\ Return(r)
           \/ /\ stale # {}
              /\ Step(r, [stage |-> "clean", deployment |-> job[r].deployment,
                          stale |-> stale])
              /\ UNCHANGED lockVars
        /\ UNCHANGED <<source, deployed, storeVars, late>>

DeleteStale(r) ==
    /\ pc[r] = "critical"
    /\ At(r, "clean")
    /\ \E k \in job[r].stale :
          /\ Perform(DeleteShard(k))
          /\ \/ /\ job[r].stale = {k}
                /\ Return(r)
             \/ /\ job[r].stale # {k}
                /\ Step(r, [job[r] EXCEPT !.stale = @ \ {k}])
                /\ UNCHANGED lockVars
    /\ UNCHANGED <<source, deployed, late>>

(* Mutant: the lock is deleted without looking whose it is.                *)
UnlockBlindly(r) ==
    /\ pc[r] = "releasing"
    /\ lock' = NoRun
    /\ Go(r, "done")
    /\ UNCHANGED <<clock, etags, started, seen, faults>>
    /\ UNCHANGED pubVars

(* releasePublisherLock in the finally block.                              *)
Unlock(r) ==
    /\ Release(r)
    /\ UNCHANGED pubVars

-----------------------------------------------------------------------------
(* Faults.                                                                 *)

(* The request under way fails; it may have been sent and arrive later.    *)
LeaveRequest(r) ==
    \/ UNCHANGED late
    \/ /\ At(r, "shards")
       /\ late' = [late EXCEPT ![r] = PutShard(job[r])]
    \/ /\ At(r, "manifest")
       /\ late' = [late EXCEPT ![r] = PutManifest(job[r])]
    \/ /\ At(r, "clean")
       /\ \E k \in job[r].stale : late' = [late EXCEPT ![r] = DeleteShard(k)]

(* A request under the lock throws, and the finally block runs.            *)
RequestThrows(r) ==
    /\ Throw(r)
    /\ LeaveRequest(r)
    /\ Step(r, NoJob)
    /\ UNCHANGED <<source, deployed, storeVars>>

(* The process dies, or a request outside the try block throws.            *)
RunDies(r) ==
    /\ Abort(r)
    /\ At(r, "manifestRead") => pc'[r] = "failed"
    /\ LeaveRequest(r)
    /\ Step(r, NoJob)
    /\ UNCHANGED <<source, deployed, storeVars>>

(* The repeated conditional write of the lock.                             *)
LockWriteRepeated(r) ==
    /\ At(r, "lock")
    /\ RepeatedWrite(r)
    /\ Step(r, AfterAcquire(r))
    /\ UNCHANGED <<source, deployed, storeVars, late>>

LateLockRequest(r) ==
    /\ Land(r) \/ Lose(r)
    /\ UNCHANGED pubVars

(* A store request that outlived its run arrives, or never does.           *)
LateRequest(r) ==
    /\ late[r] # None
    /\ late' = [late EXCEPT ![r] = None]
    /\ \/ Perform(late[r])
       \/ UNCHANGED storeVars
    /\ UNCHANGED <<lockVars, source, deployed, job>>

-----------------------------------------------------------------------------
(* The surroundings: time, the indexer and deployments.                    *)

Time ==
    /\ Tick
    /\ UNCHANGED pubVars

IsProgress(p) == p.all <= p.cross /\ p.cross <= p.head

(* The indexer adds rows, or rewrites those of a day it has.               *)
Index ==
    /\ source.version < MaxVersion
    /\ \E p \in Progress :
          /\ IsProgress(p)
          /\ p.head <= BaseDay + (clock \div TicksPerDay)
          /\ p.all >= source.progress.all
          /\ p.cross >= source.progress.cross
          /\ p.head >= source.progress.head
          /\ p.head > 0
          /\ source' = [progress |-> p, version |-> source.version + 1]
    /\ UNCHANGED <<lockVars, deployed, storeVars, job, late>>

Reset == source' = [progress |-> NothingIndexed, version |-> source.version + 1]

Idle == \A r \in Run : pc[r] \notin Live /\ late[r] = None

(* A new deployment: the indexer starts from nothing (start-envio.ts adds  *)
(* -r) and new publisher runs carry the new id.                            *)
Redeploy(d) ==
    /\ source.version < MaxVersion
    /\ RedeployWhenIdle => Idle
    /\ d # deployed
    /\ deployed' = d
    /\ Reset
    /\ UNCHANGED <<lockVars, storeVars, job, late>>

(* The indexer service restarts without a new deployment id.               *)
Restart ==
    /\ RestartAllowed
    /\ source.version < MaxVersion
    /\ source.progress # NothingIndexed
    /\ Reset
    /\ UNCHANGED <<lockVars, deployed, storeVars, job, late>>

-----------------------------------------------------------------------------
(* A store to which deployment d, or an older publisher without one, has   *)
(* published all days up to `latest`.                                      *)
CompleteShards(d, latest) ==
    [k \in {Key(d, kind, month) : kind \in Kind,
                                  month \in MonthKeys(PublicStart, latest)} |->
        [days |-> DaysOf(k[3]) \cap (PublicStart .. latest), version |-> 0]]

PublishedUpTo(d, latest) ==
    /\ bucket = CompleteShards(d, latest)
    /\ manifest = [deployment |-> d, earliest |-> PublicStart, latest |-> latest,
                   artifacts |-> CompleteShards(d, latest)]

Init ==
    /\ LockInit
    /\ job = [r \in Run |-> NoJob]
    /\ late = [r \in Run |-> None]
    /\ deployed \in Deployment
    /\ \E p \in InitialProgress :
          /\ IsProgress(p)
          /\ p.head <= BaseDay
          /\ source = [progress |-> p, version |-> 0]
          /\ \/ bucket = [k \in {} |-> None] /\ manifest = None
             \/ /\ p.cross >= PublicStart
                /\ \E d \in {deployed, Stable} : PublishedUpTo(d, p.cross)

RunStep(r) ==
    \/ ReadManifest(r)
    \/ TakeLock(r)
    \/ FetchBounds(r)
    \/ \E k \in Kind : FetchRows(r, k)
    \/ AcceptRows(r)
    \/ WriteShard(r)
    \/ WriteManifest(r)
    \/ ListStale(r)
    \/ DeleteStale(r)
    \/ Unlock(r)

RunFault(r) ==
    \/ RequestThrows(r)
    \/ RunDies(r)
    \/ LockWriteRepeated(r)
    \/ LateLockRequest(r)
    \/ LateRequest(r)

Next ==
    \/ Time
    \/ Index
    \/ \E d \in Deployment : Redeploy(d)
    \/ Restart
    \/ \E r \in Run : BeginRun(r) \/ RunStep(r) \/ RunFault(r)

Spec == Init /\ [][Next]_vars

FairSpec == Spec /\ \A r \in Run : WF_vars(RunStep(r))

-----------------------------------------------------------------------------
(* Properties.                                                             *)

Keys == Prefix \X Kind \X Month

Contents == [days : SUBSET Day, version : 0 .. MaxVersion]

IsArtifacts(f) == DOMAIN f \subseteq Keys /\ \A k \in DOMAIN f : f[k] \in Contents

Stages == {"idle", "manifestRead", "lock", "bounds", "rows", "shards", "manifest",
           "list", "clean"}

(* The store holds shards under well-formed keys, the manifest announces   *)
(* days and lists such shards, a run is in one of the stages of            *)
(* publishMetricsArtifacts, and it is past the lock stage exactly while it *)
(* holds the lock.                                                         *)
PublisherTypeOK ==
    /\ LockTypeOK
    /\ source.version \in 0 .. MaxVersion /\ IsProgress(source.progress)
    /\ deployed \in Deployment
    /\ IsArtifacts(bucket)
    /\ manifest # None =>
          /\ manifest.deployment \in Prefix
          /\ manifest.earliest \in Day /\ manifest.latest \in Day
          /\ IsArtifacts(manifest.artifacts)
    /\ \A r \in Run :
          /\ job[r].stage \in Stages
          /\ pc[r] = "critical" <=>
                job[r].stage \notin {"idle", "manifestRead", "lock"}
          /\ job[r].stage \in {"manifestRead", "lock"} => pc[r] \in Acquiring

(* The manifest never points at nothing: every shard it lists is in the    *)
(* bucket, while shards are being written, replaced and cleaned up, after  *)
(* crashes, and when a request arrives late.  Readers resolve shard keys   *)
(* through the manifest and take a missing shard for an empty month.       *)
ListedShardsExist ==
    manifest # None => DOMAIN manifest.artifacts \subseteq DOMAIN bucket

(* The manifest lists the shards of its own deployment for exactly the     *)
(* months it announces, each month with every kind, and beside them only   *)
(* stable keys of such months: pruning never drops a month inside the      *)
(* announced dates and the ranges of successive runs leave no gap.         *)
KeysBetween(prefix, earliest, latest) ==
    {Key(prefix, k, month) : k \in Kind, month \in MonthKeys(earliest, latest)}

Covers(m) ==
    /\ KeysBetween(m.deployment, m.earliest, m.latest) \subseteq DOMAIN m.artifacts
    /\ DOMAIN m.artifacts \subseteq KeysBetween(m.deployment, m.earliest, m.latest)
                                       \cup KeysBetween(Stable, m.earliest, m.latest)

ManifestCoversDates == manifest # None => Covers(manifest)

(* The shards recorded in the manifest have a metrics row for every day it *)
(* announces.                                                              *)
MetricsKey(d) == Key(manifest.deployment, "metrics", MonthOf[d])

AnnouncedDaysRecorded ==
    manifest # None =>
        \A d \in manifest.earliest .. manifest.latest :
            d \in manifest.artifacts[MetricsKey(d)].days

(* A run that found no shards of its deployment in the manifest goes on    *)
(* with the bounds, and without the test for missing days, of a first      *)
(* publish, although other runs may have published while it waited.  It is *)
(* behind if they have announced days after its bounds.                    *)
Behind(r) ==
    LET j == job[r]
    IN  /\ j.stage \in {"rows", "shards", "manifest"}
        /\ ~HasPublished(j.base, j.deployment)
        /\ manifest # None /\ manifest.deployment = j.deployment
        /\ j.bounds < manifest.latest

BehindRunMoves == \E r \in Run : Behind(r) /\ job'[r] # job[r]

LateRequestLands == \E r \in Run : late[r] # None /\ late'[r] = None

(* No step takes a stored metrics row away from an announced day, although *)
(* a refresh rewrites announced shards in place and clean-up deletes them, *)
(* except a request that its run had given up on and a run that is behind. *)
Stored(d) == MetricsKey(d) \in DOMAIN bucket /\ d \in bucket[MetricsKey(d)].days

DaysKept ==
    (manifest # None /\ manifest' = manifest) =>
        \A d \in manifest.earliest .. manifest.latest :
            Stored(d) => Stored(d)' \/ LateRequestLands \/ BehindRunMoves

AnnouncedDaysStay == [][DaysKept]_vars

(* As long as the source only moves forward and runs do not overlap, the   *)
(* latest date announced for a deployment never moves back, with the same  *)
(* two exceptions.                                                         *)
LatestKept ==
    (/\ manifest # None /\ manifest' # None
     /\ manifest.deployment = manifest'.deployment
     /\ manifest'.latest < manifest.latest)
        => LateRequestLands \/ BehindRunMoves

LatestNeverMovesBack == [][LatestKept]_vars

(* A deployment takes over the manifest with all its announced days        *)
(* indexed on every chain and at most one day behind the clock of the run. *)
HandoverComplete ==
    (/\ manifest' # None
     /\ manifest # None => manifest.deployment # manifest'.deployment)
        => /\ manifest'.latest <= source.progress.all
           /\ \E r \in Run : /\ pc[r] = "critical" \/ late'[r] # late[r]
                             /\ FreshForHandover(manifest'.latest, Today(r))

HandoverOnlyWhenComplete == [][HandoverComplete]_manifest

(* A run that returns from the clean-up leaves no shard of another         *)
(* deployment behind, including those of runs that died half-way.          *)
CleanedUp ==
    \A r \in Run :
        (At(r, "list") \/ At(r, "clean")) /\ pc[r] = "critical" /\ pc'[r] = "releasing"
                /\ faults' = faults
            => \A k \in DOMAIN bucket' : k[1] \in {job[r].deployment, Stable}

CleanUpComplete == [][CleanedUp]_vars

(* Every path through the run - skipped, failed or published - gives the   *)
(* lock back, unless the process dies.                                     *)
LockGivenBack ==
    \A r \in Run : pc[r] = "critical" ~> lock # r \/ pc[r] \in Late \cup {"failed"}
=============================================================================
