------------------------------ MODULE PublisherInv ------------------------------
(***************************************************************************)
(* The inductive invariants of the publisher: what each run, each late     *)
(* request and the manifest may rely on in the store (StoreInv, behind     *)
(* ListedShardsExist), the values they hold (ValuesInv, behind             *)
(* PublisherTypeOK), the dates they announce (DatesInv, behind             *)
(* ManifestCoversDates), the rows they carry (RecordsInv, behind           *)
(* AnnouncedDaysRecorded and HandoverOnlyWhenComplete), how far their      *)
(* bounds reach (ForwardInv, behind LatestNeverMovesBack and               *)
(* AnnouncedDaysStay) and the days they find in the store (ServedInv,      *)
(* behind ImplementsArtifacts of PublisherStore).                          *)
(***************************************************************************)
EXTENDS Publisher

(* The fields a run has at each stage.                                     *)
JobShape(j) ==
    \/ j = NoJob
    \/ /\ j.stage = "manifestRead"
       /\ j = [stage |-> j.stage, deployment |-> j.deployment, window |-> j.window]
    \/ /\ j.stage \in {"lock", "bounds"}
       /\ j = [stage |-> j.stage, deployment |-> j.deployment,
               window |-> j.window, base |-> j.base]
    \/ /\ j.stage = "rows"
       /\ j = [stage |-> j.stage, deployment |-> j.deployment, base |-> j.base,
               bounds |-> j.bounds, range |-> j.range, rows |-> j.rows]
    \/ /\ j.stage \in {"shards", "manifest"}
       /\ j = [stage |-> j.stage, deployment |-> j.deployment, base |-> j.base,
               bounds |-> j.bounds, range |-> j.range, rows |-> j.rows,
               next |-> j.next]
    \/ /\ j.stage = "list"
       /\ j = [stage |-> j.stage, deployment |-> j.deployment]
    \/ /\ j.stage = "clean"
       /\ j = [stage |-> j.stage, deployment |-> j.deployment, stale |-> j.stale]

UnderLock == {"bounds", "rows", "shards", "manifest", "list", "clean"}

Control(r) ==
    /\ JobShape(job[r])
    /\ At(r, "manifestRead") => pc[r] = "starting"
    /\ At(r, "lock") => pc[r] \in Acquiring
    /\ job[r].stage \in UnderLock => pc[r] = "critical"
    /\ ~At(r, "idle") => job[r].deployment = deployed

(* A manifest announces days, and of the shards it lists, those of the     *)
(* current deployment and the stable ones are in the bucket.               *)
Announces(m) == m # None => m.earliest \in Day /\ m.latest \in Day

Based(m) ==
    m # None =>
        \A k \in DOMAIN m.artifacts :
            k[1] \in {deployed, Stable} => k \in DOMAIN bucket

Listed(m) ==
    m # None =>
        \A k \in DOMAIN m.artifacts :
            k[1] \in {m.deployment, Stable} /\ k \in DOMAIN bucket

(* The shards that come before `place` in writing order are in the bucket. *)
Precedes(month, kind, place) ==
    month < place.month \/ (month = place.month /\ kind < place.kind)

WrittenBefore(j) ==
    /\ j.next = [month |-> j.next.month, kind |-> j.next.kind]
    /\ j.next.month \in MonthKeys(j.range.start, j.range.end)
    /\ j.next.kind \in 1 .. Len(Kinds)
    /\ \A month \in MonthKeys(j.range.start, j.range.end), kind \in 1 .. Len(Kinds) :
          Precedes(month, kind, j.next)
              => Key(j.deployment, Kinds[kind], month) \in DOMAIN bucket

Working(j) ==
    /\ j.stage \in {"manifestRead", "lock", "bounds"} => j.window \in Windows
    /\ j.stage \in {"lock", "bounds", "rows", "shards", "manifest"} =>
          Announces(j.base) /\ Based(j.base)
    /\ j.stage \in {"rows", "shards", "manifest"} =>
          /\ j.bounds \in Day
          /\ j.range \in [start : Day, end : Day]
          /\ ValidRange(j.range)
    /\ j.stage = "shards" => WrittenBefore(j)
    /\ j.stage = "manifest" => ShardKeys(j) \subseteq DOMAIN bucket

(* Shards are deleted only when the manifest is past their deployment.     *)
HandedOver == manifest # None => manifest.deployment = deployed

Cleaning(j) ==
    /\ j.stage \in {"list", "clean"} => HandedOver
    /\ j.stage = "clean" => \A k \in j.stale : k[1] \notin {deployed, Stable}

Pending(request) ==
    /\ request.op = "manifest" =>
          /\ Announces(request.manifest)
          /\ Listed(request.manifest)
          /\ request.manifest.deployment = deployed
    /\ request.op = "delete" => HandedOver /\ request.key[1] \notin {deployed, Stable}

StoreInv ==
    /\ source.progress \in Progress
    /\ DOMAIN job = Run /\ DOMAIN late = Run
    /\ Announces(manifest) /\ Listed(manifest)
    /\ \A r \in Run :
          /\ Control(r) /\ Working(job[r]) /\ Cleaning(job[r])
          /\ late[r] # None => Pending(late[r])

-----------------------------------------------------------------------------
(* Values: shards of calendar days under well-formed keys.                 *)

IsManifest(m) ==
    /\ m.deployment \in Prefix
    /\ m.earliest \in Day /\ m.latest \in Day
    /\ IsArtifacts(m.artifacts)

JobValues(j) ==
    /\ JobShape(j)
    /\ j.stage # "idle" => j.deployment \in Deployment
    /\ j.stage \in {"manifestRead", "lock", "bounds"} => j.window \in Windows
    /\ j.stage \in {"lock", "bounds", "rows", "shards", "manifest"} =>
          (j.base # None => IsManifest(j.base))
    /\ j.stage \in {"rows", "shards", "manifest"} =>
          /\ j.bounds \in Day
          /\ j.range \in [start : Day, end : Day]
          /\ ValidRange(j.range)
    /\ j.stage = "rows" => j.rows \in [Kind -> Contents \cup {None}]
    /\ j.stage \in {"shards", "manifest"} => j.rows \in [Kind -> Contents]
    /\ j.stage = "shards" =>
          j.next \in [month : MonthKeys(j.range.start, j.range.end),
                      kind : 1 .. Len(Kinds)]

RequestValues(request) ==
    \/ /\ request.op = "shard"
       /\ request.key \in Keys /\ request.key[1] \in Deployment
       /\ request.shard \in Contents
    \/ request.op = "manifest" /\ IsManifest(request.manifest)
    \/ request.op = "delete"

(* A run has a job under the lock exactly while it holds the lock.         *)
Placed(r) ==
    /\ pc[r] = "critical" <=> job[r].stage \in UnderLock
    /\ At(r, "manifestRead") => pc[r] = "starting"
    /\ At(r, "lock") => pc[r] \in Acquiring

ValuesInv ==
    /\ source.version \in 0 .. MaxVersion
    /\ source.progress \in Progress /\ IsProgress(source.progress)
    /\ deployed \in Deployment
    /\ IsArtifacts(bucket)
    /\ manifest # None => IsManifest(manifest)
    /\ DOMAIN job = Run /\ DOMAIN late = Run
    /\ \A r \in Run :
          /\ JobValues(job[r])
          /\ Placed(r)
          /\ late[r] # None => RequestValues(late[r])

-----------------------------------------------------------------------------
(* Dates, when no run is given a window (PUBLISHER_START_DATE and          *)
(* PUBLISHER_END_DATE are unset).                                          *)

Unwindowed == \A w \in Windows : w = [start |-> NoDate, end |-> NoDate]

Covering(m) ==
    m # None =>
        /\ m.earliest = PublicStart
        /\ PublicStart <= m.latest
        /\ Covers(m)

(* The range of a run ends with the bounds of the source and starts with   *)
(* the first public day, or with a month in which, or after which, the     *)
(* days follow that the manifest it read does not announce.                *)
Joining(j) ==
    /\ j.range.end = j.bounds
    /\ PublicStart <= j.range.start
    /\ \/ j.range.start = PublicStart
       \/ /\ HasPublished(j.base, j.deployment)
          /\ j.range.start = FirstDayOfMonth(j.range.start)
          /\ MonthOf[j.range.start] <= MonthOf[DayAfter(j.base.latest)]

Dated(j) ==
    /\ j.stage \in {"lock", "bounds", "rows", "shards", "manifest"} => Covering(j.base)
    /\ j.stage \in {"rows", "shards", "manifest"} => Joining(j)

DatesInv ==
    /\ Covering(manifest)
    /\ \A r \in Run :
          /\ Dated(job[r])
          /\ (late[r] # None /\ late[r].op = "manifest") => Covering(late[r].manifest)

-----------------------------------------------------------------------------
(* Rows, when moreover the source only moves forward under a deployment    *)
(* and a deployment waits for the runs of the previous one.                *)

Recorded(m) ==
    m # None =>
        \A d \in m.earliest .. m.latest :
            d \in m.artifacts[Key(m.deployment, "metrics", MonthOf[d])].days

(* The manifest is that of the current deployment.                         *)
TakenOver == manifest # None /\ manifest.deployment = deployed

(* What a deployment needs to take over the manifest: the day is indexed   *)
(* on every chain and not more than one day behind the clock of the run.   *)
FitForHandover(latest, r) ==
    latest <= source.progress.all /\ FreshForHandover(latest, Today(r))

(* What makes a manifest fit to be published by a run, now or later.       *)
Publishable(m, r) ==
    /\ m # None
    /\ Recorded(m)
    /\ TakenOver \/ FitForHandover(m.latest, r)

(* The rows of a run have a metrics row for every day of its range.        *)
HasRows(j) == DaysFrom(j.range) \subseteq j.rows["metrics"].days

(* What a run that read the manifest carries to its own.                   *)
Carrying(r) ==
    LET j == job[r]
    IN  /\ j.stage \in {"lock", "bounds", "rows", "shards", "manifest"} =>
              /\ Recorded(j.base)
              /\ HasPublished(j.base, j.deployment) => TakenOver
        /\ j.stage \in {"rows", "shards", "manifest"} =>
              (~HasPublished(j.base, j.deployment) => FitForHandover(j.bounds, r))
        /\ j.stage = "rows" =>
              (~HasPublished(j.base, j.deployment) /\ j.rows["metrics"] # None => HasRows(j))
        /\ j.stage \in {"shards", "manifest"} => HasRows(j)

RecordsOf(r) ==
    /\ Carrying(r)
    /\ late[r] # None => pc[r] # "idle"
    /\ (late[r] # None /\ late[r].op = "manifest") => Publishable(late[r].manifest, r)

RecordsInv == Recorded(manifest) /\ \A r \in Run : RecordsOf(r)

(* Behind CleanUpComplete: a run that deletes stale shards has listed all  *)
(* there are, and no request puts another one there.                       *)
KnowsStale(r) ==
    At(r, "clean") =>
        \A k \in DOMAIN bucket : k[1] \notin {deployed, Stable} => k \in job[r].stale

OwnLate(r) == (late[r] # None /\ late[r].op = "shard") => late[r].key[1] = deployed

CleanUpInv == \A r \in Run : KnowsStale(r) /\ OwnLate(r)

-----------------------------------------------------------------------------
(* Latest dates, when moreover every run ends before its lock expires, so  *)
(* that runs do not overlap, and a deployment id is not taken up again     *)
(* while its manifest is still published.                                  *)

LocksLast == \A r \in Run : pc[r] = "critical" => Unexpired(r)

OneAtATime ==
    \A q, r \in Run : pc[q] = "critical" /\ pc[r] = "critical" => q = r

IdIsNew ==
    (manifest # None /\ deployed' # deployed) => manifest.deployment # deployed'

(* No manifest of the deployment announces days that are not indexed.      *)
Reached(m) ==
    (m # None /\ m.deployment = deployed) => m.latest <= source.progress.cross

(* The bounds of a refresh reach to all days announced, now or by a        *)
(* request that is still under way.                                        *)
Reaching(r) ==
    LET j == job[r]
    IN  j.stage \in {"rows", "shards", "manifest"} =>
            /\ j.bounds <= source.progress.cross
            /\ HasPublished(j.base, j.deployment) =>
                  /\ manifest.latest <= j.bounds
                  /\ \A q \in Run :
                        (late[q] # None /\ late[q].op = "manifest")
                            => late[q].manifest.latest <= j.bounds

ForwardInv ==
    /\ Reached(manifest)
    /\ \A r \in Run :
          /\ Reaching(r)
          /\ (late[r] # None /\ late[r].op = "manifest") => Reached(late[r].manifest)

-----------------------------------------------------------------------------
(* What the store holds, when moreover no run is behind: until a request   *)
(* fails, every announced day, and every day of the shards a run has       *)
(* written so far.                                                         *)

NobodyBehind == \A r \in Run : ~Behind(r)

Served == manifest # None => \A d \in manifest.earliest .. manifest.latest : Stored(d)

WroteMetrics(j, month) ==
    \E i \in 1 .. Len(Kinds) :
        Kinds[i] = "metrics" /\ (j.stage = "manifest" \/ Precedes(month, i, j.next))

StoredRows(j) ==
    \A d \in DaysFrom(j.range) :
        WroteMetrics(j, MonthOf[d]) =>
            LET k == Key(j.deployment, "metrics", MonthOf[d])
            IN  k \in DOMAIN bucket /\ d \in bucket[k].days

Keeping(r) ==
    LET j == job[r]
    IN  /\ late[r] = None
        /\ j.stage \in {"lock", "bounds", "rows", "shards", "manifest"} =>
              (HasPublished(j.base, j.deployment) => j.base.latest <= manifest.latest)
        /\ j.stage \in {"shards", "manifest"} => StoredRows(j)

LateOfMonth(r) ==
    (late[r] # None /\ late[r].op = "shard")
        => late[r].shard.days \subseteq DaysOf(late[r].key[3])

ServedInv ==
    /\ faults = 0 => Served /\ \A r \in Run : Keeping(r)
    /\ \A r \in Run : LateOfMonth(r)
=============================================================================
