-------------------------- MODULE PublishedArtifacts --------------------------
(***************************************************************************)
(* What publishMetricsArtifacts promises to the readers of the object      *)
(* store, whatever its runs do: one object changes at a time, a manifest   *)
(* appears only when every shard it lists is there, a listed shard is      *)
(* never removed, a shard under a stable key is left alone, and, until a   *)
(* request has been given up, a listed shard is rewritten only by one that *)
(* still has every announced day.                                          *)
(*                                                                         *)
(* The publisher implements this specification (PublisherStore); the API   *)
(* is checked over it (MetricsApi).                                        *)
(***************************************************************************)
EXTENDS PublishRange, FiniteSets

CONSTANTS
    Deployment,   \* indexer deployment ids
    Stable,       \* what stands for one in keys that carry none
    Kind,         \* the kinds of shards
    Version,      \* versions of the source the rows were read from
    None          \* no manifest

ASSUME ArtifactsAssumption ==
    /\ "metrics" \in Kind
    /\ Stable \notin Deployment
    /\ None \notin Deployment

VARIABLES
    bucket,     \* the shards: [days, version] by <<prefix, kind, month>>
    manifest,   \* [deployment, earliest, latest, listed], or None
    reliable    \* no request of a publisher has been given up so far

artifactVars == <<bucket, manifest, reliable>>

-----------------------------------------------------------------------------
(* A key carries the deployment (v2/deployments/<id>/...) or, as written   *)
(* before there were deployments, none (v2/metrics/daily/...).             *)
Prefix == Deployment \cup {Stable}

Keys == Prefix \X Kind \X Month

OwnedKeys == Deployment \X Kind \X Month

MonthDays(month) == {d \in Day : MonthOf[d] = month}

IsShard(k, s) == s.days \subseteq MonthDays(k[3]) /\ s.version \in Version

(* The keys of deployment d, or the stable ones, for these dates.          *)
KeysOf(d, earliest, latest) ==
    {<<d, kind, month>> : kind \in Kind, month \in MonthKeys(earliest, latest)}

(* A manifest lists the shards of its deployment for the months it         *)
(* announces, and may list stable ones for them from before.               *)
IsManifest(m) ==
    /\ m.deployment \in Prefix
    /\ m.earliest \in Day /\ m.latest \in Day /\ m.earliest <= m.latest
    /\ KeysOf(m.deployment, m.earliest, m.latest) \subseteq m.listed
    /\ m.listed \subseteq KeysOf(m.deployment, m.earliest, m.latest)
                             \cup KeysOf(Stable, m.earliest, m.latest)

(* Every shard the manifest lists is in the bucket.                        *)
ListedIn(b, m) == m # None => m.listed \subseteq DOMAIN b

(* The bucket has a metrics row for every announced day.                   *)
ServedIn(b, m) ==
    m # None =>
        \A d \in m.earliest .. m.latest :
            LET k == <<m.deployment, "metrics", MonthOf[d]>>
            IN  k \in DOMAIN b /\ d \in b[k].days

Consistent(b, m) == ListedIn(b, m) /\ (reliable => ServedIn(b, m))

-----------------------------------------------------------------------------
ArtifactsInit ==
    /\ reliable = TRUE
    /\ manifest # None => IsManifest(manifest)
    /\ \A k \in DOMAIN bucket : k \in Keys /\ IsShard(k, bucket[k])
    /\ Consistent(bucket, manifest)

(* One shard is written, new or in place.                                  *)
StoreShard(k) ==
    /\ DOMAIN bucket' = DOMAIN bucket \cup {k}
    /\ IsShard(k, bucket'[k])
    /\ \A other \in DOMAIN bucket \ {k} : bucket'[other] = bucket[other]
    /\ Consistent(bucket', manifest)
    /\ UNCHANGED <<manifest, reliable>>

(* A manifest of the same deployment announces no day less than before.    *)
Extends(m, before) ==
    before.deployment = m.deployment =>
        m.earliest <= before.earliest /\ before.latest <= m.latest

(* The manifest is replaced by one over shards that are all there.         *)
Announce ==
    /\ manifest' # None /\ IsManifest(manifest')
    /\ reliable /\ manifest # None => Extends(manifest', manifest)
    /\ Consistent(bucket, manifest')
    /\ UNCHANGED <<bucket, reliable>>

(* A shard that is not listed is removed.                                  *)
RemoveShard(k) ==
    /\ DOMAIN bucket' = DOMAIN bucket \ {k}
    /\ \A other \in DOMAIN bucket' : bucket'[other] = bucket[other]
    /\ ListedIn(bucket', manifest)
    /\ UNCHANGED <<manifest, reliable>>

(* A request is given up; from now on one may arrive late.                 *)
GiveUp ==
    /\ reliable' = FALSE
    /\ UNCHANGED <<bucket, manifest>>

ArtifactsNext ==
    \/ \E k \in OwnedKeys : StoreShard(k) \/ RemoveShard(k)
    \/ Announce
    \/ GiveUp

ArtifactsSpec == ArtifactsInit /\ [][ArtifactsNext]_artifactVars
=============================================================================
