---------------------------- MODULE PublisherStore ----------------------------
(***************************************************************************)
(* The publisher as readers of the store see it: a refinement mapping from *)
(* Publisher to PublishedArtifacts.  A reader uses the keys of a manifest's *)
(* artifacts and not the recorded hashes, and a request is given up when   *)
(* the first fault happens.                                                *)
(***************************************************************************)
EXTENDS PublisherInv

SeenManifest ==
    IF manifest = None THEN None
    ELSE [deployment |-> manifest.deployment,
          earliest   |-> manifest.earliest,
          latest     |-> manifest.latest,
          listed     |-> DOMAIN manifest.artifacts]

Artifacts ==
    INSTANCE PublishedArtifacts WITH
        Version  <- 0 .. MaxVersion,
        manifest <- SeenManifest,
        reliable <- (faults = 0)

(* The publisher keeps its promise to readers: through refreshes,          *)
(* handovers, clean-ups, failures and late requests, each step of a run    *)
(* changes one object of the store in a way that leaves a consistent set   *)
(* of artifacts (writeArtifact, putJson of the manifest and                *)
(* cleanupHistoricalDeploymentArtifacts in publisher.ts).                  *)
ImplementsArtifacts == Artifacts!ArtifactsSpec

(* Behind it: what a reader finds in the store at any time.                *)
SeenConsistently ==
    /\ SeenManifest = None => manifest = None
    /\ SeenManifest # None => Artifacts!IsManifest(SeenManifest)
    /\ Artifacts!Consistent(bucket, SeenManifest)
=============================================================================
