---------------------------- MODULE MetricsClient ----------------------------
(***************************************************************************)
(* The client library (apps/client/src/client.ts) over the API, and the    *)
(* two together over a store that a publisher changes.                     *)
(*                                                                         *)
(* One client object is shared by its users.  A call with autoPaginate     *)
(* waits for the bounds, which the client fetches once and keeps as a      *)
(* promise, splits the range into pages, fetches them all at once and      *)
(* joins them.  The other methods are one request each.  A fetch may fail  *)
(* at any time: a lost connection, or the timeout.                         *)
(***************************************************************************)
EXTENDS MetricsApi

CONSTANTS
    User,          \* concurrent calls on one client
    MaxPages,      \* bound: pages of a call
    Inputs,        \* inputs of calls with autoPaginate
    Requests,      \* requests of the other methods and of other clients
    MaxEvents,     \* bound: calls, failures and changes of the store together
    Heads,         \* latest days the publisher may reach
    InitialHead    \* the latest day published at the start

BoundsConn == <<"bounds", 1>>
DirectConn == <<"direct", 1>>

ASSUME ClientAssumption ==
    /\ MaxPages \in Nat
    /\ Conn = (User \X (1 .. MaxPages)) \cup {BoundsConn, DirectConn}
    /\ {"bounds", "direct"} \cap User = {}
    /\ \A input \in Inputs :
          /\ input.subject \in {"metrics", "assets", "supply"} \cap Kind
          /\ input.start \in Day /\ input.end \in Day \cup {NoDate}
          /\ input.records => input.subject = "metrics"
    /\ \A q \in Requests : q.path \in V2Path \cup LegacyPath /\ IsRecordList(q)
                               => Subject(q) \in Kind
    /\ Heads \cup {InitialHead} \subseteq PublicStart .. LastDay

VARIABLES
    call,        \* each user's call
    boundsPromise, \* the client's cached promise
    calls, drops, changes   \* what MaxEvents bounds

clientVars == <<call, boundsPromise, calls, drops, changes>>
vars       == <<artifactVars, apiVars, clientVars>>

-----------------------------------------------------------------------------
NoPromise == [state |-> "none"]
Pending   == [state |-> "pending"]

Get(path, range, records) ==
    [method |-> "GET", body |-> FALSE, validUrl |-> TRUE, path |-> path,
     params |-> <<"start", "end">> \o (IF records THEN <<"includeRecords">> ELSE <<>>),
     start |-> range.start, end |-> range.end, records |-> records, wg |-> <<>>]

BoundsRequest == [Get(BoundsPath, NoRange, FALSE) EXCEPT !.params = <<>>]

(* Mutants: the next chunk starts on the last day of the one before; a     *)
(* chunk is a day too long.                                                *)
SplitRangeRepeat(start, end, maxDays) ==
    [i \in 1 .. (end - start) \div maxDays + 1 |->
        [start |-> start + (i - 1) * (maxDays - 1),
         end   |-> EarlierOf(end, start + (i - 1) * (maxDays - 1) + maxDays - 1)]]
SplitRangeLong(start, end, maxDays) ==
    [i \in 1 .. (end - start) \div (maxDays + 1) + 1 |->
        [start |-> start + (i - 1) * (maxDays + 1),
         end   |-> EarlierOf(end, start + i * (maxDays + 1) - 1)]]

(* splitRange                                                              *)
SplitRange(start, end, maxDays) ==
    [i \in 1 .. (end - start) \div maxDays + 1 |->
        [start |-> start + (i - 1) * maxDays,
         end   |-> EarlierOf(end, start + i * maxDays - 1)]]

Failed(u)   == [stage |-> "failed", before |-> call[u].before,
                published |-> call[u].published]
Waiting     == {u \in User : call[u].stage = "bounds"}
HasAnswer(c) == exchange[c].stage = "answered"
Refused(c)  == HasAnswer(c) /\ exchange[c].answer.status # 200

Faults == readFaults + drops

MayHappen == calls + Faults + changes < MaxEvents

(* Other calls wait for a fetch of the bounds that has already failed.     *)
JoinsFailure == Refused(BoundsConn) /\ Waiting # {}

-----------------------------------------------------------------------------
(* getCachedBounds: a call joins the fetch under way, or starts one.       *)
BeginCall(u, input) ==
    /\ call[u].stage \in {"idle", "done", "failed"}
    /\ exchange[DirectConn] = Free
    /\ MayHappen
    /\ call' = [call EXCEPT ![u] =
                   [stage |-> "bounds", input |-> input,
                    published |-> manifest # None,
                    before |-> IF JoinsFailure THEN Faults - 1 ELSE Faults]]
    /\ IF boundsPromise = NoPromise
       THEN /\ boundsPromise' = Pending
            /\ Carry(BoundsConn, Arrived(BoundsRequest))
       ELSE UNCHANGED <<boundsPromise, exchange>>
    /\ calls' = calls + 1
    /\ UNCHANGED <<artifactVars, readFaults, drops, changes>>

(* A failed fetch of the bounds fails every call that waits for it and is  *)
(* forgotten.                                                              *)
Rejected ==
    /\ boundsPromise' = NoPromise
    /\ call' = [u \in User |-> IF u \in Waiting THEN Failed(u) ELSE call[u]]

(* Mutant: a failed fetch of the bounds stays cached.                      *)
BoundsArriveKept ==
    /\ boundsPromise = Pending
    /\ HasAnswer(BoundsConn)
    /\ IF Refused(BoundsConn)
       THEN /\ call' = [u \in User |-> IF u \in Waiting THEN Failed(u) ELSE call[u]]
            /\ UNCHANGED <<boundsPromise, exchange>>
       ELSE /\ boundsPromise' = [state |-> "value", bounds |-> exchange[BoundsConn].answer.data]
            /\ UNCHANGED call
            /\ Carry(BoundsConn, Free)
    /\ UNCHANGED <<artifactVars, readFaults, calls, drops, changes>>

BoundsArrive ==
    /\ boundsPromise = Pending
    /\ HasAnswer(BoundsConn)
    /\ IF Refused(BoundsConn) THEN Rejected
       ELSE /\ boundsPromise' = [state |-> "value", bounds |-> exchange[BoundsConn].answer.data]
            /\ UNCHANGED call
    /\ Carry(BoundsConn, Free)
    /\ UNCHANGED <<artifactVars, readFaults, calls, drops, changes>>

(* fetchAutoPaginated with the bounds at hand: all pages are asked for.    *)
SplitPages(u) ==
    LET input == call[u].input
        end   == IF input.end = NoDate THEN boundsPromise.bounds.latest ELSE input.end
        pages == SplitRange(input.start, end, boundsPromise.bounds.maxRange)
    IN  /\ call[u].stage = "bounds"
        /\ boundsPromise.state = "value"
        /\ \/ /\ end < input.start
              /\ call' = [call EXCEPT ![u] = Failed(u)]
              /\ UNCHANGED exchange
           \/ /\ end >= input.start
              /\ Len(pages) <= MaxPages
              /\ call' = [call EXCEPT ![u] =
                             [stage |-> "pages", before |-> @.before, published |-> @.published,
                              subject |-> input.subject,
                              range |-> [start |-> input.start, end |-> end],
                              count |-> Len(pages)]]
              /\ exchange' = [c \in Conn |->
                                 IF c[1] = u /\ c[2] <= Len(pages)
                                 THEN Arrived(Get(<<"v2", input.subject>>, pages[c[2]],
                                                  input.records))
                                 ELSE exchange[c]]
        /\ UNCHANGED <<artifactVars, readFaults, boundsPromise, calls, drops, changes>>

PageConns(u) == {<<u, i>> : i \in 1 .. call[u].count}

HangUp(u) == exchange' = [c \in Conn |-> IF c[1] = u THEN Free ELSE exchange[c]]

(* pages.flat()                                                            *)
JoinPages(u) ==
    /\ call[u].stage = "pages"
    /\ \A c \in PageConns(u) : HasAnswer(c) /\ ~Refused(c)
    /\ call' = [call EXCEPT ![u] =
                   [stage |-> "done", subject |-> @.subject, range |-> @.range,
                    result |-> FlattenSeq([i \in 1 .. @.count |->
                                              exchange[<<u, i>>].answer.data])]]
    /\ HangUp(u)
    /\ UNCHANGED <<artifactVars, readFaults, boundsPromise, calls, drops, changes>>

(* One refused page fails the call.                                        *)
PageRefused(u) ==
    /\ call[u].stage = "pages"
    /\ \E c \in PageConns(u) : Refused(c)
    /\ call' = [call EXCEPT ![u] = Failed(u)]
    /\ HangUp(u)
    /\ UNCHANGED <<artifactVars, readFaults, boundsPromise, calls, drops, changes>>

(* A fetch fails: the connection is lost, or the timeout aborts it.        *)
FetchFails ==
    /\ MayHappen
    /\ drops' = drops + 1
    /\ \/ /\ boundsPromise = Pending
          /\ Rejected
          /\ Carry(BoundsConn, Free)
       \/ \E u \in User :
             /\ call[u].stage = "pages"
             /\ call' = [call EXCEPT ![u] = Failed(u)]
             /\ HangUp(u)
             /\ UNCHANGED boundsPromise
    /\ UNCHANGED <<artifactVars, readFaults, calls, changes>>

(* query, getBounds and the daily helpers without autoPaginate, or a       *)
(* request made by hand.  The server keeps no state between requests, so   *)
(* one of them, apart from the calls, is enough.                           *)
Send(q) ==
    /\ calls = 0
    /\ Carry(DirectConn, Arrived(q))
    /\ calls' = 1
    /\ UNCHANGED <<artifactVars, readFaults, call, boundsPromise, drops, changes>>

-----------------------------------------------------------------------------
(* The publisher, by what it promises.                                     *)
Change(step) ==
    /\ MayHappen
    /\ step
    /\ changes' = changes + 1
    /\ UNCHANGED <<apiVars, call, boundsPromise, calls, drops>>

ManifestOf(d, latest) ==
    [deployment |-> d, earliest |-> PublicStart, latest |-> latest,
     listed |-> KeysOf(d, PublicStart, latest)]

(* Pruning keeps the stable keys of the announced months.                  *)
StableKept(latest) ==
    IF manifest = None THEN {}
    ELSE manifest.listed \cap KeysOf(Stable, PublicStart, latest)

Rewrite(k) ==
    /\ \E v \in Version, d \in Heads :
          bucket' = [key \in DOMAIN bucket \cup {k} |->
                        IF key = k THEN [days |-> MonthDays(k[3]) \cap (1 .. d), version |-> v]
                        ELSE bucket[key]]
    /\ StoreShard(k)

NewManifest ==
    /\ \E d \in Deployment, latest \in Heads :
          manifest' = [ManifestOf(d, latest) EXCEPT !.listed = @ \cup StableKept(latest)]
    /\ Announce

CleanUp(k) ==
    /\ k \in DOMAIN bucket
    /\ bucket' = Restrict(bucket, DOMAIN bucket \ {k})
    /\ RemoveShard(k)

Publishing ==
    \/ \E k \in OwnedKeys : Change(Rewrite(k)) \/ Change(CleanUp(k))
    \/ Change(NewManifest)
    \/ Change(reliable /\ GiveUp)

-----------------------------------------------------------------------------
(* A store to which deployment d, or a publisher before there were any,    *)
(* has published all days up to `latest`, or is about to, and where other  *)
(* deployments may have written shards.                                    *)
ShardsOf(ds, latest) ==
    [k \in {key \in Keys : key[1] \in ds /\ key[3] \in MonthKeys(PublicStart, latest)} |->
        [days    |-> MonthDays(k[3]) \cap (PublicStart .. latest),
         version |-> CHOOSE v \in Version : \A w \in Version : v <= w]]

Init ==
    /\ \E d \in Prefix :
          /\ bucket \in {ShardsOf({d}, InitialHead),
                         ShardsOf(Deployment \cup {d}, InitialHead)}
          /\ manifest \in {None, ManifestOf(d, InitialHead)}
    /\ ArtifactsInit
    /\ ApiInit
    /\ call = [u \in User |-> [stage |-> "idle"]]
    /\ boundsPromise = NoPromise
    /\ calls = 0 /\ drops = 0 /\ changes = 0

Server ==
    /\ \E c \in Conn : ServeStep(c) \/ (MayHappen /\ ReadFails(c))
    /\ UNCHANGED <<artifactVars, clientVars>>

Client ==
    \/ BoundsArrive
    \/ \E u \in User : SplitPages(u) \/ JoinPages(u) \/ PageRefused(u)

Next ==
    \/ \E u \in User, input \in Inputs : BeginCall(u, input)
    \/ \E q \in Requests : Send(q)
    \/ Client
    \/ FetchFails
    \/ Server
    \/ Publishing

Spec == Init /\ [][Next]_vars

-----------------------------------------------------------------------------
(* Properties.                                                             *)

GoodAnswer(c) == HasAnswer(c) /\ ~Refused(c)

(* Every announced day of a range is answered with its metric, although    *)
(* shards are rewritten and removed between the reads of a request, unless *)
(* another deployment took over before the answer or a given-up write      *)
(* arrived late.  readArtifactRows takes a missing shard for an empty      *)
(* month, so nothing else would tell the reader.  A deployment that is     *)
(* left and returned to within one request, five events at least, is       *)
(* excepted too, by the hypothesis of the theorem and here by MaxEvents.   *)
AnsweredInFull(x) ==
    \A i \in DOMAIN Data(x) :
        Data(x)[i].date \in x.manifest.earliest .. x.manifest.latest
            => Data(x)[i].block # 0

DaysServed ==
    \A c \in Conn :
        LET x == exchange[c]
        IN  (/\ x.stage = "reading" /\ exchange'[c].stage = "answered"
             /\ ~IsRecordList(x.request) /\ ~WantsComplete(x.request)
             /\ exchange'[c].answer.status = 200
             /\ reliable /\ manifest.deployment = x.manifest.deployment)
                => AnsweredInFull(x)

AnnouncedDaysServed == [][DaysServed]_vars

(* No answer mixes two snapshots of a day: the records attached to a       *)
(* metric are of the metric's own block, although metrics and records are  *)
(* read from shards that a refresh rewrites one after the other            *)
(* (isSelectedMetricBlock, attachMetricRecords).                           *)
RecordsMatchMetrics ==
    \A c \in Conn :
        (/\ GoodAnswer(c) /\ exchange[c].of.stage = "reading"
         /\ ~IsRecordList(exchange[c].of.request))
            => \A i \in DOMAIN exchange[c].answer.data :
                  LET m == exchange[c].answer.data[i]
                  IN  \A r \in m.records : r[2] = m.block

(* A legacy answer stays within the dates announced by the manifest it was *)
(* made from and has its days in descending order (resolveLegacyRange,     *)
(* legacyRowsDescending).                                                  *)
LegacyInsideBounds ==
    \A c \in Conn :
        (/\ GoodAnswer(c) /\ exchange[c].of.stage = "reading"
         /\ exchange[c].of.request.path \in LegacyPath)
            => LET data == exchange[c].answer.data
                   m    == exchange[c].of.manifest
               IN  /\ \A i \in DOMAIN data : data[i].date \in m.earliest .. m.latest
                   /\ \A i, j \in DOMAIN data : i < j => data[i].date > data[j].date

(* The pages of a call, cut by bounds that may be stale and answered in    *)
(* any order, join to every day of its range exactly once and in order     *)
(* (splitRange, fetchAutoPaginated).                                       *)
PagesCoverRange ==
    \A u \in User :
        LET range == call[u].range
            dates == [i \in DOMAIN call[u].result |-> call[u].result[i].date]
        IN  call[u].stage = "done" =>
                IF call[u].subject = "metrics"
                THEN dates = [i \in 1 .. range.end - range.start + 1 |-> range.start + i - 1]
                ELSE /\ \A i \in DOMAIN dates : dates[i] \in range.start .. range.end
                     /\ \A i, j \in DOMAIN dates : i < j => dates[i] < dates[j]

(* The client cuts ranges the way the API accepts them: a page is refused  *)
(* as a bad request only when a read of the store failed.                  *)
PagesNotRefused ==
    \A c \in Conn :
        (c[1] \in User /\ HasAnswer(c) /\ exchange[c].answer.status = 400)
            => readFaults > 0

(* A call fails only because of a fault during the call or an unpublished  *)
(* manifest: a failed fetch of the bounds is not kept for later calls      *)
(* (getCachedBounds).                                                      *)
FailsForCause ==
    \A u \in User :
        (call[u].stage = "failed" /\ call[u].published) => Faults > call[u].before
=============================================================================
