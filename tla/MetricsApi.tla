------------------------------ MODULE MetricsApi ------------------------------
(***************************************************************************)
(* The HTTP API over the published artifacts (metrics-api/src/server.ts).  *)
(* It keeps no state between requests: a request is checked, the manifest  *)
(* is read, then the monthly shards of the range one after the other, and  *)
(* the rows found are assembled into an answer.  Each read is a step, and  *)
(* the publisher may change the store between any two of them.             *)
(*                                                                         *)
(* A row is its day and the version of the source it comes from, which     *)
(* stands for the block of the snapshot on every chain.                    *)
(***************************************************************************)
EXTENDS PublishedArtifacts, Sequences, SequencesExt

CONSTANTS
    Conn,          \* connections, each of which carries one exchange at a time
    MaxRange,      \* maxRangeDays
    Partial,       \* days on which Arbitrum or Ethereum has no row
    BadDate        \* a date parameter that is not a date

ASSUME ApiAssumption ==
    /\ MaxRange \in Nat \ {0}
    /\ 0 \notin Version
    /\ Partial \subseteq Day
    /\ BadDate \notin Day \cup {NoDate}

VARIABLES
    exchange,   \* what each connection carries
    readFaults  \* failed reads so far

apiVars == <<exchange, readFaults>>

-----------------------------------------------------------------------------
(* Requests.  `params` are the query keys as given, `start` and `end` the  *)
(* dates (or NoDate), `records` is includeRecords, and `wg` the parsed     *)
(* wg_variables: a function over its field names, or BadDate when it is    *)
(* not a JSON object.                                                      *)

RecordKind == Kind \ {"metrics"}

(* Paths as tuples of their parts; tokenRecords and tokenSupplies are the  *)
(* legacy names of assets and supply.  The parameters of a path under      *)
(* /operations/ are checked before the path is found to be unknown.        *)
V2Path       == {"v2"} \X {"metrics", "assets", "supply"}
BoundsPath   == <<"v2", "bounds">>
LegacyPath   == {"latest", "earliest", "paginated"}
                    \X {"metrics", "assets", "supply", "protocolMetrics"}
AtBlockPath  == {"atBlock"} \X {"metrics", "assets", "supply", "protocolMetrics"}
StaticPath   == {<<"ready">>, <<"openapi.json">>, <<"docs">>}
HealthPath   == <<"operations", "health">>

UnknownOperation == <<"operations", "unknown">>

Operations == LegacyPath \cup AtBlockPath \cup {HealthPath, UnknownOperation}

SupportedParams(path) ==
    CASE path \in Operations            -> {"wg_variables"}
      [] path = <<"v2", "metrics">>     -> {"start", "end", "includeRecords"}
      [] path \in {<<"v2", "assets">>, <<"v2", "supply">>} -> {"start", "end"}
      [] path \in StaticPath \cup {BoundsPath} -> {}

CheckedPath == Operations \cup V2Path \cup StaticPath \cup {BoundsPath}
KnownPath   == CheckedPath \ {UnknownOperation}

UnsupportedParam(q) ==
    q.path \in CheckedPath /\ ~(ToSet(q.params) \subseteq SupportedParams(q.path))

DuplicateParam(q) == q.path \in CheckedPath /\ ~IsInjective(q.params)

LegacyFields  == {"startDate", "start", "endDate", "end", "includeRecords",
                  "crossChainDataComplete"}
IgnoredFields == {"dateOffset"}

BadVariables(q) ==
    q.wg = BadDate \/ ~(DOMAIN q.wg \subseteq LegacyFields \cup IgnoredFields)

(* Answers given before the store is read, in the order of the tests in    *)
(* handleMetricsApiRequestUnchecked.                                       *)
EarlyAnswers(q) ==
    << [if |-> q.method = "OPTIONS",           status |-> 204, code |-> "preflight"],
       [if |-> q.method \notin {"GET", "HEAD"}, status |-> 405, code |-> "method_not_allowed"],
       [if |-> q.body,             status |-> 400, code |-> "request_body_not_allowed"],
       [if |-> ~q.validUrl,        status |-> 400, code |-> "invalid_request_url"],
       [if |-> UnsupportedParam(q), status |-> 400, code |-> "unsupported_query_parameter"],
       [if |-> DuplicateParam(q),  status |-> 400, code |-> "duplicate_query_parameter"],
       [if |-> q.path \in StaticPath \cup {HealthPath}, status |-> 200, code |-> "static"],
       [if |-> q.path \in AtBlockPath, status |-> 501, code |-> "at_block"],
       [if |-> q.path \notin KnownPath, status |-> 404, code |-> "not_found"],
       [if |-> q.path \in LegacyPath /\ BadVariables(q),
                                   status |-> 400, code |-> "invalid_wg_variables"] >>

Early(q) == SelectInSeq(EarlyAnswers(q), LAMBDA a : a.if)

Error(status, code) == [status |-> status, code |-> code, data |-> <<>>]
Success(data)       == [status |-> 200, code |-> "ok", data |-> data]

-----------------------------------------------------------------------------
(* Ranges.                                                                 *)

BadRange == [start |-> BadDate, end |-> BadDate]

(* resolveDateRange: an invalid date, an end before the start or too many  *)
(* days throw.                                                             *)
ResolveRange(start, end) ==
    IF \/ start \notin Day \/ end \notin Day
       \/ end < start
       \/ end - start + 1 > MaxRange
    THEN BadRange ELSE [start |-> start, end |-> end]

(* resolveV2Range                                                          *)
V2Range(q, m) ==
    IF q.start = NoDate THEN BadRange
    ELSE ResolveRange(q.start, IF q.end = NoDate THEN m.latest ELSE q.end)

Field(wg, names, default) ==
    LET first == SelectInSeq(names, LAMBDA n : n \in DOMAIN wg)
    IN  IF first = 0 THEN default ELSE wg[names[first]]

NoRange == [start |-> NoDate, end |-> NoDate]

(* Mutant: the range is not clipped.                                       *)
ClipNothing(range, m) == range

Clip(range, m) ==
    IF range.end < m.earliest \/ range.start > m.latest THEN NoRange
    ELSE [start |-> LaterOf(range.start, m.earliest),
          end   |-> EarlierOf(range.end, m.latest)]

(* resolveLegacyRange: the limit applies to the range asked for, which is  *)
(* then clipped to the announced dates, or NoRange when it is outside.     *)
LegacyRange(q, m) ==
    LET asked == ResolveRange(Field(q.wg, <<"startDate", "start">>, m.earliest),
                              Field(q.wg, <<"endDate", "end">>, m.latest))
    IN  CASE q.path[1] = "latest"    -> ResolveRange(m.latest, m.latest)
          [] q.path[1] = "earliest"  -> ResolveRange(m.earliest, m.earliest)
          [] q.path[1] = "paginated" ->
                IF asked = BadRange THEN BadRange ELSE Clip(asked, m)

RequestRange(q, m) == IF q.path \in V2Path THEN V2Range(q, m) ELSE LegacyRange(q, m)

BadRangeCode(q) ==
    IF q.path \in V2Path THEN "invalid_date_range" ELSE "invalid_legacy_request"

-----------------------------------------------------------------------------
(* What a request reads, and what it makes of the rows.                    *)

Subject(q) == q.path[2]

(* The endpoint serves records of one kind, filtered by the metrics.       *)
IsRecordList(q) == Subject(q) \in {"assets", "supply"}

WantsRecords(q) ==
    IF q.path \in V2Path THEN q.records
    ELSE Field(q.wg, <<"includeRecords">>, FALSE) = TRUE

WantsComplete(q) ==
    q.path \in LegacyPath /\ Field(q.wg, <<"crossChainDataComplete">>, FALSE) = TRUE

KindsRead(q) ==
    {"metrics"} \cup
    (IF IsRecordList(q) THEN {Subject(q)} \cap Kind
     ELSE IF WantsRecords(q) THEN RecordKind ELSE {})

(* Two readArtifactRows run side by side in readSelectedDailyRecords, one  *)
(* after the other in readDailyMetrics.                                    *)
ReadOrder == <<"metrics", "assets", "supply">>

MayRead(x, k) ==
    /\ x.left[k] # {}
    /\ IsRecordList(x.request) \/
          \A i, j \in 1 .. 3 : i < j /\ ReadOrder[j] = k /\ ReadOrder[i] \in Kind
                                  => x.left[ReadOrder[i]] = {}

(* artifactKeyForMonth: the shard of the manifest's deployment, which is   *)
(* Stable if it names none, or else the stable one, or else any other one. *)
ArtifactKey(m, k, month) ==
    LET own    == <<m.deployment, k, month>>
        stable == <<Stable, k, month>>
        others == {key \in m.listed : key[1] \in Deployment /\ key[2] = k /\ key[3] = month}
    IN  IF own \in m.listed THEN own
        ELSE IF stable \in m.listed \/ others = {} THEN stable
        ELSE CHOOSE key \in others : TRUE

(* Mutant: the last day of the range is left out.                          *)
MonthRowsOpen(m, k, month, range) ==
    LET key == ArtifactKey(m, k, month)
    IN  IF key \notin DOMAIN bucket THEN {}
        ELSE {[date |-> d, block |-> bucket[key].version] :
                 d \in {e \in bucket[key].days : range.start <= e /\ e < range.end}}

(* The rows of a month inside the range; none when the shard is missing.   *)
MonthRows(m, k, month, range) ==
    LET key == ArtifactKey(m, k, month)
    IN  IF key \notin DOMAIN bucket THEN {}
        ELSE {[date |-> d, block |-> bucket[key].version] :
                 d \in bucket[key].days \cap (range.start .. range.end)}

MetricRows(x, d) == {row \in x.rows["metrics"] : row.date = d}

(* Mutant: records of any block are kept.                                  *)
SelectedAnyBlock(x, row) == MetricRows(x, row.date) # {}

(* isSelectedMetricBlock                                                   *)
Selected(x, row) == \E m \in MetricRows(x, row.date) : m.block = row.block

SelectedRows(x, k) == {row \in x.rows[k] : Selected(x, row)}

(* A daily metric; block 0 is that of buildEmptyDailyMetric.               *)
Metric(x, d) ==
    LET found == MetricRows(x, d)
    IN  [date     |-> d,
         block    |-> IF found = {} THEN 0 ELSE (CHOOSE row \in found : TRUE).block,
         complete |-> found # {} /\ d \notin Partial,
         records  |-> IF IsRecordList(x.request) \/ ~WantsRecords(x.request) THEN {}
                      ELSE UNION {{<<k, row.block>> : row \in
                                      {r \in SelectedRows(x, k) : r.date = d}} :
                                  k \in RecordKind}]

DailyMetrics(x) ==
    [i \in 1 .. x.range.end - x.range.start + 1 |-> Metric(x, x.range.start + i - 1)]

(* What the days of the range contribute, in the order of the days.        *)
ByDay(x, Of(_)) ==
    FlattenSeq([i \in 1 .. x.range.end - x.range.start + 1 |-> Of(x.range.start + i - 1)])

RecordList(x) ==
    LET ofDay(d) == SetToSeq({row \in SelectedRows(x, Subject(x.request)) : row.date = d})
    IN  ByDay(x, ofDay)

CompleteMetrics(x) ==
    LET ofDay(d) == IF Metric(x, d).complete THEN <<Metric(x, d)>> ELSE <<>>
    IN  ByDay(x, ofDay)

(* readLegacyOperation and the v2 handlers; legacy lists are descending.   *)
Data(x) ==
    LET all      == DailyMetrics(x)
        filtered == IF WantsComplete(x.request) THEN CompleteMetrics(x) ELSE all
    IN  CASE x.request.path \in V2Path /\ IsRecordList(x.request) -> RecordList(x)
          [] x.request.path \in V2Path /\ ~IsRecordList(x.request) -> all
          [] x.request.path \in LegacyPath /\ IsRecordList(x.request) -> Reverse(RecordList(x))
          [] x.request.path \in {<<"latest", "metrics">>, <<"earliest", "metrics">>} ->
                IF filtered # <<>> THEN <<Head(filtered)>>
                ELSE <<Metric([x EXCEPT !.rows["metrics"] = {}], x.range.start)>>
          [] OTHER -> Reverse(filtered)

Bounds(m) ==
    [earliest |-> m.earliest, latest |-> m.latest, maxRange |-> MaxRange]

-----------------------------------------------------------------------------
(* Steps of an exchange.                                                   *)

Free == [stage |-> "free"]

Carry(c, x) == exchange' = [exchange EXCEPT ![c] = x]

(* The answer to an exchange, which is kept to tell what it was made from. *)
Answered(x, answer) == [stage |-> "answered", of |-> x, answer |-> answer]

(* A request arrives and is checked.                                       *)
Arrived(q) ==
    LET x == [stage |-> "manifest", request |-> q]
        i == Early(q)
    IN  IF i = 0 THEN x
        ELSE Answered(x, Error(EarlyAnswers(q)[i].status, EarlyAnswers(q)[i].code))

(* getPublishedManifest, and the range of the request.                     *)
Located(x) ==
    LET m     == manifest
        range == RequestRange(x.request, m)
    IN  CASE m = None -> Answered(x, Error(503, "manifest_not_published"))
          [] m # None /\ x.request.path = BoundsPath -> Answered(x, Success(Bounds(m)))
          [] m # None /\ x.request.path # BoundsPath /\ range = BadRange ->
                Answered(x, Error(400, BadRangeCode(x.request)))
          [] m # None /\ x.request.path # BoundsPath /\ range = NoRange ->
                Answered(x, Success(<<>>))
          [] OTHER ->
                [stage |-> "reading", request |-> x.request, manifest |-> m, range |-> range,
                 left |-> [k \in Kind |-> IF k \in KindsRead(x.request)
                                          THEN MonthKeys(range.start, range.end) ELSE {}],
                 rows |-> [k \in Kind |-> {}]]

ReadManifest(c) ==
    /\ exchange[c].stage = "manifest"
    /\ Carry(c, Located(exchange[c]))
    /\ UNCHANGED readFaults

(* readArtifactRows: the months in ascending order.                        *)
ReadShard(c, k) ==
    LET x     == exchange[c]
        month == CHOOSE m \in x.left[k] : \A other \in x.left[k] : m <= other
    IN  /\ x.stage = "reading"
        /\ MayRead(x, k)
        /\ Carry(c, [x EXCEPT !.left[k] = @ \ {month},
                              !.rows[k] = @ \cup MonthRows(x.manifest, k, month, x.range)])
        /\ UNCHANGED readFaults

Respond(c) ==
    LET x == exchange[c]
    IN  /\ x.stage = "reading"
        /\ \A k \in Kind : x.left[k] = {}
        /\ Carry(c, Answered(x, Success(Data(x))))
        /\ UNCHANGED readFaults

(* A read of the store throws something other than "not found".  The       *)
(* manifest's failure is reported as such, a shard's as a bad request.     *)
ReadFails(c) ==
    LET x == exchange[c]
    IN  /\ \/ /\ x.stage = "manifest"
              /\ Carry(c, Answered(x, Error(503, "manifest_unavailable")))
           \/ /\ x.stage = "reading"
              /\ \E k \in Kind : MayRead(x, k)
              /\ Carry(c, Answered(x, Error(400, BadRangeCode(x.request))))
        /\ readFaults' = readFaults + 1

ServeStep(c) ==
    \/ ReadManifest(c)
    \/ \E k \in Kind : ReadShard(c, k)
    \/ Respond(c)

ApiInit ==
    /\ exchange = [c \in Conn |-> Free]
    /\ readFaults = 0
=============================================================================
