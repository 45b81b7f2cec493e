------------------------------- MODULE MCMetrics -------------------------------
(* The API and the client on four public days in two months, with pages of *)
(* at most two days.                                                       *)
EXTENDS MetricsClient, TLC

CONSTANTS u1, u2, d1, d2

MCMonthOf    == [d \in 0 .. 4 |-> IF d = 0 THEN 0 ELSE IF d < 3 THEN 1 ELSE 2]
MCMonthStart == [m \in 0 .. 2 |-> IF m = 0 THEN 0 ELSE IF m = 1 THEN 1 ELSE 3]

MCConn == ({u1, u2} \X (1 .. 2)) \cup {<<"bounds", 1>>, <<"direct", 1>>}

MCInputs == {[subject |-> "metrics", start |-> 2, end |-> 4, records |-> FALSE],
             [subject |-> "assets", start |-> 1, end |-> NoDate, records |-> FALSE]}

Plain(path) == [method |-> "GET", body |-> FALSE, validUrl |-> TRUE, path |-> path,
                params |-> <<>>, start |-> NoDate, end |-> NoDate,
                records |-> FALSE, wg |-> <<>>]

Legacy(path, wg) == [Plain(path) EXCEPT !.params = <<"wg_variables">>, !.wg = wg]

Daily(subject, start, end, records) == Get(<<"v2", subject>>, [start |-> start, end |-> end], records)

(* Requests that are read from the store.                                  *)
Served == {Daily("metrics", 2, 3, TRUE), Daily("assets", 2, 3, FALSE),
           Legacy(<<"latest", "metrics">>, <<>>),
           Legacy(<<"earliest", "metrics">>, "crossChainDataComplete" :> TRUE),
           Legacy(<<"paginated", "metrics">>,
                  "startDate" :> 0 @@ "end" :> 1 @@ "includeRecords" :> TRUE),
           Legacy(<<"paginated", "assets">>, "start" :> 2 @@ "endDate" :> 3 @@ "dateOffset" :> 7),
           Legacy(<<"latest", "protocolMetrics">>, <<>>),
           Plain(BoundsPath)}

(* Requests that are refused or answered without a shard.                  *)
Turned == {[Plain(<<"ready">>) EXCEPT !.method = "OPTIONS"],
           [Plain(<<"ready">>) EXCEPT !.method = "POST"],
           [Plain(<<"ready">>) EXCEPT !.body = TRUE],
           [Plain(<<"ready">>) EXCEPT !.validUrl = FALSE],
           [Plain(<<"ready">>) EXCEPT !.params = <<"start">>],
           [Daily("assets", 2, 3, FALSE) EXCEPT !.params = <<"start", "start">>],
           Plain(<<"ready">>), Plain(HealthPath), Plain(<<"atBlock", "metrics">>),
           Plain(<<"healthz">>), Plain(UnknownOperation),
           [Plain(UnknownOperation) EXCEPT !.params = <<"start">>],
           Legacy(<<"latest", "metrics">>, BadDate),
           Legacy(<<"latest", "metrics">>, "ignoreCache" :> TRUE),
           Legacy(<<"paginated", "metrics">>, "startDate" :> 0 @@ "endDate" :> 0),
           Legacy(<<"paginated", "metrics">>, "startDate" :> 0 @@ "endDate" :> 2),
           Daily("metrics", NoDate, 3, FALSE), Daily("metrics", 1, 4, FALSE),
           Daily("metrics", BadDate, 3, FALSE)}

MCRequests == Served \cup Turned

Symmetric == Permutations(User) \cup Permutations(Deployment)
=============================================================================
