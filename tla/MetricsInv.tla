------------------------------ MODULE MetricsInv ------------------------------
(***************************************************************************)
(* The inductive invariants behind the properties of the API and the       *)
(* client: what an exchange has read so far, what an answer was made from, *)
(* which exchanges carry the pages of a call, and why a call may fail.     *)
(***************************************************************************)
EXTENDS MetricsClient

-----------------------------------------------------------------------------
(* The store.                                                              *)
ArtifactsInv ==
    /\ manifest # None => IsManifest(manifest)
    /\ \A k \in DOMAIN bucket : k \in Keys /\ IsShard(k, bucket[k])
    /\ Consistent(bucket, manifest)
    /\ reliable \in BOOLEAN

-----------------------------------------------------------------------------
(* An exchange.                                                            *)

(* The requests for which the store is read.                               *)
Routed(q) ==
    /\ q.path \in V2Path \cup LegacyPath \cup {BoundsPath}
    /\ q.path # BoundsPath /\ IsRecordList(q) => Subject(q) \in Kind

IsRange(range) ==
    /\ range = [start |-> range.start, end |-> range.end]
    /\ range.start \in Day /\ range.end \in Day
    /\ range.start <= range.end

(* Rows of a kind are of days of the range in months that have been read,  *)
(* at most one for each day.                                               *)
RowsFit(x, k) ==
    /\ \A row \in x.rows[k] :
          /\ row.date \in x.range.start .. x.range.end
          /\ MonthOf[row.date] \notin x.left[k]
          /\ row.block \in Version
    /\ \A a, b \in x.rows[k] : a.date = b.date => a = b

Reading(x) ==
    /\ x = [stage |-> "reading", request |-> x.request, manifest |-> x.manifest,
            range |-> x.range, left |-> x.left, rows |-> x.rows]
    /\ Routed(x.request) /\ x.request.path # BoundsPath
    /\ IsManifest(x.manifest)
    /\ IsRange(x.range) /\ x.range = RequestRange(x.request, x.manifest)
    /\ x.left \in [Kind -> SUBSET Month]
    /\ DOMAIN x.rows = Kind
    /\ \A k \in Kind : RowsFit(x, k)

(* An answer with rows is made from all months of the range.               *)
MadeFrom(x) ==
    (x.answer.status = 200 /\ x.of.stage = "reading")
        => /\ Reading(x.of)
           /\ \A k \in Kind : x.of.left[k] = {}
           /\ x.answer.data = Data(x.of)

ExchangeInv(x) ==
    /\ x.stage \in {"free", "manifest", "reading", "answered"}
    /\ x.stage = "free" => x = Free
    /\ x.stage = "manifest" => x = [stage |-> "manifest", request |-> x.request] /\ Routed(x.request)
    /\ x.stage = "reading" => Reading(x)
    /\ x.stage = "answered" => x = Answered(x.of, x.answer) /\ MadeFrom(x)

ExchangesInv ==
    /\ exchange = [c \in Conn |-> exchange[c]]
    /\ readFaults \in Nat
    /\ \A c \in Conn : ExchangeInv(exchange[c])

(* Calls that wait for the bounds keep their input.                        *)
InputsInv ==
    /\ call = [u \in User |-> call[u]]
    /\ \A u \in User : call[u].stage = "bounds" => call[u].input \in Inputs

ApiInv == ArtifactsInv /\ ExchangesInv /\ InputsInv

(* While the deployment an exchange reads is the published one and all     *)
(* writes arrived in time, its announced days are still announced, and it  *)
(* has a metric for each of them whose month it has read.                  *)
Current(x) == reliable /\ manifest.deployment = x.manifest.deployment

HasDays(x) ==
    \A d \in x.range.start .. x.range.end :
        d \in x.manifest.earliest .. x.manifest.latest
            => MonthOf[d] \in x.left["metrics"] \/ MetricRows(x, d) # {}

ServedInv ==
    \A c \in Conn :
        exchange[c].stage = "reading" =>
            /\ manifest # None
            /\ Current(exchange[c]) => Extends(manifest, exchange[c].manifest) /\ HasDays(exchange[c])

(* The manifest does not go back to a deployment that it has left: the     *)
(* deployments it names have growing ranks.                                *)
ForwardOnly(rank) ==
    (manifest # None /\ manifest' # None /\ manifest'.deployment # manifest.deployment)
        => rank[manifest.deployment] < rank[manifest'.deployment]

RankInv(rank) ==
    \A c \in Conn :
        exchange[c].stage = "reading" =>
            rank[exchange[c].manifest.deployment] <= rank[manifest.deployment]

(* A request made by hand is the only one.                                 *)
DirectInv == calls \in Nat /\ (exchange[DirectConn] # Free => calls > 0)

-----------------------------------------------------------------------------
(* The client.                                                             *)
Pages(u) == SplitRange(call[u].range.start, call[u].range.end, MaxRange)

PageRequest(q, subject, page) ==
    /\ q.path = <<"v2", subject>>
    /\ q.start = page.start /\ q.end = page.end

(* The exchange of a page; it is turned down only by a fault.              *)
PageExchange(x, subject, page) ==
    \/ x.stage \in {"manifest", "reading"} /\ PageRequest(x.request, subject, page)
    \/ /\ x.stage = "answered" /\ x.answer.status = 200
       /\ x.of.stage = "reading" /\ PageRequest(x.of.request, subject, page)
    \/ x.stage = "answered" /\ x.answer.status # 200 /\ readFaults > 0

IsCall(u) ==
    LET x == call[u]
    IN  /\ x.stage \in {"idle", "bounds", "pages", "done", "failed"}
        /\ x.stage = "bounds" =>
              /\ x = [stage |-> "bounds", input |-> x.input,
                      published |-> x.published, before |-> x.before]
              /\ x.input \in Inputs
        /\ x.stage = "pages" =>
              /\ x = [stage |-> "pages", before |-> x.before, published |-> x.published,
                      subject |-> x.subject, range |-> x.range, count |-> x.count]
              /\ x.subject \in {"metrics", "assets", "supply"} \cap Kind
              /\ IsRange(x.range)
              /\ x.count = Len(Pages(u)) /\ x.count <= MaxPages

(* Which exchanges a call uses.                                            *)
PagesInv(u) ==
    \A i \in 1 .. MaxPages :
        IF call[u].stage = "pages" /\ i <= call[u].count
        THEN PageExchange(exchange[<<u, i>>], call[u].subject, Pages(u)[i])
        ELSE exchange[<<u, i>>] = Free

(* Bounds that were answered with.                                         *)
IsBounds(b) ==
    /\ b.latest \in Heads \cup {InitialHead}
    /\ b.maxRange = MaxRange

(* The exchange of the bounds.                                             *)
BoundsInv ==
    /\ boundsPromise \in {NoPromise, Pending} \/ boundsPromise = [state |-> "value", bounds |-> boundsPromise.bounds]
    /\ manifest # None => manifest.latest \in Heads \cup {InitialHead}
    /\ boundsPromise = Pending =>
          LET x == exchange[BoundsConn]
          IN  \/ x = [stage |-> "manifest", request |-> BoundsRequest]
              \/ x.stage = "answered" /\ x.answer.status = 200 /\ IsBounds(x.answer.data)
                    /\ manifest # None
              \/ x.stage = "answered" /\ x.answer.status # 200
    /\ boundsPromise # Pending => exchange[BoundsConn] = Free
    /\ boundsPromise.state = "value" => IsBounds(boundsPromise.bounds) /\ manifest # None

UserInv(u) ==
    /\ IsCall(u)
    /\ PagesInv(u)
    /\ call[u].stage = "pages" => manifest # None

ClientInv ==
    /\ drops \in Nat
    /\ BoundsInv
    /\ \A u \in User : UserInv(u)

(* A fetch of the bounds is under way while calls wait for it.             *)
PendingInv ==
    boundsPromise = Pending <=> (boundsPromise.state # "value" /\ Waiting # {})

(* A call that fails, or is about to.                                      *)
Fails(u) ==
    \/ call[u].stage = "failed"
    \/ call[u].stage = "bounds" /\ Refused(BoundsConn)
    \/ call[u].stage = "pages" /\ \E c \in PageConns(u) : Refused(c)

(* What a call has met before it fails.                                    *)
CauseOf(u) ==
    /\ call[u].stage \in {"bounds", "pages", "failed"}
          => call[u].before \in Int /\ call[u].before <= Faults
    /\ call[u].stage \in {"bounds", "pages"} /\ call[u].published => manifest # None
    /\ Fails(u) /\ call[u].published => call[u].before < Faults

CauseInv == PendingInv /\ \A u \in User : CauseOf(u)

(* No call asks for a range without a day.                                 *)
RangesNotEmpty ==
    \A input \in Inputs, head \in Heads \cup {InitialHead} :
        input.start <= IF input.end = NoDate THEN head ELSE input.end
=============================================================================
