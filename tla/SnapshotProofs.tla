---------------------------- MODULE SnapshotProofs ----------------------------
(***************************************************************************)
(* The shared row of a day, for every set of chains, every configuration   *)
(* of them, everything their snapshots may read and every order in which   *)
(* they write; and what one snapshot stores against the values computed    *)
(* from it: records that add up, supplies that are nested, and deposits    *)
(* of auctions that are the bond manager's.                                *)
(***************************************************************************)
EXTENDS GlobalSnapshot, SumProofs, TLAPS

(* The chains that have a row for a day, and the rows.                     *)
ChainsIn(rows, d) == {k[2] : k \in {x \in DOMAIN rows : x[1] = d}}
RowsOf(rows, d) == [c \in ChainsIn(rows, d) |-> rows[<<d, c>>]]

Keyed(rows) == \A k \in DOMAIN rows : k = <<k[1], k[2]>> /\ k[2] \in Chain

(* Rows of ChainMetricValues are keyed by a day and a chain; every such    *)
(* day has a shared row and no other day has; what Ethereum computed is    *)
(* known for days with a shared row only.                                  *)
RowsKeyed ==
    /\ Keyed(values)
    /\ DOMAIN global = {k[1] : k \in DOMAIN values}
    /\ DOMAIN canonical \subseteq DOMAIN global

SnapshotInv == RowsKeyed /\ RowSumsChains /\ CanonicalSurvives

-----------------------------------------------------------------------------
LEMMA ChainOfKey ==
    ASSUME NEW rows, Keyed(rows), NEW d, NEW c
    PROVE  c \in ChainsIn(rows, d) <=> <<d, c>> \in DOMAIN rows
<1>1. ASSUME c \in ChainsIn(rows, d) PROVE <<d, c>> \in DOMAIN rows
  <2>1. PICK k \in DOMAIN rows : k[1] = d /\ c = k[2]
    BY <1>1 DEF ChainsIn
  <2>2. k = <<d, c>>
    BY <2>1 DEF Keyed
  <2>3. QED
    BY <2>1, <2>2
<1>2. ASSUME <<d, c>> \in DOMAIN rows PROVE c \in ChainsIn(rows, d)
  BY <1>2 DEF ChainsIn
<1>3. QED
  BY <1>1, <1>2

(* A row written for one chain and day.                                    *)
LEMMA KeyedUpsert ==
    ASSUME NEW rows, Keyed(rows), NEW d, NEW c \in Chain, NEW mine
    PROVE  /\ Keyed(Upsert(rows, <<d, c>>, mine))
           /\ ChainsIn(Upsert(rows, <<d, c>>, mine), d) = ChainsIn(rows, d) \cup {c}
           /\ \A e : e # d => RowsOf(Upsert(rows, <<d, c>>, mine), e) = RowsOf(rows, e)
<1> DEFINE new == Upsert(rows, <<d, c>>, mine)
<1>1. DOMAIN new = DOMAIN rows \cup {<<d, c>>}
  BY DEF Upsert
<1>2. Keyed(new)
  BY <1>1 DEF Keyed
<1>3. \A e, x : <<e, x>> \in DOMAIN new <=> <<e, x>> \in DOMAIN rows \/ (e = d /\ x = c)
  BY <1>1
<1> HIDE DEF new
<1>4. ASSUME NEW e, NEW x
      PROVE  x \in ChainsIn(new, e) <=> x \in ChainsIn(rows, e) \/ (e = d /\ x = c)
  <2>1. x \in ChainsIn(new, e) <=> <<e, x>> \in DOMAIN new
    BY <1>2, ChainOfKey
  <2>2. x \in ChainsIn(rows, e) <=> <<e, x>> \in DOMAIN rows
    BY ChainOfKey
  <2>3. QED
    BY <2>1, <2>2, <1>3
<1>5. ChainsIn(new, d) = ChainsIn(rows, d) \cup {c}
  BY <1>4
<1>6. ASSUME NEW e, e # d PROVE RowsOf(new, e) = RowsOf(rows, e)
  <2>1. ChainsIn(new, e) = ChainsIn(rows, e)
    BY <1>4, <1>6
  <2>2. \A x \in ChainsIn(rows, e) : new[<<e, x>>] = rows[<<e, x>>]
    BY <1>6, ChainOfKey DEF Upsert, new
  <2>3. QED
    BY <2>1, <2>2 DEF RowsOf
<1>7. QED
  BY <1>2, <1>5, <1>6 DEF new

(* What a snapshot that has something to report does to the shared rows.   *)
Writes(c, d, mine, known) ==
    /\ values' = Upsert(values, <<d, c>>, mine)
    /\ \E stale \in BOOLEAN :
          global' = Upsert(global, d,
              [aggregate |-> Across(Combined(c, d, mine, stale)), known |-> known, index |-> index,
               derived |-> Derived(Across(Combined(c, d, mine, stale)).sums, known)])
    /\ canonical' = IF c = ETHEREUM THEN Upsert(canonical, d, known) ELSE canonical
    /\ c # ETHEREUM => known = IF d \in DOMAIN global THEN global[d].known ELSE NoCanonical

LEMMA UpdateWrites ==
    ASSUME NEW c \in Chain, NEW d, NEW r, NEW records, NEW supplies,
           UpdateGlobal(c, d, r, records, supplies)
    PROVE  \E mine, known : Writes(c, d, mine, known)
<1>1. PICK mine, known, stale :
        /\ stale \in BOOLEAN /\ known = Known(c, d, r)
        /\ values' = Upsert(values, <<d, c>>, mine)
        /\ global' = Upsert(global, d,
              [aggregate |-> Across(Combined(c, d, mine, stale)), known |-> known, index |-> index,
               derived |-> Derived(Across(Combined(c, d, mine, stale)).sums, known)])
        /\ canonical' = IF c = ETHEREUM THEN Upsert(canonical, d, known) ELSE canonical
  BY DEF UpdateGlobal
<1>2. Writes(c, d, mine, known)
  BY <1>1 DEF Writes, Known
<1>3. QED
  BY <1>2

(* Each step of the system writes the shared rows of one day for one chain *)
(* or leaves them alone.                                                   *)
LEMMA StepWrites ==
    ASSUME [Next]_vars
    PROVE  \/ UNCHANGED <<values, global, canonical>>
           \/ \E c \in Chain : \E d, mine, known : Writes(c, d, mine, known)
<1>1. CASE UNCHANGED vars
  BY <1>1 DEF vars, snapshotVars
<1>2. CASE Rebase
  BY <1>2 DEF Rebase, snapshotVars
<1>3. CASE BondEvent
  BY <1>3 DEF BondEvent, snapshotVars
<1>4. ASSUME NEW c \in Chain, Snapshot(c),
             ~UNCHANGED <<values, global, canonical>>
      PROVE  \E d, mine, known : Writes(c, d, mine, known)
  <2>1. PICK r, records, supplies : UpdateGlobal(c, Date(at[c] + 1), r, records, supplies)
    BY <1>4 DEF Snapshot
  <2>2. QED
    BY <2>1, UpdateWrites
<1>5. QED
  BY <1>1, <1>2, <1>3, <1>4 DEF Next

-----------------------------------------------------------------------------
(* The chain's own row is among those it combines, stale or not: together  *)
(* they are the rows the day has afterwards.                               *)
LEMMA CombinedIsRows ==
    ASSUME Keyed(values), NEW c \in Chain, NEW d, NEW mine, NEW stale \in BOOLEAN
    PROVE  Combined(c, d, mine, stale) = RowsOf(Upsert(values, <<d, c>>, mine), d)
<1> DEFINE new == Upsert(values, <<d, c>>, mine)
<1>1. ChainsIn(new, d) = ChainsIn(values, d) \cup {c}
  BY KeyedUpsert
<1>2. \A x : x \in ChainsIn(values, d) <=> x \in Chain /\ <<d, x>> \in DOMAIN values
  BY ChainOfKey DEF Keyed
<1>3. Shown(c, d, stale) \cup {c} = ChainsIn(new, d)
  BY <1>1, <1>2 DEF Shown
<1>4. \A x \in ChainsIn(new, d) : new[<<d, x>>] = IF x = c THEN mine ELSE values[<<d, x>>]
  BY <1>1, <1>2 DEF Upsert
<1> HIDE DEF new
<1>5. QED
  BY <1>3, <1>4 DEF Combined, RowsOf, new

(* The shared rows in terms of the rows of the chains.                     *)
LEMMA RowSums ==
    RowSumsChains <=> \A d \in {k[1] : k \in DOMAIN values} :
        d \in DOMAIN global /\ global[d].aggregate = Across(RowsOf(values, d))
  BY DEF RowSumsChains, RowsOf, ChainsIn

LEMMA RowSumsNext ==
    RowSumsChains' <=> \A d \in {k[1] : k \in DOMAIN values'} :
        d \in DOMAIN global' /\ global'[d].aggregate = Across(RowsOf(values', d))
  BY DEF RowSumsChains, RowsOf, ChainsIn

LEMMA CompleteAcross ==
    ASSUME NEW of PROVE Across(of).complete <=> {ARBITRUM, ETHEREUM} \subseteq DOMAIN of
  BY DEF Across

LEMMA WritesKeep ==
    ASSUME SnapshotInv, NEW c \in Chain, NEW d, NEW mine, NEW known,
           Writes(c, d, mine, known)
    PROVE  SnapshotInv'
<1>1. values' = Upsert(values, <<d, c>>, mine)
  BY DEF Writes
<1>2. Keyed(values') /\ \A e : e # d => RowsOf(values', e) = RowsOf(values, e)
  BY <1>1, KeyedUpsert DEF SnapshotInv, RowsKeyed
<1>3. PICK stale \in BOOLEAN :
        global' = Upsert(global, d,
            [aggregate |-> Across(Combined(c, d, mine, stale)), known |-> known, index |-> index,
             derived |-> Derived(Across(Combined(c, d, mine, stale)).sums, known)])
  BY DEF Writes
<1>4. DOMAIN global' = DOMAIN global \cup {d}
  BY <1>3 DEF Upsert
<1>5. global'[d].aggregate = Across(RowsOf(values', d)) /\ global'[d].known = known
  BY <1>1, <1>3, CombinedIsRows DEF Upsert, SnapshotInv, RowsKeyed
<1>6. \A e \in DOMAIN global : e # d => global'[e] = global[e]
  BY <1>3 DEF Upsert
<1>7. {k[1] : k \in DOMAIN values'} = {k[1] : k \in DOMAIN values} \cup {d}
  <2>1. DOMAIN values' = DOMAIN values \cup {<<d, c>>}
    BY <1>1 DEF Upsert
  <2>2. <<d, c>>[1] = d
    OBVIOUS
  <2> HIDE <1>1
  <2>3. QED
    BY <2>1, <2>2
<1>8. RowSumsChains'
  BY <1>2, <1>4, <1>5, <1>6, <1>7, RowSums, RowSumsNext DEF SnapshotInv
<1>9. DOMAIN canonical' = DOMAIN canonical \cup (IF c = ETHEREUM THEN {d} ELSE {})
  BY DEF Writes, Upsert
<1>10. \A e \in DOMAIN canonical' : canonical'[e] = IF c = ETHEREUM /\ e = d THEN known ELSE canonical[e]
  BY DEF Writes, Upsert
<1>11. CanonicalSurvives'
  <2> SUFFICES ASSUME NEW e \in DOMAIN canonical'
               PROVE  e \in DOMAIN global' /\ global'[e].known = canonical'[e]
    BY DEF CanonicalSurvives
  <2>1. CASE e # d
    BY <2>1, <1>4, <1>6, <1>9, <1>10 DEF SnapshotInv, CanonicalSurvives
  <2>2. CASE e = d /\ c = ETHEREUM
    BY <2>2, <1>4, <1>5, <1>9, <1>10
  <2>3. CASE e = d /\ c # ETHEREUM
    BY <2>3, <1>4, <1>5, <1>9, <1>10 DEF SnapshotInv, CanonicalSurvives, Writes
  <2>4. QED
    BY <2>1, <2>2, <2>3
<1>12. RowsKeyed'
  BY <1>2, <1>4, <1>7, <1>9 DEF SnapshotInv, RowsKeyed, Keyed
<1>13. QED
  BY <1>8, <1>11, <1>12 DEF SnapshotInv

LEMMA SnapshotStep == ASSUME SnapshotInv, [Next]_vars PROVE SnapshotInv'
<1>1. CASE UNCHANGED <<values, global, canonical>>
  BY <1>1 DEF SnapshotInv, RowsKeyed, Keyed, RowSumsChains, CanonicalSurvives
<1>2. CASE \E c \in Chain : \E d, mine, known : Writes(c, d, mine, known)
  BY <1>2, WritesKeep
<1>3. QED
  BY <1>1, <1>2, StepWrites

LEMMA SnapshotAlways == Spec => []SnapshotInv
<1>1. Init => SnapshotInv
  BY DEF Init, SnapshotInv, RowsKeyed, Keyed, RowSumsChains, CanonicalSurvives
<1>2. QED
  BY <1>1, SnapshotStep, PTL DEF Spec

-----------------------------------------------------------------------------
(* In whatever order and however often the chains take their snapshots,    *)
(* the shared row of a day is the sum of what each chain last wrote for    *)
(* it, counts no chain twice and leaves none out (aggregateAcrossChains in *)
(* global.ts over the rows that BlockHandlers.ts queries and sets).        *)
THEOREM SharedRowSumsChains == Spec => []RowSumsChains
<1>1. SnapshotInv => RowSumsChains
  BY DEF SnapshotInv
<1>2. QED
  BY <1>1, SnapshotAlways, PTL

(* Chains that do not know price, supply staked and growth hand on what    *)
(* Ethereum last computed for the same day, once it has had a snapshot of  *)
(* that day (updateGlobalMetricSnapshot, BlockHandlers.ts:262).            *)
THEOREM CanonicalAlwaysSurvives == Spec => []CanonicalSurvives
<1>1. SnapshotInv => CanonicalSurvives
  BY DEF SnapshotInv
<1>2. QED
  BY <1>1, SnapshotAlways, PTL

(* A day that has been complete (crossChainComplete, global.ts:182) is     *)
(* complete for good.                                                      *)
THEOREM DaysStayComplete == Spec => CompleteStaysComplete
<1>1. ASSUME SnapshotInv, SnapshotInv', [Next]_vars
      PROVE  \A d \in DOMAIN global :
                global[d].aggregate.complete => global'[d].aggregate.complete
  <2> SUFFICES ASSUME NEW e \in DOMAIN global, global[e].aggregate.complete
               PROVE  global'[e].aggregate.complete
    OBVIOUS
  <2>0. global[e].aggregate.complete
    OBVIOUS
  <2>1. CASE UNCHANGED <<values, global, canonical>>
    BY <2>1
  <2>2. ASSUME NEW c \in Chain, NEW d, NEW mine, NEW known, Writes(c, d, mine, known)
        PROVE  global'[e].aggregate.complete
    <3>1. \A x : x \in ChainsIn(values, e) => x \in ChainsIn(values', e)
      BY <2>2 DEF Writes, Upsert, ChainsIn
    <3>2. /\ global[e].aggregate = Across(RowsOf(values, e))
          /\ global'[e].aggregate = Across(RowsOf(values', e))
      <4>1. e \in DOMAIN global'
        BY <2>2 DEF Writes, Upsert
      <4>2. QED
        BY <1>1, <4>1, RowSums, RowSumsNext DEF SnapshotInv, RowsKeyed
    <3>3. /\ DOMAIN RowsOf(values, e) = ChainsIn(values, e)
          /\ DOMAIN RowsOf(values', e) = ChainsIn(values', e)
      BY DEF RowsOf
    <3>4. QED
      BY <2>0, <3>1, <3>2, <3>3, CompleteAcross
  <2>3. QED
    BY <1>1, <2>1, <2>2, StepWrites
<1>2. QED
  BY <1>1, SnapshotAlways, PTL DEF Spec, CompleteStaysComplete
-----------------------------------------------------------------------------
(* The records of a snapshot, told apart by their ids.                     *)

HeldTokens(c) == {d \in Config[c].tokens : d.category \in {"Stable", "Volatile"}}
LpHandlers(c) == {h \in Config[c].handlers : h.lp # ""}

TokenNames(c)  == {d.id : d \in HeldTokens(c)}
PoolNames(c)   == {h.id : h \in LpHandlers(c)}
NftNames(c)    == {p.id : p \in Config[c].nftPools}
CoolerNames(c) == {k.label : k \in Config[c].coolers}

(* Things of a chain's configuration that make records of different forms  *)
(* have different names.  LP tokens are also listed as tokens, pools of    *)
(* NFT positions also as handlers, and coolers also as wallets; those make *)
(* no records.                                                             *)
NamesDistinct ==
    \A c \in Chain :
        /\ \A p, q \in Config[c].nftPools : p.id = q.id => p = q
        /\ \A k, l \in Config[c].coolers : k.id = l.id /\ k.label = l.label => k = l
        /\ TokenNames(c) \cap PoolNames(c) = {}
        /\ TokenNames(c) \cap NftNames(c) = {}
        /\ PoolNames(c) \cap NftNames(c) = {}
        /\ CoolerNames(c) \cap (TokenNames(c) \cup PoolNames(c) \cup NftNames(c)) = {}
        /\ \A n \in {"JONES - Staked", "MAGIC - Staked"} :
              n \notin TokenNames(c) \cup PoolNames(c) \cup NftNames(c) \cup CoolerNames(c)

(* No wallet has more than one Treasure deposit.                           *)
OneDeposit(c, r) ==
    \A w \in Config[c].wallets, k, l \in Config[c].deposits :
        (Read(r, <<"deposit", w, k>>) # 0 /\ Read(r, <<"deposit", w, l>>) # 0) => k = l

(* No wallet holds the LP tokens of two handlers with one id, which the    *)
(* two Beradrome vaults of Berachain have (berachain.ts:93, 102).           *)
OnePosition(c, r) ==
    \A w \in Config[c].wallets, h, g \in LpHandlers(c) :
        (/\ LedgerBalance(c, h.lp, w, r) # 0 /\ LedgerBalance(c, g.lp, w, r) # 0
         /\ h.id = g.id) => h = g

PositionsDistinct ==
    \A c \in Chain : \A n \in DOMAIN Readings[c] : \A r \in Readings[c][n] :
        OneDeposit(c, r) /\ OnePosition(c, r)

LEMMA TokenRecordFields ==
    ASSUME NEW c, NEW t, NEW name, NEW source, NEW rate, NEW balance
    PROVE  LET x == TokenRecord(c, t, name, source, rate, balance)
           IN  x.id = <<source, name>> /\ x.part = 0
  BY DEF TokenRecord, RecordId

LEMMA PoolRecordFields ==
    ASSUME NEW c, NEW pool, NEW wallet, NEW rate, NEW balance, NEW included, NEW total
    PROVE  LET x == PoolRecord(c, pool, wallet, rate, balance, included, total)
           IN  x.id = <<wallet, pool>> /\ x.part = 0
  BY DEF PoolRecord, TokenRecord, RecordId

(* A record is what its id says.                                           *)
OfToken(c, n, r, x) ==
    \E d \in HeldTokens(c), w \in Config[c].wallets :
        x = TokenRecord(c, d.id, d.id, w, Price(r, d.id), Balance(c, d.id, w, r))
OfPool(c, n, r, x) ==
    \E h \in LpHandlers(c), w \in Config[c].wallets :
        /\ LedgerBalance(c, h.lp, w, r) # 0
        /\ x = PoolRecord(c, h.id, w, Read(r, <<"unit", h.id>>), LedgerBalance(c, h.lp, w, r),
                          Read(r, <<"included", h.id>>), Read(r, <<"total", h.id>>))
OfJones(c, n, r, x) ==
    \E w \in Config[c].wallets :
        x = [TokenRecord(c, "JONES", "JONES - Staked", w, Price(r, "JONES"), Read(r, <<"jones", w>>))
                EXCEPT !.excluding = IF n >= JonesWriteOff THEN 0 ELSE @]
OfDeposit(c, n, r, x) ==
    \E w \in Config[c].wallets, k \in Config[c].deposits :
        /\ Read(r, <<"deposit", w, k>>) # 0
        /\ x = [TokenRecord(c, "MAGIC", "MAGIC - Staked", w, Price(r, "MAGIC"),
                            Read(r, <<"deposit", w, k>>))
                    EXCEPT !.liquid = FALSE, !.part = k]
OfCooler(c, n, r, x) ==
    \E k \in Config[c].coolers :
        x = TokenRecord(c, k.token, k.label, k.id, Price(r, k.priceToken), Receivable(k, r))
OfNft(c, n, r, x) ==
    \E p \in Config[c].nftPools, w \in Config[c].wallets :
        x = PoolRecord(c, p.id, w, NftTotal(r, w, p), 1,
                NftTotal(r, w, p) - (IF Config[c].ohm \in {p.token0, p.token1}
                                     THEN NftValue(r, w, p, Config[c].ohm) ELSE 0),
                NftTotal(r, w, p))

LEMMA RecordForms ==
    ASSUME NEW c, NEW n, NEW r, NEW x \in Records(c, n, r)
    PROVE  \/ OfToken(c, n, r, x) \/ OfPool(c, n, r, x) \/ OfJones(c, n, r, x)
           \/ OfDeposit(c, n, r, x) \/ OfCooler(c, n, r, x) \/ OfNft(c, n, r, x)
<1>1. ASSUME x \in TokenBalanceRecords(c, n, r) PROVE OfToken(c, n, r, x)
  BY <1>1 DEF TokenBalanceRecords, Priced, WalletsFor, OfToken, HeldTokens
<1>2. ASSUME x \in OwnedLiquidityRecords(c, n, r) PROVE OfPool(c, n, r, x)
  BY <1>2 DEF OwnedLiquidityRecords, OfPool, LpHandlers
<1>3. ASSUME x \in JonesRecords(c, n, r) PROVE OfJones(c, n, r, x)
  BY <1>3 DEF JonesRecords, OfJones
<1>4. ASSUME x \in TreasureRecords(c, n, r) PROVE OfDeposit(c, n, r, x)
  <2>1. PICK w \in {y \in Config[c].wallets : Staked(c, n, r, "MAGIC")} :
           x \in {[TokenRecord(c, "MAGIC", "MAGIC - Staked", w, Price(r, "MAGIC"),
                             Read(r, <<"deposit", w, k>>)) EXCEPT !.liquid = FALSE, !.part = k] :
                   k \in {m \in Config[c].deposits : Read(r, <<"deposit", w, m>>) # 0}}
    BY <1>4, Zenon DEF TreasureRecords
  <2>2. PICK k \in {m \in Config[c].deposits : Read(r, <<"deposit", w, m>>) # 0} :
           x = [TokenRecord(c, "MAGIC", "MAGIC - Staked", w, Price(r, "MAGIC"),
                            Read(r, <<"deposit", w, k>>)) EXCEPT !.liquid = FALSE, !.part = k]
    BY <2>1, Zenon
  <2>3. QED
    BY <2>1, <2>2, Zenon DEF OfDeposit
<1>5. ASSUME x \in CoolerRecords(c, n, r) PROVE OfCooler(c, n, r, x)
  BY <1>5 DEF CoolerRecords, OfCooler
<1>6. ASSUME x \in NftRecords(c, n, r) PROVE OfNft(c, n, r, x)
  BY <1>6 DEF NftRecords, NftPositions, OfNft
<1>7. QED
  BY <1>1, <1>2, <1>3, <1>4, <1>5, <1>6 DEF Records

(* The names in ids.                                                       *)
Named(x, names) == \E m \in names : \E s : x.id = <<s, m>>

LEMMA NamesOfForms ==
    ASSUME NEW c, NEW n, NEW r, NEW x
    PROVE  /\ OfToken(c, n, r, x) => Named(x, TokenNames(c))
           /\ OfPool(c, n, r, x) => Named(x, PoolNames(c))
           /\ OfJones(c, n, r, x) => Named(x, {"JONES - Staked"})
           /\ OfDeposit(c, n, r, x) => Named(x, {"MAGIC - Staked"})
           /\ OfNft(c, n, r, x) => Named(x, NftNames(c))
           /\ OfCooler(c, n, r, x) => Named(x, CoolerNames(c))
<1>1. OfToken(c, n, r, x) => Named(x, TokenNames(c))
  BY TokenRecordFields DEF OfToken, Named, TokenNames
<1>2. OfPool(c, n, r, x) => Named(x, PoolNames(c))
  BY PoolRecordFields DEF OfPool, Named, PoolNames
<1>3. OfJones(c, n, r, x) => Named(x, {"JONES - Staked"})
  BY DEF OfJones, Named, TokenRecord, RecordId
<1>4. OfDeposit(c, n, r, x) => Named(x, {"MAGIC - Staked"})
  BY DEF OfDeposit, Named, TokenRecord, RecordId
<1>5. OfNft(c, n, r, x) => Named(x, NftNames(c))
  BY PoolRecordFields DEF OfNft, Named, NftNames
<1>6. OfCooler(c, n, r, x) => Named(x, CoolerNames(c))
  BY TokenRecordFields DEF OfCooler, Named, CoolerNames
<1>7. QED
  BY <1>1, <1>2, <1>3, <1>4, <1>5, <1>6

LEMMA NamedApart ==
    ASSUME NEW A, NEW B, A \cap B = {}, NEW x, NEW y, x.id = y.id, Named(x, A)
    PROVE  ~Named(y, B)
<1>1. PICK m \in A : \E s : x.id = <<s, m>>
  BY DEF Named
<1>2. PICK s : x.id = <<s, m>>
  BY <1>1
<1>3. SUFFICES ASSUME NEW k \in B, NEW v, y.id = <<v, k>> PROVE FALSE
  BY DEF Named
<1>4. <<s, m>> = <<v, k>>
  BY <1>2, <1>3
<1>5. m = k
  BY <1>4
<1>6. QED
  BY <1>5

(* Records of one form and with one id are the same.                       *)
LEMMA OneForm ==
    ASSUME NamesDistinct, NEW c \in Chain, NEW n, NEW r, OneDeposit(c, r), OnePosition(c, r),
           NEW x, NEW y, x.id = y.id
    PROVE  /\ OfToken(c, n, r, x) /\ OfToken(c, n, r, y) => x = y
           /\ OfPool(c, n, r, x) /\ OfPool(c, n, r, y) => x = y
           /\ OfJones(c, n, r, x) /\ OfJones(c, n, r, y) => x = y
           /\ OfDeposit(c, n, r, x) /\ OfDeposit(c, n, r, y) => x = y
           /\ OfNft(c, n, r, x) /\ OfNft(c, n, r, y) => x = y
           /\ OfCooler(c, n, r, x) /\ OfCooler(c, n, r, y) => x = y
<1>1. ASSUME OfToken(c, n, r, x), OfToken(c, n, r, y) PROVE x = y
  <2> DEFINE F(t, w) == TokenRecord(c, t, t, w, Price(r, t), Balance(c, t, w, r))
  <2>1. \A t, w : F(t, w).id = <<w, t>>
    BY TokenRecordFields
  <2>2. PICK t, w, s, v : x = F(t, w) /\ y = F(s, v)
    BY <1>1 DEF OfToken
  <2> HIDE DEF F
  <2>3. <<w, t>> = <<v, s>>
    BY <2>1, <2>2
  <2>4. QED
    BY <2>2, <2>3
<1>2. ASSUME OfPool(c, n, r, x), OfPool(c, n, r, y) PROVE x = y
  <2> DEFINE F(h, w) == PoolRecord(c, h.id, w, Read(r, <<"unit", h.id>>), LedgerBalance(c, h.lp, w, r),
                                   Read(r, <<"included", h.id>>), Read(r, <<"total", h.id>>))
  <2>1. \A h, w : F(h, w).id = <<w, h.id>>
    BY PoolRecordFields
  <2> DEFINE Has(h, w) == LedgerBalance(c, h.lp, w, r) # 0
  <2>2. PICK h \in LpHandlers(c), g \in LpHandlers(c),
             w \in Config[c].wallets, v \in Config[c].wallets :
           Has(h, w) /\ x = F(h, w) /\ Has(g, v) /\ y = F(g, v)
    BY <1>2 DEF OfPool
  <2>3. Has(h, w) /\ Has(g, w) /\ h.id = g.id => h = g
    BY DEF OnePosition
  <2> HIDE DEF F, Has
  <2>4. <<w, h.id>> = <<v, g.id>>
    BY <2>1, <2>2
  <2>5. w = v /\ h.id = g.id
    BY <2>4
  <2>6. QED
    BY <2>2, <2>3, <2>5
<1>3. ASSUME OfJones(c, n, r, x), OfJones(c, n, r, y) PROVE x = y
  <2> DEFINE F(w) == [TokenRecord(c, "JONES", "JONES - Staked", w, Price(r, "JONES"),
                                  Read(r, <<"jones", w>>))
                         EXCEPT !.excluding = IF n >= JonesWriteOff THEN 0 ELSE @]
  <2>1. \A w : F(w).id = <<w, "JONES - Staked">>
    BY DEF TokenRecord, RecordId
  <2>2. PICK w, v : x = F(w) /\ y = F(v)
    BY <1>3 DEF OfJones
  <2> HIDE DEF F
  <2>3. <<w, "JONES - Staked">> = <<v, "JONES - Staked">>
    BY <2>1, <2>2
  <2>4. QED
    BY <2>2, <2>3
<1>4. ASSUME OfDeposit(c, n, r, x), OfDeposit(c, n, r, y) PROVE x = y
  <2> DEFINE F(w, k) == [TokenRecord(c, "MAGIC", "MAGIC - Staked", w, Price(r, "MAGIC"),
                                     Read(r, <<"deposit", w, k>>))
                            EXCEPT !.liquid = FALSE, !.part = k]
             Has(w, k) == Read(r, <<"deposit", w, k>>) # 0
  <2>1. \A w, k : F(w, k).id = <<w, "MAGIC - Staked">>
    BY DEF TokenRecord, RecordId
  <2>2. PICK w \in Config[c].wallets, v \in Config[c].wallets,
             k \in Config[c].deposits, l \in Config[c].deposits :
           Has(w, k) /\ x = F(w, k) /\ Has(v, l) /\ y = F(v, l)
    BY <1>4 DEF OfDeposit
  <2>3. Has(w, k) /\ Has(w, l) => k = l
    BY DEF OneDeposit
  <2> HIDE DEF F, Has
  <2>4. <<w, "MAGIC - Staked">> = <<v, "MAGIC - Staked">>
    BY <2>1, <2>2
  <2>5. w = v
    BY <2>4
  <2>6. QED
    BY <2>2, <2>3, <2>5
<1>5. ASSUME OfNft(c, n, r, x), OfNft(c, n, r, y) PROVE x = y
  <2> DEFINE F(p, w) == PoolRecord(c, p.id, w, NftTotal(r, w, p), 1,
                            NftTotal(r, w, p) - (IF Config[c].ohm \in {p.token0, p.token1}
                                                 THEN NftValue(r, w, p, Config[c].ohm) ELSE 0),
                            NftTotal(r, w, p))
  <2>1. \A p, w : F(p, w).id = <<w, p.id>>
    BY PoolRecordFields
  <2>2. PICK p \in Config[c].nftPools, q \in Config[c].nftPools :
           \E w, v : x = F(p, w) /\ y = F(q, v)
    BY <1>5 DEF OfNft
  <2> PICK w, v : x = F(p, w) /\ y = F(q, v)
    BY <2>2
  <2> HIDE DEF F
  <2>3. <<w, p.id>> = <<v, q.id>>
    BY <2>1
  <2>4. w = v /\ p = q
    BY <2>3 DEF NamesDistinct
  <2>5. QED
    BY <2>4
<1>6. ASSUME OfCooler(c, n, r, x), OfCooler(c, n, r, y) PROVE x = y
  <2> DEFINE F(k) == TokenRecord(c, k.token, k.label, k.id, Price(r, k.priceToken),
                                 Receivable(k, r))
  <2>1. \A k : F(k).id = <<k.id, k.label>>
    BY TokenRecordFields
  <2>2. (\E k \in Config[c].coolers : x = F(k)) /\ (\E k \in Config[c].coolers : y = F(k))
    BY <1>6 DEF OfCooler
  <2>3. \A k, l \in Config[c].coolers : k.id = l.id /\ k.label = l.label => k = l
    BY DEF NamesDistinct
  <2> HIDE DEF F
  <2>4. PICK k \in Config[c].coolers, l \in Config[c].coolers : x = F(k) /\ y = F(l)
    BY <2>2
  <2>5. <<k.id, k.label>> = <<l.id, l.label>>
    BY <2>1, <2>4
  <2>6. k.label = l.label /\ k.id = l.id
    BY <2>5
  <2>7. QED
    BY <2>3, <2>4, <2>6
<1>7. QED
  BY <1>1, <1>2, <1>3, <1>4, <1>5, <1>6

(* Records of different forms have different ids.                          *)
LEMMA FormsApart ==
    ASSUME NamesDistinct, NEW c \in Chain, NEW n, NEW r, NEW x, NEW y, x.id = y.id
    PROVE  /\ OfToken(c, n, r, x) =>
                 ~(\/ OfPool(c, n, r, y) \/ OfJones(c, n, r, y) \/ OfDeposit(c, n, r, y)
                   \/ OfNft(c, n, r, y) \/ OfCooler(c, n, r, y))
           /\ OfPool(c, n, r, x) =>
                 ~(\/ OfJones(c, n, r, y) \/ OfDeposit(c, n, r, y) \/ OfNft(c, n, r, y)
                   \/ OfCooler(c, n, r, y))
           /\ OfJones(c, n, r, x) =>
                 ~(OfDeposit(c, n, r, y) \/ OfNft(c, n, r, y) \/ OfCooler(c, n, r, y))
           /\ OfDeposit(c, n, r, x) => ~(OfNft(c, n, r, y) \/ OfCooler(c, n, r, y))
           /\ OfNft(c, n, r, x) => ~OfCooler(c, n, r, y)
<1> DEFINE Names == {TokenNames(c), PoolNames(c), NftNames(c), CoolerNames(c)}
<1>1. /\ TokenNames(c) \cap PoolNames(c) = {} /\ TokenNames(c) \cap NftNames(c) = {}
      /\ PoolNames(c) \cap NftNames(c) = {}
      /\ \A A \in {TokenNames(c), PoolNames(c), NftNames(c)} : A \cap CoolerNames(c) = {}
      /\ \A A \in Names :
            /\ A \cap {"JONES - Staked"} = {} /\ {"JONES - Staked"} \cap A = {}
            /\ A \cap {"MAGIC - Staked"} = {} /\ {"MAGIC - Staked"} \cap A = {}
      /\ {"JONES - Staked"} \cap {"MAGIC - Staked"} = {}
  <2>1. "JONES - Staked" # "MAGIC - Staked"
    OBVIOUS
  <2>2. \A A \in Names : "JONES - Staked" \notin A /\ "MAGIC - Staked" \notin A
    BY DEF NamesDistinct
  <2>3. /\ TokenNames(c) \cap PoolNames(c) = {} /\ TokenNames(c) \cap NftNames(c) = {}
        /\ PoolNames(c) \cap NftNames(c) = {}
        /\ CoolerNames(c) \cap (TokenNames(c) \cup PoolNames(c) \cup NftNames(c)) = {}
    BY DEF NamesDistinct
  <2>4. QED
    BY <2>1, <2>2, <2>3
<1>2. \A A, B : A \cap B = {} /\ Named(x, A) => ~Named(y, B)
  BY NamedApart
<1>3. \A z : /\ OfToken(c, n, r, z) => Named(z, TokenNames(c))
             /\ OfPool(c, n, r, z) => Named(z, PoolNames(c))
             /\ OfJones(c, n, r, z) => Named(z, {"JONES - Staked"})
             /\ OfDeposit(c, n, r, z) => Named(z, {"MAGIC - Staked"})
             /\ OfNft(c, n, r, z) => Named(z, NftNames(c))
             /\ OfCooler(c, n, r, z) => Named(z, CoolerNames(c))
  BY NamesOfForms
<1>4. /\ TokenNames(c) \in Names /\ PoolNames(c) \in Names /\ NftNames(c) \in Names
      /\ CoolerNames(c) \in Names
  OBVIOUS
<1> HIDE DEF Names
<1>5. ASSUME OfToken(c, n, r, x)
      PROVE  ~(\/ OfPool(c, n, r, y) \/ OfJones(c, n, r, y) \/ OfDeposit(c, n, r, y)
               \/ OfNft(c, n, r, y) \/ OfCooler(c, n, r, y))
  BY <1>1, <1>2, <1>3, <1>4, <1>5
<1>6. ASSUME OfPool(c, n, r, x)
      PROVE  ~(\/ OfJones(c, n, r, y) \/ OfDeposit(c, n, r, y) \/ OfNft(c, n, r, y)
               \/ OfCooler(c, n, r, y))
  BY <1>1, <1>2, <1>3, <1>4, <1>6
<1>7. ASSUME OfJones(c, n, r, x)
      PROVE  ~(OfDeposit(c, n, r, y) \/ OfNft(c, n, r, y) \/ OfCooler(c, n, r, y))
  BY <1>1, <1>2, <1>3, <1>4, <1>7
<1>8. ASSUME OfDeposit(c, n, r, x) PROVE ~(OfNft(c, n, r, y) \/ OfCooler(c, n, r, y))
  BY <1>1, <1>2, <1>3, <1>4, <1>8
<1>9. ASSUME OfNft(c, n, r, x) PROVE ~OfCooler(c, n, r, y)
  BY <1>1, <1>2, <1>3, <1>9
<1>10. QED
  BY <1>5, <1>6, <1>7, <1>8, <1>9

LEMMA RecordsDistinct ==
    ASSUME NamesDistinct, NEW c \in Chain, NEW n, NEW r, OneDeposit(c, r), OnePosition(c, r),
           NEW x \in Records(c, n, r), NEW y \in Records(c, n, r), x.id = y.id
    PROVE  x = y
  BY RecordForms, OneForm, FormsApart

LEMMA PartIsNat ==
    ASSUME NEW c \in Chain, NEW n, NEW r, NEW x \in Records(c, n, r)
    PROVE  x.part \in Nat
<1>1. CASE OfToken(c, n, r, x)
  BY <1>1, TokenRecordFields DEF OfToken
<1>2. CASE OfPool(c, n, r, x)
  BY <1>2, PoolRecordFields DEF OfPool
<1>3. CASE OfJones(c, n, r, x)
  <2>1. x.part = 0
    BY <1>3 DEF OfJones, TokenRecord
  <2>2. QED
    BY <2>1
<1>4. CASE OfDeposit(c, n, r, x)
  <2>1. PICK k \in Config[c].deposits : x.part = k
    BY <1>4 DEF OfDeposit, TokenRecord
  <2>2. QED
    BY <2>1, SnapshotAssumption
<1>5. CASE OfCooler(c, n, r, x)
  BY <1>5, TokenRecordFields DEF OfCooler
<1>6. CASE OfNft(c, n, r, x)
  BY <1>6, PoolRecordFields DEF OfNft
<1>7. QED
  BY <1>1, <1>2, <1>3, <1>4, <1>5, <1>6, RecordForms

(* What is stored by id is what was built.                                 *)
StoredRecords(rows) == {rows[i] : i \in DOMAIN rows}

LEMMA NothingLost ==
    ASSUME NamesDistinct, NEW c \in Chain, NEW n, NEW r, OneDeposit(c, r), OnePosition(c, r)
    PROVE  StoredRecords(LastById(Records(c, n, r))) = Records(c, n, r)
<1> DEFINE rows == Records(c, n, r)
           last(i) == CHOOSE x \in rows : x.id = i /\ \A y \in rows : y.id = i => y.part <= x.part
<1>1. \A x, y \in rows : x.id = y.id => x = y
  BY RecordsDistinct
<1>2. \A x \in rows : x.part \in Nat
  BY PartIsNat
<1>3. LastById(rows) = [i \in {x.id : x \in rows} |-> last(i)]
  BY DEF LastById
<1> HIDE DEF rows
<1>4. ASSUME NEW x \in rows PROVE last(x.id) = x
  <2>1. x.id = x.id /\ \A y \in rows : y.id = x.id => y.part <= x.part
    BY <1>1, <1>2
  <2>2. last(x.id) \in rows /\ last(x.id).id = x.id
    BY <2>1
  <2> HIDE DEF last
  <2>3. QED
    BY <1>1, <2>2
<1> HIDE DEF last
<1>5. StoredRecords(LastById(rows)) = {last(i) : i \in {x.id : x \in rows}}
  BY <1>3 DEF StoredRecords
<1>6. {last(i) : i \in {x.id : x \in rows}} = rows
  BY <1>4
<1>7. QED
  BY <1>5, <1>6 DEF rows

-----------------------------------------------------------------------------
(* The values of a chain and the records it stored last.                   *)
Reports(c) == StoredRecords(stored[c].records) # {} \/ stored[c].supplies # {}

AddsUp(c) ==
    Reports(c) =>
        LET mine == values[<<Date(at[c]), c>>]
        IN  /\ <<Date(at[c]), c>> \in DOMAIN values
            /\ mine.market = MarketValue(StoredRecords(stored[c].records), at[c])
            /\ mine.liquid = LiquidBacking(StoredRecords(stored[c].records))

AddUpInv ==
    /\ DOMAIN at = Chain /\ DOMAIN stored = Chain
    /\ \A c \in Chain : AddsUp(c)

(* What a snapshot stores.                                                 *)
LEMMA SnapshotStores ==
    ASSUME NEW c \in Chain, Snapshot(c)
    PROVE  \E r \in Readings[c][at[c] + 1] :
              LET n        == at[c] + 1
                  records  == Records(c, n, r)
                  supplies == PlainSupplies(c, n, r, index) \cup BondSupply(c, n, r)
              IN  /\ n \in DOMAIN Readings[c]
                  /\ at' = [at EXCEPT ![c] = n]
                  /\ stored' = [stored EXCEPT ![c] = [records |-> LastById(records),
                                                      supplies |-> supplies]]
                  /\ \/ records = {} /\ supplies = {} /\ values' = values
                     \/ values' = Upsert(values, <<Date(n), c>>, PerChain(c, n, records, supplies))
<1> DEFINE n == at[c] + 1
<1>1. PICK r \in Readings[c][n] :
         LET records  == Records(c, n, r)
             supplies == PlainSupplies(c, n, r, index) \cup BondSupply(c, n, r)
         IN  /\ stored' = [stored EXCEPT ![c] = [records |-> LastById(records),
                                                 supplies |-> supplies]]
             /\ \/ records = {} /\ supplies = {} /\ values' = values
                \/ UpdateGlobal(c, Date(n), r, records, supplies)
  BY Zenon DEF Snapshot
<1>2. n \in DOMAIN Readings[c] /\ at' = [at EXCEPT ![c] = n]
  BY DEF Snapshot
<1> DEFINE records  == Records(c, n, r)
           supplies == PlainSupplies(c, n, r, index) \cup BondSupply(c, n, r)
<1>3. UpdateGlobal(c, Date(n), r, records, supplies)
         => values' = Upsert(values, <<Date(n), c>>, PerChain(c, n, records, supplies))
  BY DEF UpdateGlobal
<1>4. QED
  BY <1>1, <1>2, <1>3, Zenon

LEMMA PerChainFields ==
    ASSUME NEW c, NEW n, NEW records, NEW supplies
    PROVE  /\ PerChain(c, n, records, supplies).market = MarketValue(records, n)
           /\ PerChain(c, n, records, supplies).liquid = LiquidBacking(records)
  BY DEF PerChain

LEMMA AddUpStep ==
    ASSUME NamesDistinct, PositionsDistinct, AddUpInv, [Next]_vars
    PROVE  AddUpInv'
<1>1. CASE UNCHANGED <<at, stored, values>>
  BY <1>1 DEF AddUpInv, AddsUp, Reports
<1>2. ASSUME NEW c \in Chain, Snapshot(c) PROVE AddUpInv'
  <2> DEFINE n == at[c] + 1
  <2>1. PICK r \in Readings[c][n] :
           LET records  == Records(c, n, r)
               supplies == PlainSupplies(c, n, r, index) \cup BondSupply(c, n, r)
           IN  /\ n \in DOMAIN Readings[c]
               /\ at' = [at EXCEPT ![c] = n]
               /\ stored' = [stored EXCEPT ![c] = [records |-> LastById(records),
                                                   supplies |-> supplies]]
               /\ \/ records = {} /\ supplies = {} /\ values' = values
                  \/ values' = Upsert(values, <<Date(n), c>>, PerChain(c, n, records, supplies))
    BY <1>2, SnapshotStores
  <2> DEFINE records  == Records(c, n, r)
             supplies == PlainSupplies(c, n, r, index) \cup BondSupply(c, n, r)
             mine     == PerChain(c, n, records, supplies)
  <2>2. OneDeposit(c, r) /\ OnePosition(c, r)
    BY <2>1 DEF PositionsDistinct
  <2>3. StoredRecords(LastById(records)) = records
    BY <2>2, NothingLost
  <2>4. mine.market = MarketValue(records, n) /\ mine.liquid = LiquidBacking(records)
    BY PerChainFields
  <2>5. /\ at' = [at EXCEPT ![c] = n]
        /\ stored' = [stored EXCEPT ![c] = [records |-> LastById(records), supplies |-> supplies]]
        /\ \/ records = {} /\ supplies = {} /\ values' = values
           \/ values' = Upsert(values, <<Date(n), c>>, mine)
    BY <2>1
  <2>6. DOMAIN at = Chain /\ DOMAIN stored = Chain /\ \A e \in Chain : AddsUp(e)
    BY DEF AddUpInv
  <2> HIDE DEF records, supplies, mine, n
  <2>7. /\ DOMAIN at' = Chain /\ DOMAIN stored' = Chain
        /\ at'[c] = n /\ stored'[c].records = LastById(records) /\ stored'[c].supplies = supplies
        /\ \A e \in Chain \ {c} : at'[e] = at[e] /\ stored'[e] = stored[e]
    BY <2>5, <2>6
  <2>8. AddsUp(c)'
    <3>1. CASE records = {} /\ supplies = {}
      BY <2>3, <2>7, <3>1 DEF AddsUp, Reports
    <3>2. CASE values' = Upsert(values, <<Date(n), c>>, mine)
      <4>1. <<Date(n), c>> \in DOMAIN values' /\ values'[<<Date(n), c>>] = mine
        BY <3>2 DEF Upsert
      <4>2. Date(at[c])' = Date(n)
        BY <2>7 DEF Date
      <4>3. QED
        BY <2>3, <2>4, <2>7, <4>1, <4>2 DEF AddsUp
    <3>3. QED
      BY <2>5, <3>1, <3>2
  <2>9. ASSUME NEW e \in Chain \ {c} PROVE AddsUp(e)'
    <3>1. at'[e] = at[e] /\ stored'[e] = stored[e] /\ AddsUp(e)
      BY <2>6, <2>7
    <3> DEFINE k == <<Date(at[e]), e>>
    <3>2. k # <<Date(n), c>>
      OBVIOUS
    <3>3. k \in DOMAIN values => k \in DOMAIN values' /\ values'[k] = values[k]
      <4> HIDE DEF k
      <4>1. QED
        BY <2>5, <3>2 DEF Upsert
    <3>4. <<Date(at[e]), e>>' = k
      BY <3>1 DEF Date
    <3>5. QED
      BY <3>1, <3>3, <3>4 DEF AddsUp, Reports
  <2>10. QED
    BY <2>7, <2>8, <2>9 DEF AddUpInv
<1>3. CASE Rebase
  BY <1>1, <1>3 DEF Rebase, snapshotVars
<1>4. CASE BondEvent
  BY <1>1, <1>4 DEF BondEvent, snapshotVars
<1>5. QED
  BY <1>1, <1>2, <1>3, <1>4 DEF Next, vars, snapshotVars

(* RecordsAddUp: a reader of the TokenRecord rows of a snapshot recomputes *)
(* the chain's market value and liquid backing from them (records.ts and   *)
(* computePerChainAggregate), provided that the id of a record tells it    *)
(* from all others: what makes records is named apart, no wallet has       *)
(* several Treasure deposits, and none holds the LP tokens of two handlers *)
(* with one id.  The finding about the deposits is that the second         *)
(* condition is needed; the third is, too.                                 *)
THEOREM RecordsAlwaysAddUp ==
    ASSUME NamesDistinct, PositionsDistinct
    PROVE  Spec => []RecordsAddUp
<1>1. Init => AddUpInv
  <2>1. SUFFICES ASSUME Init PROVE AddUpInv
    OBVIOUS
  <2>2. /\ at = [c \in Chain |-> 0]
        /\ stored = [c \in Chain |-> [records |-> <<>>, supplies |-> {}]]
    BY <2>1 DEF Init
  <2>3. ASSUME NEW c \in Chain PROVE ~Reports(c)
    <3>1. stored[c].records = <<>> /\ stored[c].supplies = {}
      BY <2>2
    <3>2. StoredRecords(<<>>) = {}
      BY DEF StoredRecords
    <3>3. QED
      BY <3>1, <3>2 DEF Reports
  <2>4. QED
    BY <2>2, <2>3 DEF AddUpInv, AddsUp
<1>2. AddUpInv => RecordsAddUp
  BY DEF AddUpInv, AddsUp, Reports, RecordsAddUp, StoredRecords
<1>3. QED
  BY <1>1, <1>2, AddUpStep, PTL DEF Spec

-----------------------------------------------------------------------------
(* What a set of sums of rows comes to: SumOf is the fold of the community *)
(* modules, for which the lemmas about SumOver hold.                       *)
LEMMA SumOfSupply ==
    ASSUME NEW S, IsFiniteSet(S)
    PROVE  SumOf(S, LAMBDA s : s.supply) = SumOver(S, [s \in S |-> s.supply])
<1> DEFINE h == [s \in S |-> s.supply]
           body(g) == [s \in SUBSET S |-> IF s = {} THEN 0
                          ELSE (CHOOSE x \in s : TRUE).supply + g[s \ {CHOOSE x \in s : TRUE}]]
           step(g) == [s \in SUBSET S |-> IF s = {} THEN 0 ELSE h[Chosen(s)] + g[s \ {Chosen(s)}]]
<1>1. \A g : body(g) = step(g)
  <2> DEFINE bodyAt(g, s) == IF s = {} THEN 0
                             ELSE (CHOOSE x \in s : TRUE).supply + g[s \ {CHOOSE x \in s : TRUE}]
             stepAt(g, s) == IF s = {} THEN 0 ELSE h[Chosen(s)] + g[s \ {Chosen(s)}]
  <2>1. ASSUME NEW g, NEW s \in SUBSET S PROVE bodyAt(g, s) = stepAt(g, s)
    <3>1. CASE s = {}
      BY <3>1
    <3>2. CASE s # {}
      <4>1. Chosen(s) = CHOOSE x \in s : TRUE
        BY DEF Chosen
      <4>2. Chosen(s) \in S
        BY <3>2, ChosenIn
      <4>3. h[Chosen(s)] = Chosen(s).supply
        BY <4>2
      <4>4. QED
        BY <4>1, <4>3
    <3>3. QED
      BY <3>1, <3>2
  <2> HIDE DEF bodyAt, stepAt
  <2>2. \A g : [s \in SUBSET S |-> bodyAt(g, s)] = [s \in SUBSET S |-> stepAt(g, s)]
    BY <2>1
  <2>3. QED
    BY <2>2, Zenon DEF bodyAt, stepAt
<1>2. SumOf(S, LAMBDA s : s.supply) = (CHOOSE g : g = body(g))[S]
  BY DEF SumOf, MapThenSumSet, MapThenFoldSet
<1>3. \A g : SumsUp(S, h, g) <=> g = step(g)
  BY DEF SumsUp
<1> HIDE DEF body, step, h
<1>4. PICK g : SumsUp(S, h, g)
  BY SumExists
<1>5. g = body(g)
  BY <1>1, <1>3, <1>4
<1> DEFINE f == CHOOSE k : k = body(k)
<1>6. f = body(f)
  BY <1>5
<1>7. SumsUp(S, h, f)
  BY <1>1, <1>3, <1>6
<1>8. SumsUp(S, h, CHOOSE k : SumsUp(S, h, k))
  BY <1>4
<1> HIDE DEF f
<1>9. f[S] = (CHOOSE k : SumsUp(S, h, k))[S]
  BY <1>7, <1>8, SumUnique
<1>10. QED
  BY <1>2, <1>9 DEF SumOver, f, h

LEMMA SumOfBalance ==
    ASSUME NEW S, IsFiniteSet(S)
    PROVE  SumOf(S, LAMBDA s : s.balance) = SumOver(S, [s \in S |-> s.balance])
<1> DEFINE h == [s \in S |-> s.balance]
           body(g) == [s \in SUBSET S |-> IF s = {} THEN 0
                          ELSE (CHOOSE x \in s : TRUE).balance + g[s \ {CHOOSE x \in s : TRUE}]]
           step(g) == [s \in SUBSET S |-> IF s = {} THEN 0 ELSE h[Chosen(s)] + g[s \ {Chosen(s)}]]
<1>1. \A g : body(g) = step(g)
  <2> DEFINE bodyAt(g, s) == IF s = {} THEN 0
                             ELSE (CHOOSE x \in s : TRUE).balance + g[s \ {CHOOSE x \in s : TRUE}]
             stepAt(g, s) == IF s = {} THEN 0 ELSE h[Chosen(s)] + g[s \ {Chosen(s)}]
  <2>1. ASSUME NEW g, NEW s \in SUBSET S PROVE bodyAt(g, s) = stepAt(g, s)
    <3>1. CASE s = {}
      BY <3>1
    <3>2. CASE s # {}
      <4>1. Chosen(s) = CHOOSE x \in s : TRUE
        BY DEF Chosen
      <4>2. Chosen(s) \in S
        BY <3>2, ChosenIn
      <4>3. h[Chosen(s)] = Chosen(s).balance
        BY <4>2
      <4>4. QED
        BY <4>1, <4>3
    <3>3. QED
      BY <3>1, <3>2
  <2> HIDE DEF bodyAt, stepAt
  <2>2. \A g : [s \in SUBSET S |-> bodyAt(g, s)] = [s \in SUBSET S |-> stepAt(g, s)]
    BY <2>1
  <2>3. QED
    BY <2>2, Zenon DEF bodyAt, stepAt
<1>2. SumOf(S, LAMBDA s : s.balance) = (CHOOSE g : g = body(g))[S]
  BY DEF SumOf, MapThenSumSet, MapThenFoldSet
<1>3. \A g : SumsUp(S, h, g) <=> g = step(g)
  BY DEF SumsUp
<1> HIDE DEF body, step, h
<1>4. PICK g : SumsUp(S, h, g)
  BY SumExists
<1>5. g = body(g)
  BY <1>1, <1>3, <1>4
<1> DEFINE f == CHOOSE k : k = body(k)
<1>6. f = body(f)
  BY <1>5
<1>7. SumsUp(S, h, f)
  BY <1>1, <1>3, <1>6
<1>8. SumsUp(S, h, CHOOSE k : SumsUp(S, h, k))
  BY <1>4
<1> HIDE DEF f
<1>9. f[S] = (CHOOSE k : SumsUp(S, h, k))[S]
  BY <1>7, <1>8, SumUnique
<1>10. QED
  BY <1>2, <1>9 DEF SumOver, f, h

LEMMA SumOfBids ==
    ASSUME NEW S, IsFiniteSet(S)
    PROVE  BidsOf(S) = SumOver(S, [m \in S |-> auctions[m].bid])
<1> DEFINE h == [m \in S |-> auctions[m].bid]
           body(g) == [s \in SUBSET S |-> IF s = {} THEN 0
                          ELSE auctions[CHOOSE x \in s : TRUE].bid + g[s \ {CHOOSE x \in s : TRUE}]]
           step(g) == [s \in SUBSET S |-> IF s = {} THEN 0 ELSE h[Chosen(s)] + g[s \ {Chosen(s)}]]
<1>1. \A g : body(g) = step(g)
  <2> DEFINE bodyAt(g, s) == IF s = {} THEN 0
                             ELSE auctions[CHOOSE x \in s : TRUE].bid + g[s \ {CHOOSE x \in s : TRUE}]
             stepAt(g, s) == IF s = {} THEN 0 ELSE h[Chosen(s)] + g[s \ {Chosen(s)}]
  <2>1. ASSUME NEW g, NEW s \in SUBSET S PROVE bodyAt(g, s) = stepAt(g, s)
    <3>1. CASE s = {}
      BY <3>1
    <3>2. CASE s # {}
      <4>1. Chosen(s) = CHOOSE x \in s : TRUE
        BY DEF Chosen
      <4>2. Chosen(s) \in S
        BY <3>2, ChosenIn
      <4>3. h[Chosen(s)] = auctions[Chosen(s)].bid
        BY <4>2
      <4>4. QED
        BY <4>1, <4>3
    <3>3. QED
      BY <3>1, <3>2
  <2> HIDE DEF bodyAt, stepAt
  <2>2. \A g : [s \in SUBSET S |-> bodyAt(g, s)] = [s \in SUBSET S |-> stepAt(g, s)]
    BY <2>1
  <2>3. QED
    BY <2>2, Zenon DEF bodyAt, stepAt
<1>2. BidsOf(S) = (CHOOSE g : g = body(g))[S]
  BY DEF BidsOf, SumOf, MapThenSumSet, MapThenFoldSet
<1>3. \A g : SumsUp(S, h, g) <=> g = step(g)
  BY DEF SumsUp
<1> HIDE DEF body, step, h
<1>4. PICK g : SumsUp(S, h, g)
  BY SumExists
<1>5. g = body(g)
  BY <1>1, <1>3, <1>4
<1> DEFINE f == CHOOSE k : k = body(k)
<1>6. f = body(f)
  BY <1>5
<1>7. SumsUp(S, h, f)
  BY <1>1, <1>3, <1>6
<1>8. SumsUp(S, h, CHOOSE k : SumsUp(S, h, k))
  BY <1>4
<1> HIDE DEF f
<1>9. f[S] = (CHOOSE k : SumsUp(S, h, k))[S]
  BY <1>7, <1>8, SumUnique
<1>10. QED
  BY <1>2, <1>9 DEF SumOver, f, h

-----------------------------------------------------------------------------
(* Exact quotients.                                                        *)
LEMMA ExactQuotient ==
    ASSUME NEW b \in Nat \ {0}, NEW x \in Int
    PROVE  (b * x) \div b = x
  BY SMTT(30)

LEMMA DividedEvenly ==
    ASSUME NEW n \in Nat \ {0}, NEW a \in Nat, a % n = 0
    PROVE  a = n * (a \div n) /\ a \div n \in Nat
  BY SMTT(30)

-----------------------------------------------------------------------------
(* Sets of rows made from finite sets.                                     *)
LEMMA MadeFromOne ==
    ASSUME NEW A, IsFiniteSet(A), NEW f, NEW R, \A y \in R : \E a \in A : y = f[a]
    PROVE  IsFiniteSet(R)
<1>1. R \subseteq {f[a] : a \in A}
  OBVIOUS
<1>2. IsFiniteSet({f[a] : a \in A})
  BY ImageFinite
<1>3. QED
  BY <1>1, <1>2, FS_Subset

-----------------------------------------------------------------------------
(* The supply of rows of some types.                                       *)
Counted(S) == IsFiniteSet(S) /\ \A s \in S : s.supply \in Int

LEMMA SupplyInt ==
    ASSUME NEW S, Counted(S), NEW types
    PROVE  SupplyOf(S, types) \in Int
<1> DEFINE T == {s \in S : s.type \in types}
<1>1. IsFiniteSet(T) /\ \A s \in T : [t \in T |-> t.supply][s] \in Int
  BY FS_Subset DEF Counted
<1>2. SumOver(T, [t \in T |-> t.supply]) \in Int
  BY <1>1, SumInt
<1>3. QED
  BY <1>1, <1>2, SumOfSupply DEF SupplyOf

LEMMA SupplyNotPositive ==
    ASSUME NEW S, Counted(S), NEW types, \A s \in S : s.type \in types => s.supply <= 0
    PROVE  SupplyOf(S, types) <= 0
<1> DEFINE T == {s \in S : s.type \in types}
<1>1. IsFiniteSet(T) /\ \A s \in T : [t \in T |-> t.supply][s] \in Int /\ [t \in T |-> t.supply][s] <= 0
  BY FS_Subset DEF Counted
<1>2. SumOver(T, [t \in T |-> t.supply]) <= 0
  BY <1>1, SumNotPositive
<1>3. QED
  BY <1>1, <1>2, SumOfSupply DEF SupplyOf

LEMMA SupplySplit ==
    ASSUME NEW S, Counted(S), NEW types, NEW others, types \cap others = {}
    PROVE  SupplyOf(S, types \cup others) = SupplyOf(S, types) + SupplyOf(S, others)
<1> DEFINE A == {s \in S : s.type \in types}
           B == {s \in S : s.type \in others}
           h == [s \in A \cup B |-> s.supply]
<1>1. {s \in S : s.type \in types \cup others} = A \cup B /\ A \cap B = {}
  OBVIOUS
<1>2. IsFiniteSet(A) /\ IsFiniteSet(B) /\ IsFiniteSet(A \cup B)
  BY FS_Subset, FS_Union DEF Counted
<1> DEFINE g == [s \in A |-> s.supply]
           k == [s \in B |-> s.supply]
<1>3. /\ \A s \in A : h[s] \in Int /\ h[s] = g[s]
      /\ \A s \in B : h[s] \in Int /\ h[s] = k[s]
  BY DEF Counted
<1>4. SumOver(A \cup B, h) = SumOver(A, g) + SumOver(B, k)
  <2> HIDE DEF A, B, h, g, k
  <2>1. QED
    BY <1>1, <1>2, <1>3, SumOfParts
<1>6. /\ SupplyOf(S, types \cup others) = SumOver(A \cup B, h)
      /\ SupplyOf(S, types) = SumOver(A, [s \in A |-> s.supply])
      /\ SupplyOf(S, others) = SumOver(B, [s \in B |-> s.supply])
  BY <1>1, <1>2, SumOfSupply DEF SupplyOf
<1>7. QED
  BY <1>4, <1>6
-----------------------------------------------------------------------------
(* The supply rows of a snapshot.                                          *)

(* Readings are amounts.                                                   *)
Amounts(r) == \A what \in DOMAIN r : r[what] \in Nat

AmountsRead ==
    \A c \in Chain : \A n \in DOMAIN Readings[c] : \A r \in Readings[c][n] : Amounts(r)

LEMMA ReadNat == ASSUME NEW r, Amounts(r), NEW what PROVE Read(r, what) \in Nat
  BY DEF Amounts, Read

(* Rows of one type that take OHM off the supply, or nothing.              *)
Deducts(rows, type) ==
    /\ IsFiniteSet(rows)
    /\ \A y \in rows : y.type = type /\ y.balance \in Nat /\ y.supply = -y.balance

LEMMA DeductionFields ==
    ASSUME NEW type, NEW token, NEW pool, NEW source, NEW balance \in Nat
    PROVE  /\ Deduction(type, token, pool, source, balance).type = type
           /\ Deduction(type, token, pool, source, balance).balance = balance
           /\ Deduction(type, token, pool, source, balance).supply = -balance
<1>1. (-1) * balance = -balance
  OBVIOUS
<1>2. QED
  BY <1>1 DEF Deduction, TokenSupply

LEMMA DeductsOne ==
    ASSUME NEW rows, NEW type, NEW A, IsFiniteSet(A), NEW f,
           \A y \in rows : \E a \in A : y = f[a],
           \A y \in rows : \E token, pool, source : \E b \in Nat :
              y = Deduction(type, token, pool, source, b)
    PROVE  Deducts(rows, type)
<1>1. IsFiniteSet(rows)
  BY MadeFromOne
<1>2. QED
  BY <1>1, DeductionFields DEF Deducts

LEMMA FiniteTables ==
    ASSUME NEW c \in Chain
    PROVE  /\ IsFiniteSet(Config[c].wallets) /\ IsFiniteSet(Config[c].nftPools)
           /\ IsFiniteSet(Config[c].handlers) /\ IsFiniteSet(Config[c].equivalents)
           /\ IsFiniteSet(Config[c].amos) /\ IsFiniteSet(Config[c].markets)
           /\ IsFiniteSet(Config[c].vaults) /\ IsFiniteSet(Config[c].offsets)
  BY SnapshotAssumption

LEMMA TreasuryDeducts ==
    ASSUME NEW c \in Chain, NEW n, NEW r, Amounts(r), NEW i \in Nat
    PROVE  Deducts(TreasuryOhm(c, n, r, i), "Treasury")
<1> DEFINE kept == [start |-> Config[c].ohmStart, token |-> Config[c].ohm, viaIndex |-> Config[c].gohm]
           raw(e, w) == IF e = kept THEN LedgerBalance(c, e.token, w, r)
                        ELSE Read(r, <<"ledger", e.token, w>>)
           units(e) == IF e.viaIndex THEN i ELSE 1
           E == {kept} \cup Config[c].equivalents
           W == Config[c].wallets
           row(e, w) == Deduction("Treasury", e.token, "", w, raw(e, w) * units(e))
           f == [p \in E \X W |-> row(p[1], p[2])]
<1>1. IsFiniteSet(E) /\ IsFiniteSet(W)
  <2>1. IsFiniteSet(Config[c].wallets) /\ IsFiniteSet(Config[c].equivalents)
    BY FiniteTables
  <2>2. IsFiniteSet({kept})
    BY FS_Singleton, Zenon
  <2> HIDE DEF kept
  <2>3. QED
    BY <2>1, <2>2, FS_Union
<1>2. ASSUME NEW y \in TreasuryOhm(c, n, r, i)
      PROVE  \E e \in E, w \in W : y = row(e, w)
  BY <1>2, SnapshotAssumption DEF TreasuryOhm
<1>3. \A e, w : raw(e, w) * units(e) \in Nat
  <2>1. \A e, w : raw(e, w) \in Nat
    BY ReadNat DEF LedgerBalance, BalanceOf
  <2>2. \A e : units(e) \in Nat
    OBVIOUS
  <2> HIDE DEF raw, units
  <2>3. QED
    BY <2>1, <2>2
<1>4. IsFiniteSet(E \X W)
  BY <1>1, FS_Product
<1> HIDE DEF raw, units, kept, E, W
<1>5. \A y \in TreasuryOhm(c, n, r, i) : \E p \in E \X W : y = f[p]
  <2>1. SUFFICES ASSUME NEW y \in TreasuryOhm(c, n, r, i)
                 PROVE  \E p \in E \X W : y = f[p]
    OBVIOUS
  <2>2. PICK e \in E, w \in W : y = row(e, w)
    BY <1>2
  <2>3. <<e, w>> \in E \X W /\ f[<<e, w>>] = row(e, w)
    <3> HIDE DEF row
    <3>1. QED
      OBVIOUS
  <2> HIDE DEF row, f
  <2>4. QED
    BY <2>2, <2>3
<1>6. \A y \in TreasuryOhm(c, n, r, i) : \E token, pool, source : \E b \in Nat :
         y = Deduction("Treasury", token, pool, source, b)
  <2>1. SUFFICES ASSUME NEW y \in TreasuryOhm(c, n, r, i)
                 PROVE  \E token, pool, source : \E b \in Nat :
                           y = Deduction("Treasury", token, pool, source, b)
    OBVIOUS
  <2>2. PICK e \in E, w \in W : y = Deduction("Treasury", e.token, "", w, raw(e, w) * units(e))
    BY <1>2
  <2>3. raw(e, w) * units(e) \in Nat
    BY <1>3
  <2>4. QED
    BY <2>2, <2>3, Zenon
<1> HIDE DEF row, f
<1>7. QED
  BY <1>4, <1>5, <1>6, DeductsOne

LEMMA NftDeducts ==
    ASSUME NEW c \in Chain, NEW n, NEW r, Amounts(r)
    PROVE  Deducts(NftSupply(c, n, r), "Liquidity")
<1> DEFINE A == Config[c].wallets
           B == Config[c].nftPools
           amount(w, p) == PositionAmount(r, w, p.id, Config[c].ohm)
           row(w, p) == Deduction("Liquidity", Config[c].ohm, p.id, w, amount(w, p))
           f == [p \in A \X B |-> row(p[1], p[2])]
<1>1. IsFiniteSet(A \X B)
  BY FiniteTables, FS_Product
<1>2. ASSUME NEW y \in NftSupply(c, n, r)
      PROVE  \E w \in A, p \in B : y = row(w, p)
  BY <1>2, SnapshotAssumption DEF NftSupply, NftPositions
<1>3. ASSUME NEW w \in A, NEW p \in B PROVE amount(w, p) \in Nat
  BY ReadNat DEF PositionAmount
<1> HIDE DEF A, B, amount
<1>4. ASSUME NEW y \in NftSupply(c, n, r)
      PROVE  /\ \E p \in A \X B : y = f[p]
             /\ \E token, pool, source : \E m \in Nat :
                   y = Deduction("Liquidity", token, pool, source, m)
  <2>1. PICK w \in A, p \in B : y = row(w, p)
    BY <1>2
  <2>2. <<w, p>> \in A \X B /\ f[<<w, p>>] = row(w, p)
    <3> HIDE DEF row
    <3>1. QED
      OBVIOUS
  <2>3. amount(w, p) \in Nat
    BY <1>3
  <2>4. \E token, pool, source : \E m \in Nat : y = Deduction("Liquidity", token, pool, source, m)
    BY <2>1, <2>3, Zenon
  <2> HIDE DEF row, f
  <2>5. QED
    BY <2>1, <2>2, <2>4
<1> HIDE DEF row, f
<1>5. QED
  BY <1>1, <1>4, DeductsOne

LEMMA LiquidityDeducts ==
    ASSUME NEW c \in Chain, NEW n, NEW r, Amounts(r), NEW i \in Nat
    PROVE  Deducts(OwnedLiquiditySupply(c, n, r, i), "Liquidity")
<1> DEFINE A == Config[c].handlers
           B == Config[c].wallets
           amount(h, w) == Read(r, <<"underlying", h.id, w>>) * Multiplier(c, i)
           row(h, w) == Deduction("Liquidity", Config[c].ohm, h.id, w, amount(h, w))
           f == [p \in A \X B |-> row(p[1], p[2])]
<1>1. IsFiniteSet(A \X B)
  BY FiniteTables, FS_Product
<1>2. ASSUME NEW y \in OwnedLiquiditySupply(c, n, r, i)
      PROVE  \E h \in A, w \in B : y = row(h, w)
  BY <1>2, SnapshotAssumption DEF OwnedLiquiditySupply
<1>3. ASSUME NEW h \in A, NEW w \in B PROVE amount(h, w) \in Nat
  BY ReadNat DEF Multiplier
<1> HIDE DEF A, B, amount
<1>4. ASSUME NEW y \in OwnedLiquiditySupply(c, n, r, i)
      PROVE  /\ \E p \in A \X B : y = f[p]
             /\ \E token, pool, source : \E m \in Nat :
                   y = Deduction("Liquidity", token, pool, source, m)
  <2>1. PICK h \in A, w \in B : y = row(h, w)
    BY <1>2
  <2>2. <<h, w>> \in A \X B /\ f[<<h, w>>] = row(h, w)
    <3> HIDE DEF row
    <3>1. QED
      OBVIOUS
  <2>3. amount(h, w) \in Nat
    BY <1>3
  <2>4. \E token, pool, source : \E m \in Nat : y = Deduction("Liquidity", token, pool, source, m)
    BY <2>1, <2>3, Zenon
  <2> HIDE DEF row, f
  <2>5. QED
    BY <2>1, <2>2, <2>4
<1> HIDE DEF row, f
<1>5. QED
  BY <1>1, <1>4, DeductsOne

LentByAmos(c, n, r) ==
    {Deduction("Lending", Config[c].ohm, "", a, Read(r, <<"amo", a>>)) :
        a \in {x \in Config[c].amos : n >= DynamicLending /\ Read(r, <<"amo", x>>) # 0}}

LentInMarkets(c, n, r) ==
    UNION {{Deduction("Lending", Config[c].ohm, m.id, w, Read(r, <<"ledger", m.id, w>>)) :
                w \in {v \in WalletsFor(c, m.id) : Read(r, <<"ledger", m.id, v>>) # 0}} :
           m \in {x \in Config[c].markets : Active(x, n)}}

LEMMA AmosDeduct ==
    ASSUME NEW c \in Chain, NEW n, NEW r, Amounts(r)
    PROVE  Deducts(LentByAmos(c, n, r), "Lending")
<1> DEFINE A == Config[c].amos
           amount(a) == Read(r, <<"amo", a>>)
           row(a) == Deduction("Lending", Config[c].ohm, "", a, amount(a))
           f == [a \in A |-> row(a)]
<1>1. IsFiniteSet(A)
  BY FiniteTables
<1>2. ASSUME NEW y \in LentByAmos(c, n, r)
      PROVE  \E a \in A : y = row(a)
  BY <1>2 DEF LentByAmos
<1>3. ASSUME NEW a \in A PROVE amount(a) \in Nat
  BY ReadNat
<1> HIDE DEF A, amount
<1>4. ASSUME NEW y \in LentByAmos(c, n, r)
      PROVE  /\ \E a \in A : y = f[a]
             /\ \E token, pool, source : \E m \in Nat :
                   y = Deduction("Lending", token, pool, source, m)
  <2>1. PICK a \in A : y = row(a)
    BY <1>2
  <2>2. amount(a) \in Nat
    BY <1>3
  <2>3. \E token, pool, source : \E m \in Nat : y = Deduction("Lending", token, pool, source, m)
    BY <2>1, <2>2, Zenon
  <2> HIDE DEF row
  <2>4. QED
    BY <2>1, <2>3
<1> HIDE DEF row, f
<1>5. QED
  BY <1>1, <1>4, DeductsOne

LEMMA MarketsDeduct ==
    ASSUME NEW c \in Chain, NEW n, NEW r, Amounts(r)
    PROVE  Deducts(LentInMarkets(c, n, r), "Lending")
<1> DEFINE A == Config[c].markets
           B == Config[c].wallets
           amount(m, w) == Read(r, <<"ledger", m.id, w>>)
           row(m, w) == Deduction("Lending", Config[c].ohm, m.id, w, amount(m, w))
           f == [p \in A \X B |-> row(p[1], p[2])]
<1>1. IsFiniteSet(A \X B)
  BY FiniteTables, FS_Product
<1>2. ASSUME NEW y \in LentInMarkets(c, n, r)
      PROVE  \E m \in A, w \in B : y = row(m, w)
  BY <1>2, SnapshotAssumption DEF LentInMarkets, WalletsFor
<1>3. ASSUME NEW m \in A, NEW w \in B PROVE amount(m, w) \in Nat
  BY ReadNat
<1> HIDE DEF A, B, amount
<1>4. ASSUME NEW y \in LentInMarkets(c, n, r)
      PROVE  /\ \E p \in A \X B : y = f[p]
             /\ \E token, pool, source : \E z \in Nat :
                   y = Deduction("Lending", token, pool, source, z)
  <2>1. PICK m \in A, w \in B : y = row(m, w)
    BY <1>2
  <2>2. <<m, w>> \in A \X B /\ f[<<m, w>>] = row(m, w)
    <3> HIDE DEF row
    <3>1. QED
      OBVIOUS
  <2>3. amount(m, w) \in Nat
    BY <1>3
  <2>4. \E token, pool, source : \E z \in Nat : y = Deduction("Lending", token, pool, source, z)
    BY <2>1, <2>3, Zenon
  <2> HIDE DEF row, f
  <2>5. QED
    BY <2>1, <2>2, <2>4
<1> HIDE DEF row, f
<1>5. QED
  BY <1>1, <1>4, DeductsOne

LEMMA VaultsDeduct ==
    ASSUME NEW c \in Chain, NEW n, NEW r, Amounts(r)
    PROVE  Deducts(BlvSupply(c, n, r), "BLV")
<1> DEFINE A == {x \in Config[c].vaults : Read(r, <<"blv", x.id>>) # 0}
           amount(v) == VaultShares(c, r)[v]
           row(v) == Deduction("BLV", Config[c].ohm, "", v.id, amount(v))
           f == [v \in A |-> row(v)]
<1>1. IsFiniteSet(A)
  BY FiniteTables, FS_Subset
<1>2. ASSUME NEW y \in BlvSupply(c, n, r)
      PROVE  \E v \in A : y = row(v)
  BY <1>2, SnapshotAssumption DEF BlvSupply, VaultShares
<1>3. ASSUME NEW v \in A PROVE amount(v) \in Nat
  BY ReadNat DEF VaultShares
<1> HIDE DEF A, amount
<1>4. ASSUME NEW y \in BlvSupply(c, n, r)
      PROVE  /\ \E v \in A : y = f[v]
             /\ \E token, pool, source : \E m \in Nat :
                   y = Deduction("BLV", token, pool, source, m)
  <2>1. PICK v \in A : y = row(v)
    BY <1>2
  <2>2. amount(v) \in Nat
    BY <1>3
  <2>3. \E token, pool, source : \E m \in Nat : y = Deduction("BLV", token, pool, source, m)
    BY <2>1, <2>2, Zenon
  <2> HIDE DEF row
  <2>4. QED
    BY <2>1, <2>3
<1> HIDE DEF row, f
<1>5. QED
  BY <1>1, <1>4, DeductsOne

LEMMA OffsetsDeduct ==
    ASSUME NEW c \in Chain, NEW n, NEW i \in Nat
    PROVE  Deducts(OffsetSupply(c, n, i), "Offset")
<1> DEFINE A == Config[c].offsets
           amount(o) == o.ohm * i
           row(o) == Deduction("Offset", Config[c].ohm, "", "migration", amount(o))
           f == [o \in A |-> row(o)]
<1>1. IsFiniteSet(A)
  BY FiniteTables
<1>2. ASSUME NEW y \in OffsetSupply(c, n, i)
      PROVE  \E o \in A : y = row(o)
  BY <1>2, SnapshotAssumption DEF OffsetSupply
<1>3. ASSUME NEW o \in A PROVE amount(o) \in Nat
  BY SnapshotAssumption
<1> HIDE DEF A, amount
<1>4. ASSUME NEW y \in OffsetSupply(c, n, i)
      PROVE  /\ \E o \in A : y = f[o]
             /\ \E token, pool, source : \E m \in Nat :
                   y = Deduction("Offset", token, pool, source, m)
  <2>1. PICK o \in A : y = row(o)
    BY <1>2
  <2>2. amount(o) \in Nat
    BY <1>3
  <2>3. \E token, pool, source : \E m \in Nat : y = Deduction("Offset", token, pool, source, m)
    BY <2>1, <2>2, Zenon
  <2> HIDE DEF row
  <2>4. QED
    BY <2>1, <2>3
<1> HIDE DEF row, f
<1>5. QED
  BY <1>1, <1>4, DeductsOne

LEMMA DeductsBoth ==
    ASSUME NEW type, NEW rows, NEW more, Deducts(rows, type), Deducts(more, type)
    PROVE  Deducts(rows \cup more, type)
  BY FS_Union DEF Deducts

LEMMA LendingDeducts ==
    ASSUME NEW c \in Chain, NEW n, NEW r, Amounts(r)
    PROVE  Deducts(LendingSupply(c, n, r), "Lending")
<1>1. LendingSupply(c, n, r) = LentByAmos(c, n, r) \cup LentInMarkets(c, n, r)
  BY DEF LendingSupply, LentByAmos, LentInMarkets
<1>2. QED
  BY <1>1, AmosDeduct, MarketsDeduct, DeductsBoth

-----------------------------------------------------------------------------
(* The bonds of a snapshot.                                                *)

(* What launches, clearings and burns may come to.                         *)
BondsInv ==
    /\ at \in [Chain -> Nat] /\ index \in Nat
    /\ auctions \in [DOMAIN auctions -> [capacity : {Capacity}, term : {Term},
                                         bid : {None, Bid}, closed : Int]]
    /\ DOMAIN auctions \subseteq Market
    /\ bondHeld \in Nat
    /\ \E k \in Int : bondHeld = Spare + k * Bid

LEMMA BondsStep == ASSUME BondsInv, [Next]_vars PROVE BondsInv'
<1>1. CASE UNCHANGED <<at, index, auctions, bondHeld>>
  BY <1>1 DEF BondsInv
<1>2. ASSUME NEW c \in Chain, Snapshot(c) PROVE BondsInv'
  <2>1. at' = [at EXCEPT ![c] = at[c] + 1] /\ UNCHANGED <<index, auctions, bondHeld>>
    BY <1>2 DEF Snapshot, bondVars
  <2>2. at' \in [Chain -> Nat]
    BY <2>1 DEF BondsInv
  <2>3. QED
    BY <2>1, <2>2 DEF BondsInv
<1>3. CASE Rebase
  BY <1>3 DEF Rebase, snapshotVars, bondVars, BondsInv
<1>4. ASSUME NEW m \in Market, GnosisAuctionLaunched(m, Capacity, Term),
             UNCHANGED <<at, index>>
      PROVE  BondsInv'
  <2> DEFINE new == [capacity |-> Capacity, term |-> Term, bid |-> None, closed |-> None]
  <2>1. /\ DOMAIN auctions' = DOMAIN auctions \cup {m} /\ bondHeld' = bondHeld
        /\ auctions' = [k \in DOMAIN auctions \cup {m} |-> IF k = m THEN new ELSE auctions[k]]
    BY <1>4 DEF GnosisAuctionLaunched, Upsert
  <2>2. new \in [capacity : {Capacity}, term : {Term}, bid : {None, Bid}, closed : Int]
    BY DEF None
  <2> HIDE DEF new
  <2>3. QED
    BY <1>4, <2>1, <2>2 DEF BondsInv
<1>5. ASSUME NEW m \in Market, NEW now \in Int, AuctionCleared(m, Bid, now), UNCHANGED <<at, index>>
      PROVE  BondsInv'
  <2>1. CASE m \notin DOMAIN auctions
    BY <1>1, <1>5, <2>1 DEF AuctionCleared
  <2>2. CASE m \in DOMAIN auctions
    <3>1. /\ auctions' = [auctions EXCEPT ![m].bid = Bid, ![m].closed = now]
          /\ bondHeld' = bondHeld + Bid
      BY <1>5, <2>2 DEF AuctionCleared
    <3>2. DOMAIN auctions' = DOMAIN auctions
      BY <3>1
    <3>3. auctions' \in [DOMAIN auctions' -> [capacity : {Capacity}, term : {Term},
                                              bid : {None, Bid}, closed : Int]]
      BY <2>2, <3>1, <3>2 DEF BondsInv
    <3>4. PICK k \in Int : bondHeld = Spare + k * Bid
      BY DEF BondsInv
    <3>5. bondHeld' \in Nat /\ bondHeld' = Spare + (k + 1) * Bid
      BY <3>1, <3>4, BondAssumption DEF BondsInv
    <3>6. QED
      BY <1>5, <3>2, <3>3, <3>5 DEF BondsInv
  <2>3. QED
    BY <2>1, <2>2
<1>6. ASSUME BurnBonds(Bid), UNCHANGED <<at, index>> PROVE BondsInv'
  <2>1. PICK k \in Int : bondHeld = Spare + k * Bid
    BY DEF BondsInv
  <2>2. bondHeld' \in Nat /\ bondHeld' = Spare + (k - 1) * Bid /\ UNCHANGED auctions
    BY <1>6, <2>1, BondAssumption DEF BondsInv, BurnBonds
  <2>3. QED
    BY <1>6, <2>2 DEF BondsInv
<1>7. CASE BondEvent
  <2>1. UNCHANGED <<at, index>> /\ at[ETHEREUM] \in Int
    BY <1>7, SnapshotAssumption DEF BondEvent, snapshotVars, BondsInv
  <2>2. QED
    BY <1>4, <1>5, <1>6, <1>7, <2>1 DEF BondEvent
<1>8. QED
  BY <1>1, <1>2, <1>3, <1>7 DEF Next, vars, snapshotVars, bondVars

LEMMA BondsInit == Init => BondsInv
<1>1. SUFFICES ASSUME Init PROVE BondsInv
  OBVIOUS
<1>2. /\ at = [c \in Chain |-> 0] /\ index = 0 /\ bondHeld = Spare
      /\ auctions = <<>>
  BY <1>1 DEF Init, BondInit
<1>3. DOMAIN auctions = {} /\ auctions = [m \in {} |-> m]
  BY <1>2
<1>4. bondHeld = Spare + 0 * Bid /\ bondHeld \in Nat
  BY <1>2, BondAssumption
<1>5. QED
  BY <1>2, <1>3, <1>4 DEF BondsInv

(* Bond rows of equal amounts, one for each auction.                       *)
RowsFor(T, type, source, b) == {BondRow(type, m, source, b) : m \in T}

SuppliesOf(rows) == SumOver(rows, [s \in rows |-> s.supply])
BalancesOf(rows) == SumOver(rows, [s \in rows |-> s.balance])

LEMMA EqualRows ==
    ASSUME NEW T, IsFiniteSet(T), NEW type, NEW source, NEW b \in Int,
           NEW made, made = RowsFor(T, type, source, b)
    PROVE  /\ IsFiniteSet(made)
           /\ \A s \in made : s.type = type /\ s.balance = b /\ s.supply = -b
           /\ SuppliesOf(made) = -(b * Cardinality(T)) /\ BalancesOf(made) = b * Cardinality(T)
<1> DEFINE f == [m \in T |-> BondRow(type, m, source, b)]
           rows == {f[m] : m \in T}
           supply == [s \in rows |-> s.supply]
           balance == [s \in rows |-> s.balance]
<1>1. made = rows
  BY DEF RowsFor
<1>2. \A m \in T : f[m].type = type /\ f[m].balance = b /\ f[m].supply = -b
  <2>1. (-1) * b = -b
    OBVIOUS
  <2>2. QED
    BY <2>1 DEF BondRow, Deduction, TokenSupply
<1>3. \A m, k \in T : f[m] = f[k] => m = k
  <2>1. SUFFICES ASSUME NEW m \in T, NEW k \in T, f[m] = f[k] PROVE m = k
    OBVIOUS
  <2>2. f[m].id = f[k].id
    BY <2>1
  <2>3. <<Config[ETHEREUM].ohm, type, m, source>> = <<Config[ETHEREUM].ohm, type, k, source>>
    BY <2>2 DEF BondRow, Deduction, TokenSupply
  <2>4. QED
    BY <2>3
<1> HIDE DEF f
<1>4. IsFiniteSet(rows)
  BY ImageFinite
<1>5. \A m \in T : supply[f[m]] = -b /\ balance[f[m]] = b
  BY <1>2
<1>6. \A s \in rows : s.type = type /\ s.balance = b /\ s.supply = -b
  BY <1>2
<1> DEFINE n == Cardinality(T)
<1>7. n \in Nat
  BY FS_CardinalityType
<1>8. SumOver(rows, supply) = (-b) * n
  <2>1. -b \in Int
    OBVIOUS
  <2> HIDE DEF supply
  <2>2. \A m \in T : supply[f[m]] = -b
    BY <1>5
  <2>3. QED
    BY <1>3, <2>1, <2>2, SumEqual
<1>9. SumOver(rows, balance) = b * n
  <2> HIDE DEF balance
  <2>1. \A m \in T : balance[f[m]] = b
    BY <1>5
  <2>2. QED
    BY <1>3, <2>1, SumEqual
<1>10. (-b) * n = -(b * n)
  BY <1>7
<1>11. QED
  BY <1>1, <1>4, <1>6, <1>8, <1>9, <1>10 DEF SuppliesOf, BalancesOf

LEMMA BidsCounted ==
    ASSUME BondsInv, NEW ms, ms \subseteq DOMAIN auctions, \A m \in ms : ~IsOpen(auctions[m])
    PROVE  IsFiniteSet(ms) /\ Cardinality(ms) \in Nat /\ BidsOf(ms) = Bid * Cardinality(ms)
<1>1. IsFiniteSet(ms)
  BY BondAssumption, FS_Subset DEF BondsInv
<1>2. \A m \in ms : auctions[m].bid = Bid
  BY DEF BondsInv, IsOpen
<1>3. SumOver(ms, [m \in ms |-> auctions[m].bid]) = Bid * Cardinality(ms)
  <2> DEFINE h == [m \in ms |-> auctions[m].bid]
  <2>1. \A m \in ms : h[m] = Bid
    BY <1>2
  <2>2. Bid \in Int
    BY BondAssumption
  <2> HIDE DEF h
  <2>3. SumOver(ms, h) = Bid * Cardinality(ms)
    BY <1>1, <2>1, <2>2, SumConstant
  <2>4. QED
    BY <2>3 DEF h
<1>4. QED
  BY <1>1, <1>3, SumOfBids, FS_CardinalityType

(* The supply rows of the auctions, by phase.                              *)
PreMinted ==
    {BondRow("Preminted", m, "teller", auctions[m].capacity) :
        m \in {x \in DOMAIN auctions : IsOpen(auctions[x])}}
StillVesting(now) ==
    {BondRow("VestingDeposits", m, "manager", auctions[m].bid) : m \in Vesting(now)}
Promised(now) ==
    {BondRow("VestingTokens", m, "teller", auctions[m].capacity) : m \in Vesting(now)}
Deposited(now) ==
    {BondRow("BondDeposits", m, "manager", AdjustedBid(m, now)) :
        m \in {x \in Vested(now) : BidsOf(Vested(now)) # 0 /\ AdjustedBid(x, now) # 0}}

(* Amounts come in a unit so small that the balance of the bond manager is *)
(* divided evenly among any number of auctions (the code's are decimals).  *)
WholeShares == \A n \in 1..Cardinality(Market) : Bid % n = 0 /\ Spare % n = 0

LEMMA BondPhases ==
    ASSUME BondsInv, NEW now
    PROVE  /\ IsFiniteSet(Vesting(now)) /\ Cardinality(Vesting(now)) \in Nat
           /\ BidsOf(Vesting(now)) = Bid * Cardinality(Vesting(now))
           /\ IsFiniteSet(Vested(now)) /\ Cardinality(Vested(now)) \in Nat
           /\ BidsOf(Vested(now)) = Bid * Cardinality(Vested(now))
           /\ Vested(now) \subseteq Market
<1>1. /\ Vesting(now) \subseteq DOMAIN auctions /\ \A m \in Vesting(now) : ~IsOpen(auctions[m])
      /\ Vested(now) \subseteq DOMAIN auctions /\ \A m \in Vested(now) : ~IsOpen(auctions[m])
  BY DEF Vesting, Vested
<1>2. QED
  BY <1>1, BidsCounted DEF BondsInv

(* The vested auctions share what is capped, evenly.                       *)
LEMMA EvenShares ==
    ASSUME BondsInv, WholeShares, NEW now, BidsOf(Vested(now)) # 0
    PROVE  \E x \in Int : /\ CappedBondOhm(now) = Cardinality(Vested(now)) * x
                          /\ \A m \in Vested(now) : AdjustedBid(m, now) = x
<1> DEFINE v == Cardinality(Vested(now))
           w == Cardinality(Vesting(now))
<1>1. /\ v \in Nat /\ w \in Nat
      /\ BidsOf(Vested(now)) = Bid * v /\ BidsOf(Vesting(now)) = Bid * w
  BY BondPhases
<1>2. v <= Cardinality(Market) /\ Cardinality(Market) \in Nat
  BY BondPhases, BondAssumption, FS_Subset, FS_CardinalityType
<1> HIDE DEF v, w
<1>3. Bid \in Nat \ {0} /\ v \in Nat \ {0} /\ Spare \in Nat
  BY <1>1, BondAssumption
<1>4. Bid % v = 0 /\ Spare % v = 0
  BY <1>2, <1>3 DEF WholeShares
<1>5. PICK b \in Nat, s \in Nat : Bid = v * b /\ Spare = v * s
  BY <1>3, <1>4, DividedEvenly
<1>6. PICK y \in Int : BondBalance = v * y
  <2>1. PICK k \in Int : bondHeld = Spare + k * Bid
    BY DEF BondsInv
  <2>2. bondHeld = v * (s + k * b)
    BY <1>3, <1>5, <2>1
  <2>3. BondBalance = bondHeld \/ BondBalance = 0
    BY DEF BondBalance
  <2>4. v * 0 = 0 /\ s + k * b \in Int
    BY <1>3, <2>1
  <2>5. QED
    BY <2>2, <2>3, <2>4
<1>7. PICK x \in Int : CappedBondOhm(now) = v * x
  <2>1. CappedBondOhm(now) = v * Bid \/ CappedBondOhm(now) = v * y - Bid * w
    BY <1>1, <1>3, <1>6 DEF CappedBondOhm
  <2>2. v * y - Bid * w = v * (y - b * w)
    BY <1>1, <1>3, <1>5
  <2>3. y - b * w \in Int
    BY <1>1
  <2>4. QED
    BY <1>3, <2>1, <2>2, <2>3
<1>8. ASSUME NEW m \in Vested(now) PROVE AdjustedBid(m, now) = x
  <2>1. auctions[m].bid = Bid
    BY DEF Vested, BondsInv, IsOpen
  <2>2. AdjustedBid(m, now) = (Bid * (v * x)) \div (Bid * v)
    BY <1>1, <1>7, <2>1 DEF AdjustedBid
  <2> DEFINE all == Bid * v
  <2>3. Bid * (v * x) = all * x /\ all \in Nat \ {0}
    BY <1>3
  <2> HIDE DEF all
  <2>4. (all * x) \div all = x
    BY <2>3, ExactQuotient
  <2>5. QED
    BY <2>2, <2>3, <2>4 DEF all
<1>9. QED
  BY <1>7, <1>8 DEF v

Deposits(now) == StillVesting(now) \cup Deposited(now)

LEMMA DepositTotals ==
    ASSUME BondsInv, WholeShares, NEW now
    PROVE  /\ IsFiniteSet(Deposits(now))
           /\ \A s \in Deposits(now) : s.balance \in Int /\ s.supply = -s.balance
           /\ SuppliesOf(Deposits(now)) <= 0
           /\ Deposited(now) # {} =>
                LET all == BidsOf(Vesting(now)) + BidsOf(Vested(now))
                IN BalancesOf(Deposits(now))
                     = IF BondBalance < all THEN BondBalance ELSE all
<1> DEFINE A == StillVesting(now)
           B == Deposited(now)
           v == Cardinality(Vested(now))
           w == Cardinality(Vesting(now))
<1>1. /\ v \in Nat /\ w \in Nat /\ BidsOf(Vested(now)) = Bid * v /\ BidsOf(Vesting(now)) = Bid * w
      /\ IsFiniteSet(Vesting(now)) /\ IsFiniteSet(Vested(now))
  BY BondPhases
<1>2. /\ IsFiniteSet(A) /\ \A s \in A : s.type = "VestingDeposits" /\ s.balance = Bid /\ s.supply = -Bid
      /\ SuppliesOf(A) = -(Bid * w)
      /\ BalancesOf(A) = Bid * w
  <2>1. \A m \in Vesting(now) : auctions[m].bid = Bid
    BY DEF Vesting, BondsInv, IsOpen
  <2>2. A = RowsFor(Vesting(now), "VestingDeposits", "manager", Bid)
    BY <2>1 DEF StillVesting, RowsFor
  <2> HIDE DEF A
  <2>3. Bid \in Int
    BY BondAssumption
  <2>4. QED
    BY <1>1, <2>2, <2>3, EqualRows
<1>3. ASSUME NEW x \in Int, B = RowsFor(Vested(now), "BondDeposits", "manager", x)
      PROVE  /\ IsFiniteSet(B) /\ \A s \in B : s.type = "BondDeposits" /\ s.balance = x /\ s.supply = -x
             /\ SuppliesOf(B) = -(x * v)
             /\ BalancesOf(B) = x * v
  <2> HIDE DEF B
  <2>1. QED
    BY <1>1, <1>3, EqualRows
<1>4. \/ B = {}
      \/ \E x \in Int : /\ B = RowsFor(Vested(now), "BondDeposits", "manager", x)
                        /\ CappedBondOhm(now) = x * v
  <2>1. CASE BidsOf(Vested(now)) = 0
    BY <2>1 DEF Deposited
  <2>2. CASE BidsOf(Vested(now)) # 0
    <3>1. PICK x \in Int : CappedBondOhm(now) = v * x /\ \A m \in Vested(now) : AdjustedBid(m, now) = x
      BY <2>2, EvenShares
    <3>2. v * x = x * v
      BY <1>1
    <3>3. CASE x = 0
      BY <3>1, <3>3 DEF Deposited
    <3>4. CASE x # 0
      <4>1. B = RowsFor(Vested(now), "BondDeposits", "manager", x)
        BY <2>2, <3>1, <3>4 DEF Deposited, RowsFor
      <4>2. QED
        BY <3>1, <3>2, <4>1
    <3>5. QED
      BY <3>3, <3>4
  <2>3. QED
    BY <2>1, <2>2
<1> DEFINE p == Bid * w
           q == Bid * v
<1>5. p \in Nat /\ q \in Nat /\ BidsOf(Vested(now)) = q /\ BidsOf(Vesting(now)) = p
  BY <1>1, BondAssumption
<1>6. BondBalance \in Nat
  BY DEF BondBalance, BondsInv
<1>7. \A s \in A : s.balance \in Int /\ s.supply = -s.balance
  BY <1>2, BondAssumption
<1>8. CASE B = {}
  <2>1. Deposits(now) = A
    BY <1>8 DEF Deposits
  <2>2. SuppliesOf(Deposits(now)) = -p
    BY <1>2, <2>1
  <2> HIDE DEF A, B, p, q, v, w
  <2>3. -p <= 0
    BY <1>5
  <2>4. QED
    BY <1>2, <1>7, <1>8, <2>1, <2>2, <2>3 DEF B
<1>9. ASSUME NEW x \in Int, CappedBondOhm(now) = x * v,
             B = RowsFor(Vested(now), "BondDeposits", "manager", x)
      PROVE  /\ IsFiniteSet(Deposits(now))
             /\ \A s \in Deposits(now) : s.balance \in Int /\ s.supply = -s.balance
             /\ SuppliesOf(Deposits(now)) <= 0
             /\ BalancesOf(Deposits(now))
                     = IF BondBalance < p + q THEN BondBalance ELSE p + q
  <2> DEFINE z == x * v
             supA == [s \in A |-> s.supply]
             supB == [s \in B |-> s.supply]
             supAB == [s \in A \cup B |-> s.supply]
             balA == [s \in A |-> s.balance]
             balB == [s \in B |-> s.balance]
             balAB == [s \in A \cup B |-> s.balance]
  <2>1. /\ IsFiniteSet(B) /\ \A s \in B : s.type = "BondDeposits" /\ s.balance = x /\ s.supply = -x
        /\ SumOver(B, supB) = -z /\ SumOver(B, balB) = z
    BY <1>3, <1>9 DEF SuppliesOf, BalancesOf
  <2>2. SumOver(A, supA) = -p /\ SumOver(A, balA) = p
    BY <1>2 DEF SuppliesOf, BalancesOf
  <2>3. z \in Int /\ z = IF BondBalance - p > q THEN q ELSE BondBalance - p
    BY <1>1, <1>5, <1>9 DEF CappedBondOhm
  <2>4. A \cap B = {} /\ Deposits(now) = A \cup B
    BY <1>2, <2>1 DEF Deposits
  <2>5. \A s \in A \cup B : s.balance \in Int /\ s.supply = -s.balance /\ s.supply \in Int
    BY <1>7, <2>1
  <2>6. IsFiniteSet(A) /\ IsFiniteSet(A \cup B)
    BY <1>2, <2>1, FS_Union
  <2>7. /\ \A s \in A : supAB[s] \in Int /\ supAB[s] = supA[s]
        /\ \A s \in B : supAB[s] \in Int /\ supAB[s] = supB[s]
        /\ \A s \in A : balAB[s] \in Int /\ balAB[s] = balA[s]
        /\ \A s \in B : balAB[s] \in Int /\ balAB[s] = balB[s]
    BY <2>5
  <2> HIDE DEF A, B, p, q, z, v, w, supA, supB, supAB, balA, balB, balAB
  <2>8. SumOver(A \cup B, supAB) = -p + -z
    <3>1. SumOver(A \cup B, supAB) = SumOver(A, supA) + SumOver(B, supB)
      BY <2>1, <2>4, <2>6, <2>7, SumOfParts
    <3>2. QED
      BY <2>1, <2>2, <3>1
  <2>9. SumOver(A \cup B, balAB) = p + z
    <3>1. SumOver(A \cup B, balAB) = SumOver(A, balA) + SumOver(B, balB)
      BY <2>1, <2>4, <2>6, <2>7, SumOfParts
    <3>2. QED
      BY <2>1, <2>2, <3>1
  <2>10. -p + -z <= 0 /\ p + z = IF BondBalance < p + q THEN BondBalance ELSE p + q
    BY <1>5, <1>6, <2>3
  <2>11. QED
    BY <2>4, <2>5, <2>6, <2>8, <2>9, <2>10 DEF supAB, balAB, SuppliesOf, BalancesOf
<1>10. QED
  <2> HIDE DEF A, p, q, v, w
  <2>1. CASE B = {}
    BY <1>8, <2>1
  <2>2. CASE B # {}
    <3>1. PICK x \in Int : CappedBondOhm(now) = x * v
             /\ B = RowsFor(Vested(now), "BondDeposits", "manager", x)
      BY <1>4, <2>2
    <3> HIDE DEF B
    <3>2. QED
      BY <1>5, <1>9, <3>1
  <2>3. QED
    BY <2>1, <2>2

-----------------------------------------------------------------------------
(* All supply rows of a snapshot.                                          *)
Supplies(c, n, r) == PlainSupplies(c, n, r, index) \cup BondSupply(c, n, r)

DepositTypes == {"VestingDeposits", "BondDeposits"}

LEMMA TotalRow ==
    ASSUME NEW c, NEW n, NEW r, Amounts(r), NEW i \in Nat
    PROVE  /\ IsFiniteSet(TotalSupply(c, n, r, i))
           /\ \A s \in TotalSupply(c, n, r, i) : s.type = "Total Supply" /\ s.supply \in Int
<1> DEFINE balance == Read(r, <<"supply">>) * Multiplier(c, i)
<1>1. balance \in Nat
  BY ReadNat DEF Multiplier
<1>2. \/ TotalSupply(c, n, r, i) = {}
      \/ TotalSupply(c, n, r, i) = {TokenSupply("Total Supply", Config[c].ohm, "", "", balance, 1)}
  BY DEF TotalSupply
<1> HIDE DEF balance
<1>3. 1 * balance \in Int
  BY <1>1
<1> DEFINE row == TokenSupply("Total Supply", Config[c].ohm, "", "", balance, 1)
<1>4. row.type = "Total Supply" /\ row.supply \in Int
  BY <1>3 DEF TokenSupply
<1> HIDE DEF row
<1>5. IsFiniteSet({}) /\ IsFiniteSet({row})
  BY FS_EmptySet, FS_Singleton, Zenon
<1>6. TotalSupply(c, n, r, i) = {} \/ TotalSupply(c, n, r, i) = {row}
  BY <1>2 DEF row
<1>7. QED
  BY <1>4, <1>5, <1>6

LEMMA BondParts ==
    ASSUME BondsInv, WholeShares, NEW c, NEW n, NEW r, BondSupply(c, n, r) # {}
    PROVE  /\ c = ETHEREUM
           /\ BondSupply(c, n, r) = PreMinted \cup Deposits(n) \cup Promised(n)
           /\ IsFiniteSet(PreMinted)
           /\ \A s \in PreMinted : s.type = "Preminted" /\ s.supply \in Int /\ s.supply <= 0
           /\ IsFiniteSet(Promised(n))
           /\ \A s \in Promised(n) : s.type = "VestingTokens" /\ s.supply \in Int
           /\ \A s \in Deposits(n) : s.type \in DepositTypes
<1> DEFINE open == {x \in DOMAIN auctions : IsOpen(auctions[x])}
<1>1. c = ETHEREUM /\ BondSupply(c, n, r) = PreMinted \cup Deposits(n) \cup Promised(n)
  BY DEF BondSupply, PreMinted, Deposits, StillVesting, Promised, Deposited
<1>2. \A m \in DOMAIN auctions : auctions[m].capacity = Capacity
  BY DEF BondsInv
<1>3. PreMinted = RowsFor(open, "Preminted", "teller", Capacity)
  BY <1>2 DEF PreMinted, RowsFor
<1>4. Promised(n) = RowsFor(Vesting(n), "VestingTokens", "teller", Capacity)
  BY <1>2 DEF Promised, RowsFor, Vesting
<1>5. IsFiniteSet(open) /\ IsFiniteSet(Vesting(n))
  BY BondAssumption, BondPhases, FS_Subset DEF BondsInv
<1>6. Capacity \in Nat /\ Capacity \in Int
  BY BondAssumption
<1>7. \A s \in Deposits(n) : s.type \in DepositTypes
  <2>1. \A type, m, source, b : BondRow(type, m, source, b).type = type
    BY DEF BondRow, Deduction, TokenSupply
  <2>2. QED
    BY <2>1 DEF Deposits, StillVesting, Deposited, DepositTypes
<1> HIDE DEF open
<1>8. IsFiniteSet(PreMinted) /\ \A s \in PreMinted : s.type = "Preminted" /\ s.supply = -Capacity
  BY <1>3, <1>5, <1>6, EqualRows
<1>9. IsFiniteSet(Promised(n)) /\ \A s \in Promised(n) : s.type = "VestingTokens" /\ s.supply = -Capacity
  BY <1>4, <1>5, <1>6, EqualRows
<1>10. -Capacity \in Int /\ -Capacity <= 0
  BY <1>6
<1>11. QED
  BY <1>1, <1>7, <1>8, <1>9, <1>10

LEMMA SupplyRows ==
    ASSUME BondsInv, WholeShares, NEW c \in Chain, NEW n, NEW r, Amounts(r)
    PROVE  /\ Counted(Supplies(c, n, r))
           /\ \A s \in Supplies(c, n, r) :
                 s.type \in {"Treasury", "Offset", "Preminted", "BLV", "Liquidity", "Lending"}
                    => s.supply <= 0
           /\ LET deposits == {s \in Supplies(c, n, r) : s.type \in DepositTypes}
              IN  \/ deposits = {}
                  \/ deposits = Deposits(n) /\ c = ETHEREUM
<1> DEFINE plain == PlainSupplies(c, n, r, index)
           bonds == BondSupply(c, n, r)
           total == TotalSupply(c, n, r, index)
<1>1. index \in Nat
  BY DEF BondsInv
<1>2. /\ IsFiniteSet(plain)
      /\ \A s \in plain : /\ s.supply \in Int /\ s.type \notin DepositTypes
                          /\ s.type # "Total Supply" => s.supply <= 0
  <2> DEFINE fit(S) == /\ IsFiniteSet(S)
                       /\ \A s \in S : /\ s.supply \in Int /\ s.type \notin DepositTypes
                                       /\ s.type # "Total Supply" => s.supply <= 0
  <2>1. ASSUME NEW S, NEW type, Deducts(S, type), type \notin DepositTypes PROVE fit(S)
    <3>1. IsFiniteSet(S) /\ \A s \in S : s.type = type /\ s.balance \in Nat /\ s.supply = -s.balance
      BY <2>1 DEF Deducts
    <3>2. \A z \in Nat : -z \in Int /\ -z <= 0
      OBVIOUS
    <3>3. \A s \in S : s.supply \in Int /\ s.supply <= 0 /\ s.type \notin DepositTypes
      BY <2>1, <3>1, <3>2
    <3>4. QED
      BY <3>1, <3>3
  <2>2. fit(total)
    BY <1>1, TotalRow DEF DepositTypes
  <2>3. ASSUME NEW S, NEW T, fit(S), fit(T) PROVE fit(S \cup T)
    BY <2>3, FS_Union
  <2>4. "Liquidity" \notin DepositTypes /\ "Treasury" \notin DepositTypes /\ "Lending" \notin DepositTypes
        /\ "BLV" \notin DepositTypes /\ "Offset" \notin DepositTypes
    BY DEF DepositTypes
  <2> HIDE DEF fit
  <2>5. fit(NftSupply(c, n, r)) /\ fit(OwnedLiquiditySupply(c, n, r, index))
    BY <1>1, <2>1, <2>4, NftDeducts, LiquidityDeducts
  <2>6. fit(TreasuryOhm(c, n, r, index)) /\ fit(LendingSupply(c, n, r))
    BY <1>1, <2>1, <2>4, TreasuryDeducts, LendingDeducts
  <2>7. fit(BlvSupply(c, n, r)) /\ fit(OffsetSupply(c, n, index))
    BY <1>1, <2>1, <2>4, VaultsDeduct, OffsetsDeduct
  <2>8. fit(plain)
    BY <2>2, <2>3, <2>5, <2>6, <2>7 DEF PlainSupplies
  <2>9. QED
    BY <2>8 DEF fit
<1>3. Supplies(c, n, r) = plain \cup bonds
  BY DEF Supplies
<1> HIDE DEF plain
<1>4. CASE bonds = {}
  BY <1>2, <1>3, <1>4 DEF Counted
<1>5. CASE bonds # {}
  <2>1. /\ c = ETHEREUM /\ bonds = PreMinted \cup Deposits(n) \cup Promised(n)
        /\ IsFiniteSet(PreMinted)
        /\ \A s \in PreMinted : s.type = "Preminted" /\ s.supply \in Int /\ s.supply <= 0
        /\ IsFiniteSet(Promised(n))
        /\ \A s \in Promised(n) : s.type = "VestingTokens" /\ s.supply \in Int
        /\ \A s \in Deposits(n) : s.type \in DepositTypes
    BY <1>5, BondParts
  <2> HIDE DEF bonds
  <2>2. IsFiniteSet(Deposits(n)) /\ \A s \in Deposits(n) : s.supply \in Int
    <3>1. IsFiniteSet(Deposits(n)) /\ \A s \in Deposits(n) : s.balance \in Int /\ s.supply = -s.balance
      BY DepositTotals
    <3>2. QED
      BY <3>1
  <2>3. IsFiniteSet(bonds)
    BY <2>1, <2>2, FS_Union
  <2>4. Counted(plain \cup bonds)
    BY <1>2, <2>1, <2>2, <2>3, FS_Union DEF Counted
  <2>5. {s \in plain \cup bonds : s.type \in DepositTypes} = Deposits(n)
    BY <1>2, <2>1 DEF DepositTypes
  <2>6. \A s \in plain \cup bonds :
           s.type \in {"Treasury", "Offset", "Preminted", "BLV", "Liquidity", "Lending"} => s.supply <= 0
    BY <1>2, <2>1 DEF DepositTypes
  <2>7. QED
    BY <1>3, <2>1, <2>4, <2>5, <2>6
<1>6. QED
  BY <1>4, <1>5

LEMMA DepositsNotPositive ==
    ASSUME BondsInv, WholeShares, NEW c \in Chain, NEW n, NEW r, Amounts(r)
    PROVE  SupplyOf(Supplies(c, n, r), DepositTypes) <= 0
<1> DEFINE deposits == {s \in Supplies(c, n, r) : s.type \in DepositTypes}
<1>1. deposits = {} \/ deposits = Deposits(n)
  BY SupplyRows
<1>2. SupplyOf(Supplies(c, n, r), DepositTypes) = SumOf(deposits, LAMBDA s : s.supply)
  BY DEF SupplyOf
<1> HIDE DEF deposits
<1>3. IsFiniteSet(deposits) /\ SuppliesOf(deposits) <= 0
  <2>1. CASE deposits = {}
    <3>1. SumOver({}, [s \in {} |-> s.supply]) = 0 /\ IsFiniteSet({})
      BY SumEmpty, FS_EmptySet
    <3>2. QED
      BY <2>1, <3>1 DEF SuppliesOf
  <2>2. CASE deposits = Deposits(n)
    BY <2>2, DepositTotals
  <2>3. QED
    BY <1>1, <2>1, <2>2
<1>4. QED
  BY <1>2, <1>3, SumOfSupply DEF SuppliesOf

Nested(v) == v.backed <= v.floating /\ v.floating <= v.circulating /\ v.circulating <= v.total

LEMMA ValuesNested ==
    ASSUME BondsInv, WholeShares, NEW c \in Chain, NEW n, NEW r, Amounts(r), NEW records
    PROVE  Nested(PerChain(c, n, records, Supplies(c, n, r)))
<1> DEFINE S == Supplies(c, n, r)
           early == IF c = ETHEREUM /\ n < BlvInclusion THEN {"BLV"} ELSE {}
           out == {"Treasury", "Offset", "Preminted"}
           rest == {"BLV", "Lending"} \ early
           value == PerChain(c, n, records, S)
<1>1. /\ value.total = SupplyOf(S, {"Total Supply"})
      /\ value.circulating = SupplyOf(S, OutOfCirculation \cup early)
      /\ value.floating = SupplyOf(S, OutOfCirculation \cup early) + SupplyOf(S, {"Liquidity"})
      /\ value.backed = SupplyOf(S, OutOfCirculation \cup {"Liquidity", "BLV", "Lending"})
  BY DEF PerChain
<1>2. Counted(S)
  BY SupplyRows
<1>3. \A s \in S : s.type \in {"Treasury", "Offset", "Preminted", "BLV", "Liquidity", "Lending"}
                      => s.supply <= 0
  BY SupplyRows
<1>4. SupplyOf(S, DepositTypes) <= 0
  BY DepositsNotPositive
<1> HIDE DEF S, value
<1>5. \A types : SupplyOf(S, types) \in Int
  BY <1>2, SupplyInt
<1>6. ASSUME NEW types, types \subseteq {"Treasury", "Offset", "Preminted", "BLV", "Liquidity", "Lending"}
      PROVE  SupplyOf(S, types) <= 0
  BY <1>2, <1>3, <1>6, SupplyNotPositive
<1>7. SupplyOf(S, out) <= 0 /\ SupplyOf(S, early) <= 0 /\ SupplyOf(S, {"Liquidity"}) <= 0
      /\ SupplyOf(S, rest) <= 0
  BY <1>6
<1>8. SupplyOf(S, OutOfCirculation \cup early) = SupplyOf(S, OutOfCirculation) + SupplyOf(S, early)
  <2>1. OutOfCirculation \cap early = {}
    BY DEF OutOfCirculation
  <2> HIDE DEF early
  <2>2. QED
    BY <1>2, <2>1, SupplySplit
<1>9. SupplyOf(S, OutOfCirculation)
        = SupplyOf(S, {"Total Supply"}) + (SupplyOf(S, out) + SupplyOf(S, DepositTypes))
  <2>1. OutOfCirculation = {"Total Supply"} \cup (out \cup DepositTypes)
    BY DEF OutOfCirculation, DepositTypes
  <2>2. {"Total Supply"} \cap (out \cup DepositTypes) = {} /\ out \cap DepositTypes = {}
    BY DEF DepositTypes
  <2> HIDE DEF out
  <2>3. SupplyOf(S, out \cup DepositTypes) = SupplyOf(S, out) + SupplyOf(S, DepositTypes)
    BY <1>2, <2>2, SupplySplit
  <2>4. SupplyOf(S, {"Total Supply"} \cup (out \cup DepositTypes))
          = SupplyOf(S, {"Total Supply"}) + SupplyOf(S, out \cup DepositTypes)
    <3> DEFINE total == {"Total Supply"}
               others == out \cup DepositTypes
    <3>1. total \cap others = {}
      BY <2>2
    <3> HIDE DEF total, others
    <3>2. SupplyOf(S, total \cup others) = SupplyOf(S, total) + SupplyOf(S, others)
      BY <1>2, <3>1, SupplySplit
    <3>3. QED
      BY <3>2 DEF total, others
  <2>5. QED
    BY <2>1, <2>3, <2>4
<1>10. SupplyOf(S, OutOfCirculation \cup {"Liquidity", "BLV", "Lending"})
         = SupplyOf(S, OutOfCirculation \cup early) + (SupplyOf(S, {"Liquidity"}) + SupplyOf(S, rest))
  <2>1. OutOfCirculation \cup {"Liquidity", "BLV", "Lending"}
          = (OutOfCirculation \cup early) \cup ({"Liquidity"} \cup rest)
    OBVIOUS
  <2>2. (OutOfCirculation \cup early) \cap ({"Liquidity"} \cup rest) = {} /\ {"Liquidity"} \cap rest = {}
    BY DEF OutOfCirculation
  <2> HIDE DEF early, rest
  <2>3. SupplyOf(S, {"Liquidity"} \cup rest) = SupplyOf(S, {"Liquidity"}) + SupplyOf(S, rest)
    BY <1>2, <2>2, SupplySplit
  <2>4. SupplyOf(S, (OutOfCirculation \cup early) \cup ({"Liquidity"} \cup rest))
          = SupplyOf(S, OutOfCirculation \cup early) + SupplyOf(S, {"Liquidity"} \cup rest)
    BY <1>2, <2>2, SupplySplit
  <2>5. QED
    BY <2>1, <2>3, <2>4
<1> HIDE DEF early, out, rest
<1>11. QED
  <2> DEFINE t == SupplyOf(S, {"Total Supply"})
             d == SupplyOf(S, out)
             e == SupplyOf(S, early)
             b == SupplyOf(S, DepositTypes)
             l == SupplyOf(S, {"Liquidity"})
             m == SupplyOf(S, rest)
  <2>1. /\ value.total = t /\ value.circulating = (t + (d + b)) + e
        /\ value.floating = ((t + (d + b)) + e) + l
        /\ value.backed = ((t + (d + b)) + e) + (l + m)
    BY <1>1, <1>8, <1>9, <1>10
  <2>2. /\ t \in Int /\ d \in Int /\ e \in Int /\ b \in Int /\ l \in Int /\ m \in Int
        /\ d <= 0 /\ e <= 0 /\ b <= 0 /\ l <= 0 /\ m <= 0
    BY <1>4, <1>5, <1>7
  <2> HIDE DEF t, d, e, b, l, m
  <2>3. Nested(value)
    BY <2>1, <2>2 DEF Nested
  <2>4. QED
    BY <2>3 DEF value, S

LEMMA NestedStep ==
    ASSUME AmountsRead, WholeShares, BondsInv, SuppliesNested, [Next]_vars
    PROVE  SuppliesNested'
<1>1. CASE UNCHANGED values
  BY <1>1 DEF SuppliesNested
<1>2. ASSUME NEW c \in Chain, Snapshot(c) PROVE SuppliesNested'
  <2> DEFINE n == at[c] + 1
  <2>1. PICK r \in Readings[c][n] :
           /\ n \in DOMAIN Readings[c]
           /\ \/ values' = values
              \/ values' = Upsert(values, <<Date(n), c>>,
                                  PerChain(c, n, Records(c, n, r), Supplies(c, n, r)))
    BY <1>2, SnapshotStores DEF Supplies
  <2> DEFINE mine == PerChain(c, n, Records(c, n, r), Supplies(c, n, r))
  <2>2. Nested(mine)
    BY <2>1, ValuesNested DEF AmountsRead
  <2>3. \A k \in DOMAIN values : Nested(values[k])
    BY DEF SuppliesNested, Nested
  <2>4. values' = values \/ values' = Upsert(values, <<Date(n), c>>, mine)
    BY <2>1
  <2> HIDE DEF mine, n
  <2>5. \A k \in DOMAIN values' : Nested(values'[k])
    BY <2>2, <2>3, <2>4 DEF Upsert
  <2>6. QED
    BY <2>5 DEF SuppliesNested, Nested
<1>3. CASE Rebase \/ BondEvent
  BY <1>1, <1>3 DEF Rebase, BondEvent, snapshotVars
<1>4. QED
  BY <1>1, <1>2, <1>3 DEF Next, vars, snapshotVars

(* SuppliesNested: backed, floating, circulating and total supply of a     *)
(* chain and day (computePerChainAggregate) are in this order, for every   *)
(* configuration and every sequence of snapshots, rebases, auctions and    *)
(* burns, although the rows of vested auctions may add to the supply: then *)
(* those that still vest take off more.  The readings are amounts, and     *)
(* shares of auctions come out even.                                       *)
THEOREM SuppliesAlwaysNested ==
    ASSUME AmountsRead, WholeShares
    PROVE  Spec => []SuppliesNested
<1>1. Init => SuppliesNested
  BY DEF Init, SuppliesNested
<1>2. QED
  BY <1>1, BondsInit, BondsStep, NestedStep, PTL DEF Spec

(* BondDepositsWithinBalance: the deposit rows of a snapshot with a vested *)
(* auction come to the OHM the bond manager holds, up to the bids of all   *)
(* cleared auctions (getGnosisSupplyRecords), for any number of auctions,  *)
(* burns and snapshots, when the bond manager is tracked.                  *)
THEOREM BondDepositsAlwaysWithinBalance ==
    ASSUME AmountsRead, WholeShares, TracksBondManager
    PROVE  Spec => BondDepositsWithinBalance
<1>1. ASSUME BondsInv, DOMAIN stored = Chain, [Next]_vars
      PROVE  /\ (DOMAIN stored = Chain)'
             /\ (at'[ETHEREUM] # at[ETHEREUM]
                   /\ \E s \in stored'[ETHEREUM].supplies : s.type = "BondDeposits")
                => LET now == at'[ETHEREUM]
                       all == BidsOf(Vesting(now)) + BidsOf(Vested(now))
                   IN SumOf(DepositRows(stored'[ETHEREUM].supplies), LAMBDA s : s.balance)
                        = IF bondHeld < all THEN bondHeld ELSE all
  <2>1. CASE UNCHANGED <<at, stored>>
    BY <1>1, <2>1
  <2>2. ASSUME NEW c \in Chain, Snapshot(c)
        PROVE  /\ (DOMAIN stored = Chain)'
               /\ \/ at'[ETHEREUM] = at[ETHEREUM]
                  \/ /\ c = ETHEREUM /\ at'[ETHEREUM] = at[ETHEREUM] + 1
                     /\ \E r \in Readings[c][at[c] + 1] :
                           /\ at[c] + 1 \in DOMAIN Readings[c]
                           /\ stored'[ETHEREUM].supplies = Supplies(c, at[c] + 1, r)
    <3> DEFINE n == at[c] + 1
    <3>1. PICK r \in Readings[c][n] :
             /\ n \in DOMAIN Readings[c]
             /\ at' = [at EXCEPT ![c] = n]
             /\ stored' = [stored EXCEPT ![c] = [records |-> LastById(Records(c, n, r)),
                                                 supplies |-> Supplies(c, n, r)]]
      BY <2>2, SnapshotStores DEF Supplies
    <3>2. DOMAIN at = Chain
      BY <1>1 DEF BondsInv
    <3>3. QED
      BY <1>1, <3>1, <3>2
  <2>3. ASSUME NEW n, NEW r, Amounts(r), at'[ETHEREUM] = n,
               stored'[ETHEREUM].supplies = Supplies(ETHEREUM, n, r),
               NEW s \in Supplies(ETHEREUM, n, r), s.type = "BondDeposits"
        PROVE  LET all == BidsOf(Vesting(n)) + BidsOf(Vested(n))
               IN SumOf(DepositRows(Supplies(ETHEREUM, n, r)), LAMBDA x : x.balance)
                    = IF bondHeld < all THEN bondHeld ELSE all
    <3> DEFINE deposits == DepositRows(Supplies(ETHEREUM, n, r))
    <3>1. s \in deposits
      BY <2>3 DEF DepositRows
    <3>2. deposits = {} \/ deposits = Deposits(n)
      BY <1>1, <2>3, SnapshotAssumption, SupplyRows DEF DepositRows, DepositTypes
    <3>3. deposits = Deposits(n)
      BY <3>1, <3>2
    <3>4. Deposited(n) # {}
      <4>1. \A m : BondRow("VestingDeposits", m, "manager", auctions[m].bid).type # "BondDeposits"
        BY DEF BondRow, Deduction, TokenSupply
      <4>2. s \notin StillVesting(n)
        BY <2>3, <4>1 DEF StillVesting
      <4>3. QED
        BY <3>1, <3>3, <4>2 DEF Deposits
    <3>5. BondBalance = bondHeld
      BY DEF BondBalance
    <3> DEFINE all == BidsOf(Vesting(n)) + BidsOf(Vested(n))
    <3>6. IsFiniteSet(Deposits(n)) /\ BalancesOf(Deposits(n)) = IF bondHeld < all THEN bondHeld ELSE all
      BY <1>1, <3>4, <3>5, DepositTotals
    <3>7. SumOf(Deposits(n), LAMBDA x : x.balance) = BalancesOf(Deposits(n))
      BY <3>6, SumOfBalance DEF BalancesOf
    <3>8. QED
      BY <3>3, <3>6, <3>7
  <2>4. CASE Rebase \/ BondEvent
    BY <2>1, <2>4 DEF Rebase, BondEvent, snapshotVars
  <2>5. ASSUME NEW c \in Chain, Snapshot(c)
        PROVE  (at'[ETHEREUM] # at[ETHEREUM]
                   /\ \E s \in stored'[ETHEREUM].supplies : s.type = "BondDeposits")
                => LET now == at'[ETHEREUM]
                       all == BidsOf(Vesting(now)) + BidsOf(Vested(now))
                   IN SumOf(DepositRows(stored'[ETHEREUM].supplies), LAMBDA s : s.balance)
                        = IF bondHeld < all THEN bondHeld ELSE all
    BY <2>2, <2>3, <2>5 DEF AmountsRead
  <2>6. QED
    BY <1>1, <2>1, <2>2, <2>4, <2>5 DEF Next, vars, snapshotVars
<1>2. Init => DOMAIN stored = Chain
  BY DEF Init
<1>3. QED
  BY <1>1, <1>2, BondsInit, BondsStep, PTL DEF Spec, BondDepositsWithinBalance
=============================================================================
