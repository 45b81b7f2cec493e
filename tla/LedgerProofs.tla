------------------------------ MODULE LedgerProofs -----------------------------
(***************************************************************************)
(* The ledgers against the chain, for every set of wallets, every amount,  *)
(* every number of blocks and logs and every order of them.                *)
(***************************************************************************)
EXTENDS IndexedBlocks, SumProofs

-----------------------------------------------------------------------------
(* Paths and running totals along sequences.                               *)

(* Adding the numbers of d one by one leads from a to b, by way of numbers *)
(* in S.                                                                   *)
Leads(S, d, a, b) ==
    \E f \in [0 .. Len(d) -> S] :
        /\ f[0] = a
        /\ f[Len(d)] = b
        /\ \A i \in 1 .. Len(d) : f[i] = f[i - 1] + d[i]

LEMMA LeadsEmpty ==
    ASSUME NEW S \in SUBSET Int, NEW a, NEW b
    PROVE  Leads(S, <<>>, a, b) <=> a = b /\ a \in S
<1>1. ASSUME a = b, a \in S PROVE Leads(S, <<>>, a, b)
  <2> DEFINE f == [i \in 0 .. 0 |-> a]
  <2>1. Len(<<>>) = 0
    OBVIOUS
  <2>2. f \in [0 .. 0 -> S] /\ f[0] = a /\ f[0] = b
    BY <1>1
  <2>3. \A i \in 1 .. 0 : f[i] = f[i - 1] + <<>>[i]
    OBVIOUS
  <2> HIDE DEF f
  <2>4. QED
    BY <2>1, <2>2, <2>3 DEF Leads
<1>2. ASSUME Leads(S, <<>>, a, b) PROVE a = b /\ a \in S
  BY <1>2 DEF Leads
<1>3. QED
  BY <1>1, <1>2

LEMMA LeadsAppend ==
    ASSUME NEW S \in SUBSET Int, NEW d \in Seq(Int), NEW a, NEW b, NEW x \in Int,
           Leads(S, d, a, b), b + x \in S
    PROVE  Leads(S, Append(d, x), a, b + x)
<1>1. PICK f \in [0 .. Len(d) -> S] :
        /\ f[0] = a /\ f[Len(d)] = b
        /\ \A i \in 1 .. Len(d) : f[i] = f[i - 1] + d[i]
  BY DEF Leads
<1> DEFINE n == Len(d)
           e == Append(d, x)
           g == [i \in 0 .. Len(e) |-> IF i = n + 1 THEN b + x ELSE f[i]]
<1>2. n \in Nat /\ Len(e) = n + 1 /\ e[n + 1] = x /\ \A i \in 1 .. n : e[i] = d[i]
  OBVIOUS
<1>3. g \in [0 .. Len(e) -> S]
  BY <1>1, <1>2
<1>4. g[0] = a /\ g[Len(e)] = b + x
  BY <1>1, <1>2
<1>5. ASSUME NEW i \in 1 .. Len(e) PROVE g[i] = g[i - 1] + e[i]
  <2>1. CASE i = n + 1
    BY <1>1, <1>2, <2>1
  <2>2. CASE i # n + 1
    BY <1>1, <1>2, <2>2
  <2>3. QED
    BY <2>1, <2>2
<1> HIDE DEF g, e
<1>6. QED
  BY <1>3, <1>4, <1>5 DEF Leads, e

LEMMA LeadsTail ==
    ASSUME NEW S \in SUBSET Int, NEW d \in Seq(Int), d # <<>>, NEW a, NEW b,
           Leads(S, d, a, b)
    PROVE  Leads(S, Tail(d), a + Head(d), b)
<1>1. PICK f \in [0 .. Len(d) -> S] :
        /\ f[0] = a /\ f[Len(d)] = b
        /\ \A i \in 1 .. Len(d) : f[i] = f[i - 1] + d[i]
  BY DEF Leads
<1> DEFINE n == Len(d)
           e == Tail(d)
           g == [i \in 0 .. Len(e) |-> f[i + 1]]
<1>2. n \in Nat \ {0} /\ Len(e) = n - 1 /\ Head(d) = d[1] /\ \A i \in 1 .. n - 1 : e[i] = d[i + 1]
  OBVIOUS
<1>3. g \in [0 .. Len(e) -> S]
  BY <1>1, <1>2
<1>4. g[0] = a + Head(d) /\ g[Len(e)] = b
  BY <1>1, <1>2
<1>5. ASSUME NEW i \in 1 .. Len(e) PROVE g[i] = g[i - 1] + e[i]
  BY <1>1, <1>2
<1> HIDE DEF g, e
<1>6. QED
  BY <1>3, <1>4, <1>5 DEF Leads, e

(* Where a running total starts and ends.                                  *)
LEMMA LeadsType ==
    ASSUME NEW S \in SUBSET Int, NEW d \in Seq(Int), NEW a, NEW b, Leads(S, d, a, b)
    PROVE  a \in S /\ b \in S
  BY DEF Leads

-----------------------------------------------------------------------------
(* The elements of q one by one lead from a to b, each by a step of R, by  *)
(* way of states in S.                                                     *)
Path(S, R, q, a, b) ==
    \E f \in [0 .. Len(q) -> S] :
        /\ f[0] = a
        /\ f[Len(q)] = b
        /\ \A i \in 1 .. Len(q) : <<f[i - 1], q[i], f[i]>> \in R

LEMMA PathType ==
    ASSUME NEW S, NEW R, NEW T, NEW q \in Seq(T), NEW a, NEW b, Path(S, R, q, a, b)
    PROVE  a \in S /\ b \in S
  BY DEF Path

LEMMA PathEmpty ==
    ASSUME NEW S, NEW R, NEW a, NEW b
    PROVE  Path(S, R, <<>>, a, b) <=> a = b /\ a \in S
<1>1. ASSUME a = b, a \in S PROVE Path(S, R, <<>>, a, b)
  <2> DEFINE f == [i \in 0 .. 0 |-> a]
  <2>1. Len(<<>>) = 0
    OBVIOUS
  <2>2. f \in [0 .. 0 -> S] /\ f[0] = a /\ f[0] = b
    BY <1>1
  <2>3. \A i \in 1 .. 0 : <<f[i - 1], <<>>[i], f[i]>> \in R
    OBVIOUS
  <2> HIDE DEF f
  <2>4. QED
    BY <2>1, <2>2, <2>3 DEF Path
<1>2. ASSUME Path(S, R, <<>>, a, b) PROVE a = b /\ a \in S
  BY <1>2 DEF Path
<1>3. QED
  BY <1>1, <1>2

LEMMA PathAppend ==
    ASSUME NEW S, NEW R, NEW T, NEW q \in Seq(T), NEW x \in T, NEW a, NEW b, NEW c \in S,
           Path(S, R, q, a, b), <<b, x, c>> \in R
    PROVE  Path(S, R, Append(q, x), a, c)
<1>1. PICK f \in [0 .. Len(q) -> S] :
        /\ f[0] = a /\ f[Len(q)] = b
        /\ \A i \in 1 .. Len(q) : <<f[i - 1], q[i], f[i]>> \in R
  BY DEF Path
<1> DEFINE n == Len(q)
           e == Append(q, x)
           g == [i \in 0 .. Len(e) |-> IF i = n + 1 THEN c ELSE f[i]]
<1>2. n \in Nat /\ Len(e) = n + 1 /\ e[n + 1] = x /\ \A i \in 1 .. n : e[i] = q[i]
  OBVIOUS
<1>3. g \in [0 .. Len(e) -> S]
  BY <1>1, <1>2
<1>4. g[0] = a /\ g[Len(e)] = c
  BY <1>1, <1>2
<1>5. ASSUME NEW i \in 1 .. Len(e) PROVE <<g[i - 1], e[i], g[i]>> \in R
  <2>1. CASE i = n + 1
    <3>1. g[i - 1] = b /\ e[i] = x /\ g[i] = c
      BY <1>1, <1>2, <2>1
    <3>2. QED
      BY <3>1
  <2>2. CASE i # n + 1
    <3>1. i \in 1 .. n /\ g[i - 1] = f[i - 1] /\ e[i] = q[i] /\ g[i] = f[i]
      BY <1>2, <2>2
    <3>2. QED
      BY <1>1, <3>1
  <2>3. QED
    BY <2>1, <2>2
<1> HIDE DEF g, e
<1>6. QED
  BY <1>3, <1>4, <1>5 DEF Path, e

LEMMA PathTail ==
    ASSUME NEW S, NEW R, NEW T, NEW q \in Seq(T), q # <<>>, NEW a, NEW c, Path(S, R, q, a, c)
    PROVE  \E b \in S : <<a, Head(q), b>> \in R /\ Path(S, R, Tail(q), b, c)
<1>1. PICK f \in [0 .. Len(q) -> S] :
        /\ f[0] = a /\ f[Len(q)] = c
        /\ \A i \in 1 .. Len(q) : <<f[i - 1], q[i], f[i]>> \in R
  BY DEF Path
<1> DEFINE n == Len(q)
           e == Tail(q)
           g == [i \in 0 .. Len(e) |-> f[i + 1]]
<1>2. n \in Nat \ {0} /\ Len(e) = n - 1 /\ Head(q) = q[1] /\ \A i \in 1 .. n - 1 : e[i] = q[i + 1]
  OBVIOUS
<1>3. g \in [0 .. Len(e) -> S]
  BY <1>1, <1>2
<1>4. g[0] = f[1] /\ g[Len(e)] = c
  BY <1>1, <1>2
<1>5. ASSUME NEW i \in 1 .. Len(e) PROVE <<g[i - 1], e[i], g[i]>> \in R
  <2>1. i + 1 \in 1 .. n /\ g[i - 1] = f[i] /\ e[i] = q[i + 1] /\ g[i] = f[i + 1] /\ (i + 1) - 1 = i
    BY <1>2
  <2>2. <<f[(i + 1) - 1], q[i + 1], f[i + 1]>> \in R
    BY <1>1, <2>1
  <2>3. QED
    BY <2>1, <2>2
<1>6. f[1] \in S /\ <<a, Head(q), f[1]>> \in R
  <2>1. 1 \in 1 .. n /\ 1 - 1 = 0
    BY <1>2
  <2>2. <<f[1 - 1], q[1], f[1]>> \in R
    BY <1>1, <2>1
  <2>3. QED
    BY <1>1, <1>2, <2>1, <2>2
<1> HIDE DEF g, e
<1>7. Path(S, R, e, f[1], c)
  BY <1>3, <1>4, <1>5 DEF Path
<1>8. QED
  BY <1>6, <1>7 DEF e

-----------------------------------------------------------------------------
(* The state of the ledgers.                                               *)

(* The logs of a token contract.                                           *)
TokenLog ==
    {l \in [event : {"Transfer", "Deposit", "Withdraw", "AMOAdded", "AMORemoved"},
            from : Holder \cup {Zero}, to : Holder \cup {Zero}, value : Nat] :
        \/ /\ l = MoveLog(l.from, l.to, l.value) /\ (l.from # Zero \/ l.to # Zero)
           /\ Positions => Zero \in {l.from, l.to}
        \/ /\ l.event \in {"AMOAdded", "AMORemoved"} /\ contract = "OhmERC20"
           /\ l.from = Amo /\ l.to = Amo /\ l.value = 0}

LedgerType ==
    /\ contract \in TokenContracts \cup PoolContracts
    /\ held \in [Holder -> Nat] /\ before \in [Holder -> Nat]
    /\ balance \in [Wallet -> Int] /\ supply \in Int /\ sentinel \in BOOLEAN
    /\ block \in Nat /\ block >= StartBlock /\ emitted \in Nat
    /\ contract \in TokenContracts => queue \in Seq(TokenLog \X Nat)

(* The logs of a block are handled before its block handlers run, and the  *)
(* seed is behind every later block.                                       *)
BlockOrder ==
    /\ phase = "done" => queue = <<>> /\ sentinel
    /\ block > StartBlock => sentinel

(* What a wallet gains by each of the logs to be handled.                  *)
Gains(q, x) == [i \in 1 .. Len(q) |-> Gain(q[i][1], x)]

Unseeded(w) == IF sentinel THEN 0 ELSE before[w]

(* The logs to be handled, with the seed, lead from the row of a wallet to *)
(* what it holds.                                                          *)
BalanceLeads ==
    contract \in TokenContracts /\ ~Positions =>
        \A w \in Wallet : SeedActive \/ before[w] = 0 =>
            Leads(Nat, Gains(queue, w), balance[w] + Unseeded(w), held[w])

(* A position that was clamped lags behind the chain by no more than what  *)
(* was staked before the window.                                           *)
PositionLeads ==
    Positions =>
        \A w \in Wallet : \E a \in Nat :
            /\ Leads(Nat, Gains(queue, w), a, held[w])
            /\ a - before[w] <= balance[w] /\ balance[w] <= a

(* The same for a supply, from the point of view of the zero address,      *)
(* which gains what is burnt and loses what is minted.                     *)
Debts == {n \in Int : n <= 0}

SupplyLeads ==
    contract \in SupplyContracts \ SilentContracts =>
        \E a \in Nat :
            /\ Leads(Debts, Gains(queue, Zero), -a, -Total(held))
            /\ a - Total(before) <= supply /\ supply <= a

LeadsInv == BalanceLeads /\ PositionLeads /\ SupplyLeads

-----------------------------------------------------------------------------
(* The logs that wait.                                                     *)

LEMMA GainInt == ASSUME NEW l \in TokenLog, NEW x PROVE Gain(l, x) \in Int
  BY DEF TokenLog, Gain

LEMMA GainsAppend ==
    ASSUME NEW q \in Seq(TokenLog \X Nat), NEW e \in TokenLog \X Nat, NEW x
    PROVE  /\ Gains(q, x) \in Seq(Int)
           /\ Gains(Append(q, e), x) = Append(Gains(q, x), Gain(e[1], x))
<1>1. \A i \in 1 .. Len(q) : q[i][1] \in TokenLog
  OBVIOUS
<1>2. Gains(q, x) \in Seq(Int) /\ Len(Gains(q, x)) = Len(q)
  BY <1>1, GainInt DEF Gains
<1>3. Gain(e[1], x) \in Int
  BY GainInt
<1>4. QED
  BY <1>2, <1>3 DEF Gains

LEMMA TailParts ==
    ASSUME NEW S, NEW q \in Seq(S), q # <<>>
    PROVE  /\ Len(Tail(q)) = Len(q) - 1
           /\ \A i \in 1 .. Len(q) - 1 : Tail(q)[i] = q[i + 1]
           /\ Tail(q) = [i \in 1 .. Len(q) - 1 |-> q[i + 1]]
<1> DEFINE t == Tail(q)
           n == Len(q) - 1
<1>1. /\ t \in Seq(S) /\ Len(t) = n /\ n \in Nat
      /\ \A i \in 1 .. n : t[i] = q[i + 1]
  OBVIOUS
<1> HIDE DEF t, n
<1>2. t = [i \in 1 .. n |-> t[i]]
  BY <1>1
<1>3. t = [i \in 1 .. n |-> q[i + 1]]
  BY <1>1, <1>2
<1>4. QED
  BY <1>1, <1>3 DEF t, n

LEMMA GainsTail ==
    ASSUME NEW q \in Seq(TokenLog \X Nat), q # <<>>, NEW x
    PROVE  /\ Head(q)[1] \in TokenLog /\ Tail(q) \in Seq(TokenLog \X Nat)
           /\ Gains(q, x) \in Seq(Int) /\ Gains(q, x) # <<>>
           /\ Head(Gains(q, x)) = Gain(Head(q)[1], x)
           /\ Gains(Tail(q), x) = Tail(Gains(q, x))
<1>1. \A i \in 1 .. Len(q) : q[i][1] \in TokenLog
  OBVIOUS
<1>2. Gains(q, x) \in Seq(Int) /\ Len(Gains(q, x)) = Len(q)
  BY <1>1, GainInt DEF Gains
<1>3. Len(q) \in Nat \ {0} /\ Head(q) = q[1] /\ Tail(q) \in Seq(TokenLog \X Nat)
  OBVIOUS
<1>4. \A i \in 1 .. Len(q) : Gains(q, x)[i] = Gain(q[i][1], x)
  BY DEF Gains
<1>5. Gains(q, x) # <<>> /\ Head(Gains(q, x)) = Gain(Head(q)[1], x)
  <2>1. Gains(q, x) # <<>> /\ Head(Gains(q, x)) = Gains(q, x)[1]
    BY <1>2, <1>3
  <2>2. QED
    BY <1>3, <1>4, <2>1
<1>6. Gains(Tail(q), x) = Tail(Gains(q, x))
  <2>1. /\ Len(Tail(q)) = Len(q) - 1
        /\ \A i \in 1 .. Len(q) - 1 : Tail(q)[i] = q[i + 1]
    <3>1. q \in Seq(TokenLog \X Nat) /\ q # <<>>
      OBVIOUS
    <3>2. QED
      BY <3>1, TailParts
  <2>2. Gains(Tail(q), x) = [i \in 1 .. Len(q) - 1 |-> Gain(q[i + 1][1], x)]
    BY <2>1 DEF Gains
  <2>3. Tail(Gains(q, x)) = [i \in 1 .. Len(q) - 1 |-> Gains(q, x)[i + 1]]
    BY <1>2, <1>5, TailParts
  <2>4. \A i \in 1 .. Len(q) - 1 : Gains(q, x)[i + 1] = Gain(q[i + 1][1], x)
    BY <1>3, <1>4
  <2>5. QED
    BY <2>2, <2>3, <2>4
<1>7. QED
  BY <1>1, <1>2, <1>3, <1>5, <1>6

LEMMA GainsEmpty == ASSUME NEW x PROVE Gains(<<>>, x) = <<>>
  BY DEF Gains

(* A log that is not delivered is about none of the wallets.               *)
LEMMA UndeliveredGain ==
    ASSUME NEW l, ~Delivered(l), NEW w \in Wallet PROVE Gain(l, w) = 0
  BY DEF Delivered, Gain

LEMMA ContractKinds ==
    /\ TokenContracts \cap PoolContracts = {}
    /\ Positions => contract \in TokenContracts /\ contract \notin SupplyContracts
  BY DEF TokenContracts, PoolContracts, SilentContracts, SupplyContracts, ReportingContracts, Positions

LEMMA LogEmitted ==
    ASSUME NEW q \in Seq(TokenLog \X Nat), NEW e \in TokenLog \X Nat, NEW x,
           NEW S \in SUBSET Int, NEW a, NEW b,
           Leads(S, Gains(q, x), a, b), b + Gain(e[1], x) \in S
    PROVE  Leads(S, Gains(Append(q, e), x), a, b + Gain(e[1], x))
<1>1. Gain(e[1], x) \in Int
  BY GainInt
<1>2. QED
  BY <1>1, GainsAppend, LeadsAppend

LEMMA LogHandled ==
    ASSUME NEW q \in Seq(TokenLog \X Nat), q # <<>>, NEW x,
           NEW S \in SUBSET Int, NEW a, NEW b, Leads(S, Gains(q, x), a, b)
    PROVE  /\ Leads(S, Gains(Tail(q), x), a + Gain(Head(q)[1], x), b)
           /\ a \in S /\ a + Gain(Head(q)[1], x) \in S
<1>1. Leads(S, Tail(Gains(q, x)), a + Head(Gains(q, x)), b)
  BY GainsTail, LeadsTail
<1>2. Tail(Gains(q, x)) \in Seq(Int)
  BY GainsTail
<1>3. QED
  BY <1>1, <1>2, GainsTail, LeadsType

-----------------------------------------------------------------------------
(* The chain's supply.                                                     *)

LEMMA TotalSum == ASSUME NEW h PROVE Total(h) = SumOver(Holder, h)
  BY DEF Total, MapThenSumSet, MapThenFoldSet, SumOver, SumsUp, Chosen

LEMMA HolderFinite == IsFiniteSet(Holder)
<1>1. IsFiniteSet(Wallet \cup {Outsider})
  BY TokenAssumption, FS_AddElement
<1>2. Holder = (Wallet \cup {Outsider}) \cup {Amo}
  BY DEF Holder
<1>3. QED
  BY <1>1, <1>2, FS_AddElement

LEMMA TotalNat == ASSUME NEW h \in [Holder -> Nat] PROVE Total(h) \in Nat
  BY TotalSum, HolderFinite, SumNat

(* What the accounts gain together is what the zero address loses.         *)
LEMMA TotalMoves ==
    ASSUME NEW h \in [Holder -> Nat], NEW l \in TokenLog
    PROVE  Total([x \in Holder |-> h[x] + Gain(l, x)]) = Total(h) - Gain(l, Zero)
<1> DEFINE k == [x \in Holder |-> h[x] + (IF x = l.to THEN l.value ELSE 0)]
           m == [x \in Holder |-> h[x] + Gain(l, x)]
<1>1. /\ l.value \in Nat /\ l.from \in Holder \cup {Zero} /\ l.to \in Holder \cup {Zero}
      /\ Zero \notin Holder
  BY TokenAssumption DEF TokenLog, Holder
<1>2. h \in [Holder -> Int] /\ k \in [Holder -> Int]
  BY <1>1
<1>3. m \in [Holder -> Int]
  BY <1>1 DEF Gain
<1>4. /\ \A x \in Holder : x # l.to => k[x] = h[x]
      /\ l.to \in Holder => k[l.to] - h[l.to] = l.value
  BY <1>1
<1>5. /\ \A x \in Holder : x # l.from => m[x] = k[x]
      /\ l.from \in Holder => m[l.from] - k[l.from] = -l.value
  BY <1>1 DEF Gain
<1>6. Gain(l, Zero) = (IF l.to \in Holder THEN 0 ELSE l.value) - (IF l.from \in Holder THEN 0 ELSE l.value)
  BY <1>1 DEF Gain
<1> HIDE DEF k, m
<1>7. /\ SumOver(Holder, h) \in Int
      /\ SumOver(Holder, k) = SumOver(Holder, h) + (IF l.to \in Holder THEN l.value ELSE 0)
  BY <1>2, <1>4, HolderFinite, SumChange
<1>8. SumOver(Holder, m) = SumOver(Holder, k) + (IF l.from \in Holder THEN -l.value ELSE 0)
  BY <1>2, <1>3, <1>5, HolderFinite, SumChange
<1>9. Total(m) = Total(h) - Gain(l, Zero)
  BY <1>1, <1>6, <1>7, <1>8, TotalSum
<1>10. QED
  BY <1>9 DEF m

-----------------------------------------------------------------------------
(* The chain's steps.                                                      *)

LEMMA ChainLog ==
    ASSUME LedgerType, contract \in TokenContracts,
           NEW l \in MoveLogs \cup LenderLogs
    PROVE  /\ l \in TokenLog
           /\ \A x \in Holder : held[x] + Gain(l, x) \in Nat
<1>1. CASE l \in MoveLogs
  <2>1. PICK from \in Holder \cup {Zero}, to \in Holder \cup {Zero}, sum \in Amount :
            l = MoveLog(from, to, sum)
    BY <1>1 DEF MoveLogs
  <2>2. Possible(l)
    BY <1>1 DEF MoveLogs
  <2>3. l.from = from /\ l.to = to /\ l.value = sum /\ sum \in Nat
    BY <2>1, TokenAssumption DEF MoveLog
  <2>4. l \in TokenLog
    BY <2>1, <2>2, <2>3 DEF TokenLog, MoveLog, Possible
  <2>5. ASSUME NEW x \in Holder PROVE held[x] + Gain(l, x) \in Nat
    <3>1. x # Zero
      BY TokenAssumption DEF Holder
    <3>2. held[x] \in Nat
      BY DEF LedgerType
    <3>3. x = from => held[x] >= sum
      BY <2>2, <2>3, <3>1 DEF Possible
    <3>4. QED
      BY <2>3, <3>2, <3>3 DEF Gain
  <2>6. QED
    BY <2>4, <2>5
<1>2. CASE l \in LenderLogs
  <2>1. /\ contract = "OhmERC20" /\ l.event \in {"AMOAdded", "AMORemoved"}
        /\ l = [event |-> l.event, from |-> Amo, to |-> Amo, value |-> 0]
    BY <1>2 DEF LenderLogs
  <2>2. l \in TokenLog
    BY <2>1 DEF TokenLog, Holder
  <2>3. \A x : Gain(l, x) = 0
    BY <2>1 DEF Gain
  <2>4. QED
    BY <2>2, <2>3 DEF LedgerType
<1>3. QED
  BY <1>1, <1>2

-----------------------------------------------------------------------------
(* The handlers.                                                           *)

RowsWith(b, w, n) == [x \in Wallet |-> b[x] + (IF x = w THEN n ELSE 0)]

UpdateWith(b, w, n, at) ==
    [id \in (IF w \in Wallet THEN {<<w, at[1], at[2]>>} ELSE {}) |-> b[w] + n]

(* Applying an amount to the rows b of the wallets.                        *)
LEMMA TransferApplied ==
    ASSUME NEW b \in [Wallet -> Int], NEW w, NEW n \in Int, NEW at
    PROVE  /\ ApplyTransfer(b, w, n, at).rows = RowsWith(b, w, n)
           /\ ApplyTransfer(b, w, n, at).updates = UpdateWith(b, w, n, at)
           /\ RowsWith(b, w, n) \in [Wallet -> Int]
<1>1. CASE w \in Wallet
  <2>1. ApplyTransfer(b, w, n, at) = [rows |-> [b EXCEPT ![w] = b[w] + n], updates |-> Row(w, at, b[w] + n)]
    BY <1>1 DEF ApplyTransfer
  <2>5. \A x \in Wallet : b[x] \in Int /\ b[x] + 0 = b[x]
    OBVIOUS
  <2>2. [b EXCEPT ![w] = b[w] + n] = [x \in Wallet |-> b[x] + (IF x = w THEN n ELSE 0)]
    BY <1>1, <2>5
  <2>3. Row(w, at, b[w] + n) = [id \in {<<w, at[1], at[2]>>} |-> b[w] + n]
    BY DEF Row
  <2>4. QED
    BY <1>1, <2>1, <2>2, <2>3 DEF RowsWith, UpdateWith
<1>2. CASE w \notin Wallet
  <2>1. ApplyTransfer(b, w, n, at) = [rows |-> b, updates |-> <<>>]
    BY <1>2 DEF ApplyTransfer
  <2>2. <<>> = [id \in {} |-> b[w] + n]
    OBVIOUS
  <2>5. \A x \in Wallet : b[x] \in Int /\ b[x] + 0 = b[x]
    OBVIOUS
  <2>3. b = [x \in Wallet |-> b[x] + (IF x = w THEN n ELSE 0)]
    BY <1>2, <2>5
  <2>4. QED
    BY <1>2, <2>1, <2>2, <2>3 DEF RowsWith, UpdateWith
<1>3. RowsWith(b, w, n) \in [Wallet -> Int]
  BY DEF RowsWith
<1>4. QED
  BY <1>1, <1>2, <1>3

(* The update rows of a log: the new value of each of its wallets.         *)
AppliedUpdates(l, at) ==
    [id \in {<<w, at[1], at[2]>> : w \in Wallet \cap {l.from, l.to}} |->
        balance[id[1]] + Gain(l, id[1])]

(* A debit and a credit change each row by what the log says, and write an *)
(* update row with the new value for each of its wallets.                  *)
LEMMA Applied ==
    ASSUME balance \in [Wallet -> Int], NEW l \in TokenLog, NEW at
    PROVE  /\ ApplyTransfers(l, at).rows = [w \in Wallet |-> balance[w] + Gain(l, w)]
           /\ ApplyTransfers(l, at).updates = AppliedUpdates(l, at)
<1> DEFINE debit  == ApplyTransfer(balance, l.from, -l.value, at)
           credit == ApplyTransfer(debit.rows, l.to, l.value, at)
<1>1. l.value \in Int /\ -l.value \in Int
  BY DEF TokenLog
<1>2. /\ debit.rows = RowsWith(balance, l.from, -l.value)
      /\ debit.updates = UpdateWith(balance, l.from, -l.value, at)
      /\ debit.rows \in [Wallet -> Int]
  BY <1>1, TransferApplied
<1> HIDE DEF debit
<1>4. /\ credit.rows = RowsWith(debit.rows, l.to, l.value)
      /\ credit.updates = UpdateWith(debit.rows, l.to, l.value, at)
  BY <1>1, <1>2, TransferApplied
<1>5. ApplyTransfers(l, at) = [rows |-> credit.rows, updates |-> UpsertAll(debit.updates, credit.updates)]
  BY DEF ApplyTransfers, debit
<1> HIDE DEF credit
<1>3. \A w \in Wallet : debit.rows[w] + (IF w = l.to THEN l.value ELSE 0) = balance[w] + Gain(l, w)
  BY <1>1, <1>2 DEF Gain, RowsWith
<1>6. credit.rows = [w \in Wallet |-> balance[w] + Gain(l, w)]
  BY <1>3, <1>4 DEF RowsWith
<1>7. UpsertAll(debit.updates, credit.updates) =
         [id \in {<<w, at[1], at[2]>> : w \in Wallet \cap {l.from, l.to}} |->
             balance[id[1]] + Gain(l, id[1])]
  <2>1. DOMAIN debit.updates \cup DOMAIN credit.updates =
           {<<w, at[1], at[2]>> : w \in Wallet \cap {l.from, l.to}}
    BY <1>2, <1>4 DEF UpdateWith
  <2>2. ASSUME NEW w \in Wallet \cap {l.from, l.to}
        PROVE  (IF <<w, at[1], at[2]>> \in DOMAIN credit.updates
                THEN credit.updates[<<w, at[1], at[2]>>] ELSE debit.updates[<<w, at[1], at[2]>>])
               = balance[w] + Gain(l, w)
    <3>1. CASE w = l.to
      BY <1>3, <1>4, <3>1 DEF UpdateWith
    <3>2. CASE w # l.to
      <4>1. w = l.from /\ w \in Wallet
        BY <2>2, <3>2
      <4>2. <<w, at[1], at[2]>> \notin DOMAIN credit.updates
        BY <1>4, <3>2 DEF UpdateWith
      <4>3. debit.updates[<<w, at[1], at[2]>>] = balance[w] + (-l.value)
        BY <1>2, <4>1 DEF UpdateWith
      <4>4. Gain(l, w) = -l.value
        BY <1>1, <3>2, <4>1 DEF Gain
      <4>5. QED
        BY <4>2, <4>3, <4>4
    <3>3. QED
      BY <3>1, <3>2
  <2>3. QED
    BY <2>1, <2>2 DEF UpsertAll
<1>8. QED
  BY <1>5, <1>6, <1>7 DEF AppliedUpdates

LEMMA TokenHandled ==
    ASSUME LedgerType, ~Positions, NEW l \in TokenLog, NEW at, HandleTokenLog(l, at)
    PROVE  balance' = [w \in Wallet |-> balance[w] + Gain(l, w)]
<1>1. CASE HandleLender(l)
  <2>1. l.from = Amo /\ l.to = Amo /\ l.value = 0
    BY <1>1 DEF HandleLender, TokenLog, MoveLog
  <2>2. balance' = balance /\ \A w \in Wallet : Gain(l, w) = 0
    BY <1>1, <2>1 DEF HandleLender, Gain
  <2>3. QED
    BY <2>2 DEF LedgerType
<1>2. CASE \/ HandleTreasuryTransfer(l, at) \/ HandleWrapped9(l, at) \/ HandleErc4626(l, at)
           \/ HandleStakingRewards(l, at)
  BY <1>2, Applied DEF HandleTreasuryTransfer, HandleWrapped9, HandleErc4626,
     HandleStakingRewards, HandleSilent, MoveBalances, LedgerType
<1>3. CASE HandleOhmTransfer(l, at) \/ HandleLpTransfer(l, at) \/ HandleKodiakTransfer(l, at)
  BY <1>3, Applied DEF HandleOhmTransfer, HandleLpTransfer, HandleKodiakTransfer, MoveSupply, LedgerType
<1>4. QED
  BY <1>1, <1>2, <1>3 DEF HandleTokenLog, HandleStake

(* No handler but that of the shared staking contracts touches a position. *)
LEMMA PositionHandled ==
    ASSUME LedgerType, Positions, NEW l \in TokenLog, NEW at, HandleTokenLog(l, at)
    PROVE  balance' = [w \in Wallet |-> Clamped(balance[w] + Gain(l, w))]
<1>1. contract = "UserStaking"
  BY DEF Positions
<1>2. CASE HandleStake(l)
  BY <1>2 DEF HandleStake
<1>3. ~HandleTreasuryTransfer(l, at)
  BY <1>1 DEF HandleTreasuryTransfer, TokenLog, MoveLog, SilentContracts
<1>4. ~HandleLender(l)
  BY <1>1 DEF HandleLender, TokenLog, MoveLog
<1>5. QED
  BY <1>1, <1>2, <1>3, <1>4 DEF HandleTokenLog, HandleOhmTransfer, HandleLpTransfer,
     HandleKodiakTransfer, HandleWrapped9, HandleErc4626, HandleStakingRewards

(* Mints and burns, and nothing else, change a supply.                     *)
LEMMA SupplyHandled ==
    ASSUME LedgerType, contract \in SupplyContracts \ SilentContracts, NEW l \in TokenLog, NEW at,
           HandleTokenLog(l, at)
    PROVE  supply' = IF MintBurn(l) THEN Clamped(supply - Gain(l, Zero)) ELSE supply
<1>1. l.value \in Nat /\ supply \in Int /\ Amo # Zero
  BY TokenAssumption DEF TokenLog, LedgerType
<1>2. l.event \notin {"Deposit", "Withdraw"} /\ contract # "UserStaking"
  BY DEF TokenLog, MoveLog, SilentContracts
<1>3. CASE HandleLender(l)
  <2>1. ~MintBurn(l)
    BY <1>1, <1>3 DEF HandleLender, TokenLog, MoveLog, MintBurn
  <2>2. QED
    BY <1>3, <2>1 DEF HandleLender
<1>4. CASE HandleOhmTransfer(l, at) \/ HandleLpTransfer(l, at) \/ HandleKodiakTransfer(l, at)
  <2>1. supply' = IF MintBurn(l) THEN SupplyAfter(l) ELSE supply
    BY <1>4 DEF HandleOhmTransfer, HandleLpTransfer, HandleKodiakTransfer, MoveSupply
  <2>2. l.from # Zero \/ l.to # Zero
    BY <1>1 DEF TokenLog
  <2>3. MintBurn(l) => supply - Gain(l, Zero) = supply + (IF l.from = Zero THEN l.value ELSE -l.value)
    BY <1>1, <2>2 DEF MintBurn, Gain
  <2>4. QED
    BY <2>1, <2>3 DEF SupplyAfter
<1>5. QED
  BY <1>2, <1>3, <1>4 DEF HandleTokenLog, HandleStake, HandleSilent, HandleTreasuryTransfer, Positions,
     HandleWrapped9, HandleErc4626, HandleStakingRewards

-----------------------------------------------------------------------------
(* The steps.                                                              *)

LEMMA SameLogs == ASSUME contract' = contract PROVE TokenLog' = TokenLog
  BY DEF TokenLog, MoveLog, Positions, Holder

LEMMA TokenExecuted ==
    ASSUME LedgerType, BlockOrder, LeadsInv, ExecuteToken
    PROVE  LedgerType' /\ BlockOrder' /\ LeadsInv'
<1>1. PICK l \in MoveLogs \cup LenderLogs :
          contract \in TokenContracts /\ Emit(l, Delivered(l)) /\ Execute(l)
  BY DEF ExecuteToken
<1> DEFINE e == <<l, emitted>>
<1>2. /\ contract' = contract /\ tokenStart' = tokenStart /\ before' = before
      /\ held' = [x \in Holder |-> held[x] + Gain(l, x)]
      /\ UNCHANGED <<block, phase, ledgerVars>> /\ phase = "executing" /\ emitted' = emitted + 1
      /\ queue' = IF Delivered(l) THEN Append(queue, e) ELSE queue
  BY <1>1 DEF Execute, Emit
<1>3. l \in TokenLog /\ \A x \in Holder : held[x] + Gain(l, x) \in Nat
  BY <1>1, ChainLog
<1>4. TokenLog' = TokenLog
  BY <1>2, SameLogs
<1>5. e \in TokenLog \X Nat /\ e[1] = l /\ queue \in Seq(TokenLog \X Nat)
  BY <1>1, <1>3 DEF LedgerType
<1>6. queue' \in Seq(TokenLog \X Nat)
  BY <1>2, <1>5
<1>7. LedgerType'
  BY <1>2, <1>3, <1>4, <1>6 DEF LedgerType, ledgerVars
<1>8. BlockOrder'
  BY <1>2 DEF BlockOrder, ledgerVars
<1> HIDE DEF e
<1>9. ASSUME NEW S \in SUBSET Int, NEW a, NEW b, NEW x,
             Leads(S, Gains(queue, x), a, b), b + Gain(l, x) \in S,
             Delivered(l) \/ Gain(l, x) = 0
      PROVE  Leads(S, Gains(queue', x), a, b + Gain(l, x))
  <2>1. CASE Delivered(l)
    BY <1>2, <1>5, <1>9, <2>1, LogEmitted
  <2>2. CASE ~Delivered(l)
    <3>1. Gains(queue, x) \in Seq(Int)
      BY <1>5, GainsAppend
    <3>2. b \in Int
      BY <3>1, <1>9, LeadsType
    <3>3. QED
      BY <1>2, <1>9, <2>2, <3>2
  <2>3. QED
    BY <2>1, <2>2
<1>10. ASSUME NEW a, NEW w \in Wallet, Leads(Nat, Gains(queue, w), a, held[w])
       PROVE  Leads(Nat, Gains(queue', w), a, held'[w])
  <2>1. w \in Holder /\ held'[w] = held[w] + Gain(l, w)
    BY <1>2 DEF Holder
  <2>2. held[w] + Gain(l, w) \in Nat
    BY <1>3, <2>1
  <2>3. Delivered(l) \/ Gain(l, w) = 0
    BY UndeliveredGain
  <2>4. QED
    BY <1>9, <1>10, <2>1, <2>2, <2>3
<1>11. BalanceLeads'
  BY <1>2, <1>10 DEF LeadsInv, BalanceLeads, Positions, SeedActive, Unseeded, ledgerVars
<1>12. PositionLeads'
  BY <1>2, <1>10 DEF LeadsInv, PositionLeads, Positions, ledgerVars
<1>13. SupplyLeads'
  <2>1. SUFFICES ASSUME contract \in SupplyContracts \ SilentContracts
                 PROVE  SupplyLeads'
    BY <1>2 DEF SupplyLeads
  <2>2. PICK a \in Nat : /\ Leads(Debts, Gains(queue, Zero), -a, -Total(held))
                         /\ a - Total(before) <= supply /\ supply <= a
    BY <2>1 DEF LeadsInv, SupplyLeads
  <2>3. Total(held)' = Total(held) - Gain(l, Zero) /\ Total(before)' = Total(before)
    BY <1>2, <1>3, TotalMoves DEF LedgerType
  <2>4. Total(held) \in Nat /\ Total(held)' \in Nat /\ Gain(l, Zero) \in Int
    BY <1>3, <1>7, GainInt, TotalNat DEF LedgerType
  <2>5. -Total(held) + Gain(l, Zero) = -(Total(held)') /\ -(Total(held)') \in Debts
    BY <2>3, <2>4 DEF Debts
  <2>6. Delivered(l) \/ Gain(l, Zero) = 0
    <3>1. l.event = "Transfer" \/ l.event \in {"AMOAdded", "AMORemoved"}
      BY <1>3, <2>1 DEF TokenLog, MoveLog
    <3>2. QED
      BY <2>1, <3>1 DEF Delivered, Gain
  <2>7. Leads(Debts, Gains(queue', Zero), -a, -(Total(held)'))
    BY <1>9, <2>2, <2>5, <2>6 DEF Debts
  <2>8. QED
    BY <1>2, <2>2, <2>3, <2>7 DEF SupplyLeads, ledgerVars
<1>14. QED
  BY <1>7, <1>8, <1>11, <1>12, <1>13 DEF LeadsInv

LEMMA LogsHandled ==
    ASSUME LedgerType, BlockOrder, LeadsInv, HandleLog, contract \in TokenContracts
    PROVE  LedgerType' /\ BlockOrder' /\ LeadsInv'
<1> DEFINE l  == Head(queue)[1]
           at == <<block, Head(queue)[2]>>
<1>1. /\ queue # <<>> /\ queue' = Tail(queue) /\ phase = "handling"
      /\ HandleTokenLog(l, at)
      /\ UNCHANGED <<chainVars, block, phase, emitted>>
  BY ContractKinds DEF HandleLog
<1>2. queue \in Seq(TokenLog \X Nat)
  BY DEF LedgerType
<1>3. l \in TokenLog /\ queue' \in Seq(TokenLog \X Nat)
  BY <1>1, <1>2, GainsTail
<1>4. TokenLog' = TokenLog
  BY <1>1, SameLogs DEF chainVars
<1>5. \A w \in Wallet : balance[w] \in Int /\ Gain(l, w) \in Int
  BY <1>3, GainInt DEF LedgerType
<1>6. sentinel' = sentinel
  BY <1>1 DEF HandleTokenLog, HandleTreasuryTransfer, HandleOhmTransfer, HandleLpTransfer,
     HandleKodiakTransfer, HandleWrapped9, HandleErc4626, HandleStakingRewards, HandleSilent,
     HandleStake, HandleLender
<1>7. supply' = supply \/ supply' = SupplyAfter(l)
  BY <1>1 DEF HandleTokenLog, HandleTreasuryTransfer, HandleOhmTransfer, HandleLpTransfer,
     HandleKodiakTransfer, HandleWrapped9, HandleErc4626, HandleStakingRewards, HandleSilent,
     HandleStake, HandleLender, MoveSupply
<1> HIDE DEF l, at
<1>8. supply' \in Int
  BY <1>3, <1>7 DEF LedgerType, SupplyAfter, Clamped, TokenLog
<1>9. ~Positions => balance' = [w \in Wallet |-> balance[w] + Gain(l, w)]
  BY <1>1, <1>3, TokenHandled
<1>10. Positions => balance' = [w \in Wallet |-> Clamped(balance[w] + Gain(l, w))]
  BY <1>1, <1>3, PositionHandled
<1>11. balance' \in [Wallet -> Int]
  BY <1>5, <1>9, <1>10 DEF Clamped
<1>12. LedgerType' /\ BlockOrder'
  BY <1>1, <1>3, <1>4, <1>6, <1>8, <1>11 DEF LedgerType, BlockOrder, chainVars
<1>13. ASSUME NEW S \in SUBSET Int, NEW a, NEW b, NEW x, Leads(S, Gains(queue, x), a, b)
       PROVE  Leads(S, Gains(queue', x), a + Gain(l, x), b) /\ a + Gain(l, x) \in S
  BY <1>1, <1>2, <1>13, LogHandled DEF l
<1>14. BalanceLeads'
  <2>1. SUFFICES ASSUME ~Positions, NEW w \in Wallet, SeedActive \/ before[w] = 0
                 PROVE  Leads(Nat, Gains(queue', w), balance'[w] + Unseeded(w), held[w])
    BY <1>1, <1>6 DEF BalanceLeads, Positions, SeedActive, Unseeded, chainVars
  <2>2. Leads(Nat, Gains(queue, w), balance[w] + Unseeded(w), held[w])
    BY <2>1 DEF LeadsInv, BalanceLeads
  <2>3. Unseeded(w) \in Int
    BY DEF Unseeded, LedgerType, Holder
  <2>4. balance[w] + Unseeded(w) + Gain(l, w) = balance'[w] + Unseeded(w)
    BY <1>5, <1>9, <2>1, <2>3
  <2>5. QED
    BY <1>13, <2>2, <2>4
<1>15. PositionLeads'
  <2>1. SUFFICES ASSUME Positions, NEW w \in Wallet
                 PROVE  \E a \in Nat : /\ Leads(Nat, Gains(queue', w), a, held[w])
                                      /\ a - before[w] <= balance'[w] /\ balance'[w] <= a
    BY <1>1 DEF PositionLeads, Positions, chainVars
  <2>2. PICK a \in Nat : /\ Leads(Nat, Gains(queue, w), a, held[w])
                         /\ a - before[w] <= balance[w] /\ balance[w] <= a
    BY <2>1 DEF LeadsInv, PositionLeads
  <2>3. a + Gain(l, w) \in Nat /\ Leads(Nat, Gains(queue', w), a + Gain(l, w), held[w])
    BY <1>13, <2>2
  <2>4. before[w] \in Nat
    BY DEF LedgerType, Holder
  <2>5. /\ (a + Gain(l, w)) - before[w] <= balance'[w]
        /\ balance'[w] <= a + Gain(l, w)
    BY <1>5, <1>10, <2>1, <2>2, <2>3, <2>4 DEF Clamped
  <2>6. QED
    BY <2>3, <2>5
<1>16. SupplyLeads'
  <2>1. SUFFICES ASSUME contract \in SupplyContracts \ SilentContracts
                 PROVE  \E a \in Nat : /\ Leads(Debts, Gains(queue', Zero), -a, -Total(held))
                                      /\ a - Total(before) <= supply' /\ supply' <= a
    BY <1>1 DEF SupplyLeads, chainVars
  <2>2. PICK a \in Nat : /\ Leads(Debts, Gains(queue, Zero), -a, -Total(held))
                         /\ a - Total(before) <= supply /\ supply <= a
    BY <2>1 DEF LeadsInv, SupplyLeads
  <2>3. -a + Gain(l, Zero) \in Debts /\ Leads(Debts, Gains(queue', Zero), -a + Gain(l, Zero), -Total(held))
    BY <1>13, <2>2 DEF Debts
  <2>4. Total(before) \in Nat /\ Gain(l, Zero) \in Int /\ supply \in Int
    BY <1>3, GainInt, TotalNat DEF LedgerType
  <2>5. a - Gain(l, Zero) \in Nat /\ -(a - Gain(l, Zero)) = -a + Gain(l, Zero)
    BY <2>3, <2>4 DEF Debts
  <2>6. supply' = (IF MintBurn(l) THEN Clamped(supply - Gain(l, Zero)) ELSE supply)
    BY <1>1, <1>3, <2>1, SupplyHandled
  <2>7. ~MintBurn(l) => Gain(l, Zero) = 0
    BY DEF MintBurn, Gain
  <2>8. /\ a - Gain(l, Zero) - Total(before) <= supply'
        /\ supply' <= a - Gain(l, Zero)
    BY <2>2, <2>4, <2>5, <2>6, <2>7 DEF Clamped
  <2>9. QED
    BY <2>3, <2>5, <2>8
<1>17. QED
  BY <1>12, <1>14, <1>15, <1>16 DEF LeadsInv

(* The seed makes up for what was held before the window, for the wallets  *)
(* the hypothesis of BalanceIsHeld leaves.                                 *)
LEMMA BlocksHandled ==
    ASSUME LedgerType, BlockOrder, LeadsInv, OnBlock
    PROVE  LedgerType' /\ BlockOrder' /\ LeadsInv'
<1>1. /\ phase' = "done" /\ queue = <<>> /\ Backfill(block)
      /\ UNCHANGED <<chainVars, block, emitted, queue>>
  BY DEF OnBlock
<1>2. TokenLog' = TokenLog
  BY <1>1, SameLogs DEF chainVars
<1>3. \A w \in Wallet : balance[w] \in Int /\ before[w] \in Nat
  BY DEF LedgerType, Holder
<1>4. supply' = supply /\ sentinel' = TRUE
  <2>1. block # StartBlock => sentinel = TRUE
    BY TokenAssumption DEF BlockOrder, LedgerType
  <2>2. QED
    BY <1>1, <2>1 DEF Backfill, LedgerType, ledgerVars
<1>5. CASE block # StartBlock \/ sentinel
  <2>1. balance' = balance /\ sentinel
    BY <1>1, <1>4, <1>5 DEF Backfill, ledgerVars
  <2>2. LedgerType' /\ BlockOrder'
    BY <1>1, <1>2, <1>4, <2>1 DEF LedgerType, BlockOrder, chainVars
  <2>3. BalanceLeads' /\ PositionLeads' /\ SupplyLeads'
    BY <1>1, <1>4, <2>1 DEF LeadsInv, BalanceLeads, PositionLeads, SupplyLeads, Positions,
       SeedActive, Unseeded, chainVars
  <2>4. QED
    BY <2>2, <2>3 DEF LeadsInv
<1>6. CASE block = StartBlock /\ ~sentinel
  <2>1. balance' = [w \in Wallet |-> IF w \in SeededWallets THEN balance[w] + before[w] ELSE balance[w]]
    BY <1>1, <1>6 DEF Backfill, SeededBalance
  <2>2. balance' \in [Wallet -> Int]
    BY <1>3, <2>1
  <2>3. LedgerType' /\ BlockOrder'
    BY <1>1, <1>2, <1>4, <2>2 DEF LedgerType, BlockOrder, chainVars
  <2>4. BalanceLeads'
    <3>1. SUFFICES ASSUME contract \in TokenContracts, ~Positions, NEW w \in Wallet, SeedActive \/ before[w] = 0
                   PROVE  Leads(Nat, Gains(queue, w), balance'[w] + 0, held[w])
      BY <1>1, <1>4 DEF BalanceLeads, Positions, SeedActive, Unseeded, chainVars
    <3>2. Leads(Nat, Gains(queue, w), balance[w] + before[w], held[w])
      BY <1>6, <3>1 DEF LeadsInv, BalanceLeads, Unseeded
    <3>3. w \in SeededWallets <=> before[w] # 0
      BY <3>1 DEF SeededWallets
    <3>4. balance'[w] + 0 = balance[w] + before[w]
      BY <1>3, <2>1, <3>3
    <3>5. QED
      BY <3>2, <3>4
  <2>5. Positions => balance' = balance
    BY <2>1 DEF SeededWallets, LedgerType
  <2>6. PositionLeads' /\ SupplyLeads'
    BY <1>1, <1>4, <2>5 DEF LeadsInv, PositionLeads, SupplyLeads, Positions, chainVars
  <2>7. QED
    BY <2>3, <2>4, <2>6 DEF LeadsInv
<1>7. QED
  BY <1>5, <1>6

(* Contracts that are not tokens leave the ledger of tokens alone.         *)
LEMMA PoolStep ==
    ASSUME LedgerType, BlockOrder, contract \notin TokenContracts, HandleLog \/ ExecuteVault
    PROVE  LedgerType' /\ BlockOrder' /\ LeadsInv'
<1>1. UNCHANGED <<chainVars, ledgerVars, block, phase>> /\ emitted' \in Nat /\ phase \in {"handling", "executing"}
  BY DEF HandleLog, ExecuteVault, Emit, LedgerType
<1>2. LedgerType' /\ BlockOrder'
  BY <1>1 DEF LedgerType, BlockOrder, chainVars, ledgerVars
<1>3. LeadsInv'
  BY <1>1, ContractKinds DEF LeadsInv, BalanceLeads, PositionLeads, SupplyLeads, Positions, TokenContracts, chainVars
<1>4. QED
  BY <1>2, <1>3

LEMMA LedgerStart ==
    ASSUME Init PROVE LedgerType /\ BlockOrder /\ LeadsInv
<1>1. /\ contract \in TokenContracts \cup PoolContracts
      /\ before \in [Holder -> Nat] /\ held = before
      /\ balance = [w \in Wallet |-> 0] /\ supply = 0 /\ sentinel = FALSE
      /\ block = StartBlock /\ emitted = 0 /\ phase = "executing" /\ queue = <<>>
  BY DEF Init, TokenInit
<1>2. LedgerType
  <2>1. /\ held \in [Holder -> Nat] /\ balance \in [Wallet -> Int] /\ supply \in Int
        /\ block \in Nat /\ block >= StartBlock /\ emitted \in Nat
    BY <1>1, TokenAssumption
  <2>4. sentinel \in BOOLEAN
    BY <1>1, Zenon
  <2>2. queue \in Seq(TokenLog \X Nat)
    BY <1>1
  <2>3. QED
    BY <1>1, <2>1, <2>2, <2>4, Zenon DEF LedgerType
<1>3. BlockOrder
  BY <1>1, TokenAssumption DEF BlockOrder
<1>4. \A w \in Wallet : before[w] \in Nat
  BY <1>1 DEF Holder
<1>5. \A x : Gains(queue, x) = <<>>
  BY <1>1, GainsEmpty
<1>6. \A n \in Nat : Leads(Nat, <<>>, n, n)
  BY LeadsEmpty
<1>7. BalanceLeads
  BY <1>1, <1>4, <1>5, <1>6 DEF BalanceLeads, Unseeded, Holder
<1>8. PositionLeads
  BY <1>1, <1>4, <1>5, <1>6 DEF PositionLeads, Holder
<1>9. SupplyLeads
  <2>1. Total(before) \in Nat
    BY <1>1, TotalNat
  <2>2. -Total(before) \in Debts /\ Debts \in SUBSET Int
    BY <2>1 DEF Debts
  <2>3. Leads(Debts, <<>>, -Total(before), -Total(before))
    BY <2>2, LeadsEmpty
  <2>4. QED
    BY <1>1, <1>5, <2>1, <2>3 DEF SupplyLeads
<1>10. QED
  BY <1>2, <1>3, <1>7, <1>8, <1>9 DEF LeadsInv

(* The inductive invariant of the ledger of tokens.                        *)
LedgerInv == LedgerType /\ BlockOrder /\ LeadsInv

LEMMA LedgerStep == ASSUME LedgerInv, [Next]_vars PROVE LedgerInv'
<1> USE DEF LedgerInv
<1>1. CASE ExecuteToken
  BY <1>1, TokenExecuted
<1>2. CASE ExecuteVault
  <2>1. contract \in PoolContracts
    <3>1. VaultLogs # {} => contract = "BalancerVault"
      BY DEF VaultLogs
    <3>2. ReportLogs # {} => contract \in ReportingContracts
      BY DEF ReportLogs
    <3>3. VaultLogs # {} \/ ReportLogs # {}
      BY <1>2 DEF ExecuteVault
    <3>4. QED
      BY <3>1, <3>2, <3>3 DEF PoolContracts
  <2>2. QED
    BY <1>2, <2>1, ContractKinds, PoolStep
<1>3. CASE HandleLog
  BY <1>3, LogsHandled, PoolStep
<1>4. CASE OnBlock
  BY <1>4, BlocksHandled
<1>5. CASE EndOfBlock \/ NextBlock \/ UNCHANGED vars
  <2>1. /\ UNCHANGED <<chainVars, ledgerVars, emitted, queue>>
        /\ \/ block' = block /\ (phase' = phase \/ phase' = "handling")
           \/ block' = block + 1 /\ phase = "done" /\ phase' = "executing"
    BY <1>5 DEF EndOfBlock, NextBlock, vars, blockVars
  <2>2. TokenLog' = TokenLog
    BY <2>1, SameLogs DEF chainVars
  <2>3. LedgerType'
    BY <2>1, <2>2, TokenAssumption DEF LedgerType, chainVars, ledgerVars
  <2>4. BlockOrder'
    BY <2>1 DEF BlockOrder, LedgerType, ledgerVars
  <2>5. LeadsInv'
    BY <2>1 DEF LeadsInv, BalanceLeads, PositionLeads, SupplyLeads, Positions, SeedActive,
       Unseeded, chainVars, ledgerVars
  <2>6. QED
    BY <2>3, <2>4, <2>5
<1>6. QED
  BY <1>1, <1>2, <1>3, <1>4, <1>5 DEF Next

(* Between the logs of a block, and before the backfill after them         *)
(* (BackfillTokenBalances.ts:45), the logs that wait and the seed lead     *)
(* from the rows of the handlers (Erc20Transfers.ts, Lender.ts,            *)
(* Staking.ts) to what the chain holds after the block.                    *)
THEOREM LedgerInvariant == Spec => []LedgerInv
<1>1. Init => LedgerInv
  BY LedgerStart DEF LedgerInv
<1>2. LedgerInv /\ [Next]_vars => LedgerInv'
  BY LedgerStep
<1>3. QED
  BY <1>1, <1>2, PTL DEF Spec

(* After the logs of a block the TokenBalance row of a wallet is what the  *)
(* wallet holds on chain, for every order of mints, burns and transfers    *)
(* (Erc20Transfers.ts:37) and every balance before the window that the     *)
(* seed is not skipped for (BackfillTokenBalances.ts:107).                 *)
THEOREM LedgerIsBalance == Spec => []BalanceIsHeld
<1>1. LedgerInv => BalanceIsHeld
  <2>1. SUFFICES ASSUME LedgerInv, AtRest, Followed, NEW w \in Wallet, SeedActive \/ before[w] = 0
                 PROVE  balance[w] = held[w]
    BY DEF BalanceIsHeld
  <2>2. queue = <<>> /\ sentinel /\ balance[w] \in Int
    BY <2>1 DEF LedgerInv, BlockOrder, LedgerType, AtRest
  <2>3. Leads(Nat, <<>>, balance[w] + 0, held[w])
    BY <2>1, <2>2, GainsEmpty DEF LedgerInv, LeadsInv, BalanceLeads, Followed, Unseeded
  <2>4. QED
    BY <2>2, <2>3, LeadsEmpty
<1>2. QED
  BY <1>1, LedgerInvariant, PTL

(* Counters that are clamped at zero and not seeded lag behind the chain   *)
(* by no more than what existed before the window and are never ahead of   *)
(* it: the supply (Erc20Transfers.ts:120) and the positions in shared      *)
(* staking contracts (Staking.ts:54).                                      *)
THEOREM ClampedCountersWithinChain == Spec => []ClampedWithinChain
<1>1. LedgerInv => ClampedWithinChain
  <2>1. SUFFICES ASSUME LedgerInv, AtRest PROVE ClampedWithinChain
    BY DEF ClampedWithinChain
  <2>2. queue = <<>> /\ \A x : Gains(queue, x) = <<>>
    BY <2>1, GainsEmpty DEF LedgerInv, BlockOrder, AtRest
  <2>3. ASSUME contract \in SupplyContracts \ SilentContracts
        PROVE  Total(held) - Total(before) <= supply /\ supply <= Total(held)
    <3>1. PICK a \in Nat : /\ Leads(Debts, <<>>, -a, -Total(held))
                           /\ a - Total(before) <= supply /\ supply <= a
      BY <2>1, <2>2, <2>3 DEF LedgerInv, LeadsInv, SupplyLeads
    <3>2. Total(held) \in Nat
      BY <2>1, TotalNat DEF LedgerInv, LedgerType
    <3>3. a = Total(held)
      BY <3>1, <3>2, LeadsEmpty DEF Debts
    <3>4. QED
      BY <3>1, <3>3
  <2>4. ASSUME Positions, NEW w \in Wallet
        PROVE  held[w] - before[w] <= balance[w] /\ balance[w] <= held[w]
    <3>1. PICK a \in Nat : /\ Leads(Nat, <<>>, a, held[w])
                           /\ a - before[w] <= balance[w] /\ balance[w] <= a
      BY <2>1, <2>2, <2>4 DEF LedgerInv, LeadsInv, PositionLeads
    <3>2. a = held[w]
      BY <3>1, LeadsEmpty
    <3>3. QED
      BY <3>1, <3>2
  <2>5. QED
    BY <2>3, <2>4 DEF ClampedWithinChain
<1>2. QED
  BY <1>1, LedgerInvariant, PTL

-----------------------------------------------------------------------------
(* The lender AMO.                                                         *)

(* The status of the AMO on chain and what was lent to it.                 *)
Loans ==
    {p \in {"never", "added", "removed"} \X Int : p[1] = "never" => p[2] = 0}

(* What the chain makes of them in executing a log.                        *)
LoanStep ==
    {s \in Loans \X (TokenLog \X Nat) \X Loans :
        LET p == s[1]
            l == s[2][1]
        IN  s[3] = <<IF l.event = "AMOAdded" THEN "added"
                     ELSE IF l.event = "AMORemoved" THEN "removed" ELSE p[1],
                     IF p[1] # "never" /\ Zero \in {l.from, l.to} THEN p[2] + Gain(l, Amo) ELSE p[2]>>}

AmoType == amo \in [known : BOOLEAN, active : BOOLEAN, deployed : Nat]

(* The row agrees with a loan that the logs to be handled lead on from.    *)
LoanLeads ==
    /\ AmoType
    /\ contract # "OhmERC20" => lender = "never" /\ ~amo.known /\ ~amo.active
    /\ contract = "OhmERC20" =>
          \E p \in Loans :
              /\ Path(Loans, LoanStep, queue, p, <<lender, lent>>)
              /\ amo.known <=> p[1] # "never"
              /\ amo.active <=> p[1] = "added"
              /\ amo.known => amo.deployed >= p[2]

(* The events that reach the row of the AMO.                               *)
LEMMA AmoHandled ==
    ASSUME LedgerType, AmoType, NEW l \in TokenLog, NEW at, HandleTokenLog(l, at)
    PROVE  /\ l.event \in {"AMOAdded", "AMORemoved"} => amo' = LenderRow(l)
           /\ l.event \notin {"AMOAdded", "AMORemoved"} =>
                 \/ amo' = amo /\ (contract = "OhmERC20" => ~MintBurn(l))
                 \/ amo' = DeployedAfter(l) /\ MintBurn(l) /\ contract = "OhmERC20"
<1>1. CASE l.event \in {"AMOAdded", "AMORemoved"}
  <2>1. contract = "OhmERC20" /\ l.event \notin {"Transfer", "Deposit", "Withdraw"}
    BY <1>1 DEF TokenLog, MoveLog
  <2>2. HandleLender(l)
    BY <2>1 DEF HandleTokenLog, HandleTreasuryTransfer, HandleOhmTransfer, HandleLpTransfer,
       HandleKodiakTransfer, HandleWrapped9, HandleErc4626, HandleStakingRewards, HandleSilent,
       HandleStake, Positions
  <2>3. QED
    BY <1>1, <2>2 DEF HandleLender
<1>2. CASE l.event \notin {"AMOAdded", "AMORemoved"}
  <2>1. CASE contract = "OhmERC20"
    <3>1. HandleOhmTransfer(l, at)
      BY <1>2, <2>1 DEF HandleTokenLog, HandleTreasuryTransfer, HandleLpTransfer,
         HandleKodiakTransfer, HandleWrapped9, HandleErc4626, HandleStakingRewards, HandleLender,
         HandleStake, Positions, SupplyContracts
    <3>2. QED
      BY <1>2, <2>1, <3>1 DEF HandleOhmTransfer
  <2>2. CASE contract # "OhmERC20"
    BY <1>2, <2>2 DEF HandleTokenLog, HandleTreasuryTransfer, HandleOhmTransfer, HandleLpTransfer,
       HandleKodiakTransfer, HandleWrapped9, HandleErc4626, HandleStakingRewards, HandleSilent,
       HandleStake, HandleLender
  <2>3. QED
    BY <2>1, <2>2
<1>3. QED
  BY <1>1, <1>2

LEMMA LoanStart == ASSUME Init PROVE LoanLeads
<1>1. amo = [known |-> FALSE, active |-> FALSE, deployed |-> 0] /\ lender = "never" /\ lent = 0 /\ queue = <<>>
  BY DEF Init, TokenInit
<1>2. AmoType /\ ~amo.known /\ ~amo.active
  BY <1>1 DEF AmoType
<1>3. <<"never", 0>> \in Loans
  BY DEF Loans
<1>4. Path(Loans, LoanStep, queue, <<"never", 0>>, <<lender, lent>>)
  BY <1>1, <1>3, PathEmpty
<1>5. QED
  BY <1>1, <1>2, <1>3, <1>4 DEF LoanLeads

LEMMA LoanExecuted ==
    ASSUME LedgerInv, LoanLeads, ExecuteToken
    PROVE  LoanLeads'
<1>1. PICK l \in MoveLogs \cup LenderLogs :
          contract \in TokenContracts /\ Emit(l, Delivered(l)) /\ Execute(l)
  BY DEF ExecuteToken
<1> DEFINE e == <<l, emitted>>
           p == <<lender, lent>>
           r == <<lender', lent'>>
<1>2. /\ contract' = contract /\ amo' = amo
      /\ lender' = CASE l.event = "AMOAdded" -> "added"
                      [] l.event = "AMORemoved" -> "removed"
                      [] OTHER -> lender
      /\ lent' = IF lender # "never" /\ Zero \in {l.from, l.to} THEN lent + Gain(l, Amo) ELSE lent
      /\ queue' = IF Delivered(l) THEN Append(queue, e) ELSE queue
  BY <1>1 DEF Execute, Emit, ledgerVars
<1>3. l \in TokenLog /\ e \in TokenLog \X Nat /\ queue \in Seq(TokenLog \X Nat)
  BY <1>1, ChainLog DEF LedgerInv, LedgerType
<1>4. TokenLog' = TokenLog
  BY <1>2, SameLogs
<1>5. LoanStep' = LoanStep
  BY <1>4 DEF LoanStep, Holder
<1>6. CASE contract # "OhmERC20"
  <2>1. l.event \notin {"AMOAdded", "AMORemoved"}
    BY <1>3, <1>6 DEF TokenLog, MoveLog
  <2>2. QED
    BY <1>2, <1>6, <2>1 DEF LoanLeads, AmoType
<1>7. CASE contract = "OhmERC20"
  <2>1. PICK a \in Loans : /\ Path(Loans, LoanStep, queue, a, p)
                           /\ amo.known <=> a[1] # "never"
                           /\ amo.active <=> a[1] = "added"
                           /\ amo.known => amo.deployed >= a[2]
    BY <1>7 DEF LoanLeads
  <2>2. p \in Loans
    BY <1>3, <2>1, PathType
  <2>3. r \in Loans /\ <<p, e, r>> \in LoanStep
    <3>1. Gain(l, Amo) \in Int
      BY <1>3, GainInt
    <3>2. lender \in {"never", "added", "removed"} /\ lent \in Int /\ (lender = "never" => lent = 0)
      BY <2>2 DEF Loans
    <3>3. r \in Loans
      BY <1>2, <3>1, <3>2 DEF Loans
    <3>4. QED
      BY <1>2, <1>3, <2>2, <3>3 DEF LoanStep
  <2>4. Delivered(l) \/ r = p
    <3>1. l.event = "Transfer" \/ l.event \in {"AMOAdded", "AMORemoved"}
      BY <1>3, <1>7 DEF TokenLog, MoveLog, SilentContracts
    <3>2. QED
      BY <1>2, <1>7, <3>1 DEF Delivered, SupplyContracts
  <2>5. Path(Loans, LoanStep, queue', a, r)
    <3> HIDE DEF e, p, r
    <3>1. CASE Delivered(l)
      BY <1>2, <1>3, <2>1, <2>3, <3>1, PathAppend
    <3>2. CASE ~Delivered(l)
      BY <1>2, <2>1, <2>4, <3>2
    <3>3. QED
      BY <3>1, <3>2
  <2>6. QED
    BY <1>2, <1>5, <1>7, <2>1, <2>5 DEF LoanLeads, AmoType, Loans
<1>8. QED
  BY <1>6, <1>7

LEMMA LoanHandled ==
    ASSUME LedgerInv, LoanLeads, HandleLog, contract \in TokenContracts
    PROVE  LoanLeads'
<1> DEFINE l  == Head(queue)[1]
           at == <<block, Head(queue)[2]>>
<1>1. /\ queue # <<>> /\ queue' = Tail(queue)
      /\ HandleTokenLog(l, at)
      /\ UNCHANGED chainVars
  BY ContractKinds DEF HandleLog
<1>2. l \in TokenLog /\ queue \in Seq(TokenLog \X Nat)
  BY <1>1, GainsTail DEF LedgerInv, LedgerType
<1>3. TokenLog' = TokenLog
  BY <1>1, SameLogs DEF chainVars
<1>4. LoanStep' = LoanStep
  BY <1>3 DEF LoanStep
<1>5. /\ l.event \in {"AMOAdded", "AMORemoved"} => amo' = LenderRow(l)
      /\ l.event \notin {"AMOAdded", "AMORemoved"} =>
                 \/ amo' = amo /\ (contract = "OhmERC20" => ~MintBurn(l))
                 \/ amo' = DeployedAfter(l) /\ MintBurn(l) /\ contract = "OhmERC20"
  BY <1>1, <1>2, AmoHandled DEF LedgerInv, LoanLeads
<1>6. Gain(l, Amo) \in Int
  BY <1>2, GainInt
<1>7. AmoType'
  <2> HIDE DEF l, at
  <2>1. amo \in [known : BOOLEAN, active : BOOLEAN, deployed : Nat]
    BY DEF LoanLeads, AmoType
  <2>2. CASE amo' = LenderRow(l)
    <3>1. (l.event = "AMOAdded") \in BOOLEAN
      OBVIOUS
    <3>2. QED
      BY <2>1, <2>2, <3>1 DEF AmoType, LenderRow
  <2>3. CASE amo' = DeployedAfter(l)
    <3>1. Clamped(amo.deployed + Gain(l, Amo)) \in Nat
      BY <1>6, <2>1 DEF Clamped
    <3>2. QED
      BY <2>1, <2>3, <3>1 DEF AmoType, DeployedAfter
  <2>4. QED
    BY <1>5, <2>1, <2>2, <2>3 DEF AmoType
<1>8. CASE contract # "OhmERC20"
  <2>1. l.event \notin {"AMOAdded", "AMORemoved"}
    BY <1>2, <1>8 DEF TokenLog, MoveLog
  <2>2. amo' = amo
    BY <1>5, <1>8, <2>1
  <2>3. QED
    BY <1>1, <1>7, <1>8, <2>2 DEF LoanLeads, chainVars
<1>9. CASE contract = "OhmERC20"
  <2>1. PICK a \in Loans : /\ Path(Loans, LoanStep, queue, a, <<lender, lent>>)
                           /\ amo.known <=> a[1] # "never"
                           /\ amo.active <=> a[1] = "added"
                           /\ amo.known => amo.deployed >= a[2]
    BY <1>9 DEF LoanLeads
  <2>2. PICK b \in Loans : <<a, Head(queue), b>> \in LoanStep /\ Path(Loans, LoanStep, Tail(queue), b, <<lender, lent>>)
    BY <1>1, <1>2, <2>1, PathTail
  <2>3. b = <<IF l.event = "AMOAdded" THEN "added"
              ELSE IF l.event = "AMORemoved" THEN "removed" ELSE a[1],
              IF a[1] # "never" /\ Zero \in {l.from, l.to} THEN a[2] + Gain(l, Amo) ELSE a[2]>>
    BY <2>2 DEF LoanStep
  <2>4. a[1] \in {"never", "added", "removed"} /\ a[2] \in Int /\ (a[1] = "never" => a[2] = 0)
    BY DEF Loans
  <2>5. /\ amo'.known <=> b[1] # "never"
        /\ amo'.active <=> b[1] = "added"
        /\ amo'.known => amo'.deployed >= b[2]
    <3> HIDE DEF l, at
    <3>1. CASE l.event \in {"AMOAdded", "AMORemoved"}
      <4>1. l.from = Amo /\ l.to = Amo /\ Zero # Amo
        BY <1>2, <3>1, TokenAssumption DEF TokenLog, MoveLog
      <4>2. b = <<IF l.event = "AMOAdded" THEN "added" ELSE "removed", a[2]>>
        BY <2>3, <3>1, <4>1
      <4>3. amo' = LenderRow(l)
        BY <1>5, <3>1
      <4>4. amo'.known /\ (amo'.active <=> l.event = "AMOAdded")
            /\ amo'.deployed = IF amo.known THEN amo.deployed ELSE 0
        BY <4>3 DEF LenderRow
      <4>5. QED
        BY <2>1, <2>4, <3>1, <4>2, <4>4
    <3>2. CASE l.event \notin {"AMOAdded", "AMORemoved"}
      <4>1. b = <<a[1], IF a[1] # "never" /\ MintBurn(l) THEN a[2] + Gain(l, Amo) ELSE a[2]>>
        BY <2>3, <3>2 DEF MintBurn
      <4>2. CASE amo' = amo /\ ~MintBurn(l)
        BY <2>1, <4>1, <4>2
      <4>3. CASE amo' = DeployedAfter(l) /\ MintBurn(l)
        <5>1. CASE amo.known
          <6>1. /\ amo'.known = amo.known /\ amo'.active = amo.active
                /\ amo'.deployed = Clamped(amo.deployed + Gain(l, Amo)) /\ amo.deployed \in Nat
            BY <4>3, <5>1 DEF DeployedAfter, LoanLeads, AmoType
          <6>2. QED
            BY <1>6, <2>1, <2>4, <4>1, <4>3, <5>1, <6>1 DEF Clamped
        <5>2. CASE ~amo.known
          BY <2>1, <4>1, <4>3, <5>2 DEF DeployedAfter
        <5>3. QED
          BY <5>1, <5>2
      <4>4. QED
        BY <1>5, <1>9, <3>2, <4>2, <4>3
    <3>3. QED
      BY <3>1, <3>2
  <2>6. QED
    BY <1>1, <1>4, <1>7, <1>9, <2>2, <2>5 DEF LoanLeads, chainVars, Loans
<1>10. QED
  BY <1>8, <1>9

LEMMA LoanStays ==
    ASSUME LoanLeads, UNCHANGED <<chainVars, amo>>, contract = "OhmERC20" => queue' = queue
    PROVE  LoanLeads'
<1>1. TokenLog' = TokenLog
  BY SameLogs DEF chainVars
<1>2. LoanStep' = LoanStep
  BY <1>1 DEF LoanStep
<1>3. QED
  BY <1>2 DEF LoanLeads, AmoType, Loans, chainVars

(* The OHM deployed through a lender AMO counts all that was lent to it    *)
(* since it was first added, across removals and additions (Lender.ts:27,  *)
(* :50), and never goes by an AMO that was not added yet                   *)
(* (Erc20Transfers.ts:94).                                                 *)
THEOREM DeployedCountsLoans == Spec => []DeployedSinceAdded
<1>1. Init => LoanLeads
  BY LoanStart
<1>2. LedgerInv /\ LoanLeads /\ [Next]_vars => LoanLeads'
  <2>1. SUFFICES ASSUME LedgerInv, LoanLeads, [Next]_vars PROVE LoanLeads'
    OBVIOUS
  <2>2. CASE ExecuteToken
    BY <2>1, <2>2, LoanExecuted
  <2>3. CASE HandleLog /\ contract \in TokenContracts
    BY <2>1, <2>3, LoanHandled
  <2>4. CASE HandleLog /\ contract \notin TokenContracts
    BY <2>1, <2>4, LoanStays DEF HandleLog, ledgerVars, TokenContracts, SupplyContracts
  <2>5. CASE ExecuteVault
    <3>1. contract # "OhmERC20"
      BY <2>5 DEF ExecuteVault, VaultLogs, ReportLogs, ReportingContracts
    <3>2. QED
      BY <2>1, <2>5, <3>1, LoanStays DEF ExecuteVault, Emit, ledgerVars
  <2>6. CASE OnBlock
    BY <2>1, <2>6, LoanStays DEF OnBlock, Backfill, ledgerVars
  <2>7. CASE EndOfBlock \/ NextBlock \/ UNCHANGED vars
    BY <2>1, <2>7, LoanStays DEF EndOfBlock, NextBlock, vars, blockVars, ledgerVars
  <2>8. QED
    BY <2>1, <2>2, <2>3, <2>4, <2>5, <2>6, <2>7 DEF Next
<1>3. LedgerInv /\ LoanLeads => DeployedSinceAdded
  <2>1. SUFFICES ASSUME LedgerInv, LoanLeads, AtRest
                 PROVE  /\ amo.known <=> lender # "never"
                        /\ amo.active <=> lender = "added"
                        /\ amo.known => amo.deployed >= lent
    BY DEF DeployedSinceAdded, LoanLeads, AmoType
  <2>2. queue = <<>>
    BY <2>1 DEF LedgerInv, BlockOrder, AtRest
  <2>3. CASE contract # "OhmERC20"
    BY <2>1, <2>3 DEF LoanLeads
  <2>4. CASE contract = "OhmERC20"
    <3>1. PICK p \in Loans : /\ Path(Loans, LoanStep, <<>>, p, <<lender, lent>>)
                             /\ amo.known <=> p[1] # "never"
                             /\ amo.active <=> p[1] = "added"
                             /\ amo.known => amo.deployed >= p[2]
      BY <2>1, <2>2, <2>4 DEF LoanLeads
    <3>2. p = <<lender, lent>>
      BY <3>1, PathEmpty
    <3>3. QED
      BY <3>1, <3>2
  <2>5. QED
    BY <2>3, <2>4
<1>4. QED
  BY <1>1, <1>2, <1>3, LedgerInvariant, PTL DEF Spec
-----------------------------------------------------------------------------
(* The immutable update rows and the rows of pools against the state rows  *)
(* and the chain, for every order of logs over every number of blocks.     *)

(* What update rows are about.                                             *)
Subject == Wallet \cup {"supply", "pool", "latest"}

RowId == Subject \X Nat \X Nat

(* The logs of the Balancer vault about a pool.                            *)
VaultLog ==
    [event : {"TokensRegistered"}]
    \cup [event : {"PoolBalanceChanged"}, delta : [PoolToken -> Int], fee : [PoolToken -> Int]]
    \cup [event : {"Swap"}, in : PoolToken, out : PoolToken, amountIn : Int, amountOut : Int]

(* The reports of a contract; every report of a Uniswap pool counts.       *)
ReportLog ==
    {l \in [event : {"Report"}, value : Nat, counts : BOOLEAN] :
        contract \in {"UniswapV2Pool", "UniswapV3Pool"} => l.counts}

Log == IF contract \in TokenContracts THEN TokenLog
       ELSE IF contract = "BalancerVault" THEN VaultLog ELSE ReportLog

(* The indices of q increase and stay below n.                             *)
Sorted(q, n) ==
    /\ \A i \in 1 .. Len(q) : q[i][2] < n
    /\ \A i, j \in 1 .. Len(q) : i < j => q[i][2] < q[j][2]

(* Logs wait in the order of their indices, which are below that of a      *)
(* seed.                                                                   *)
QueueOrder ==
    /\ queue \in Seq(Log \X Nat)
    /\ emitted \in 0 .. MaxLogs
    /\ Sorted(queue, emitted)

(* The rows so far come before those that are still to be written.         *)
RowsOrder ==
    /\ DOMAIN updates \subseteq RowId
    /\ updates = [r \in DOMAIN updates |-> updates[r]]
    /\ phase \in {"executing", "handling", "done"}
    /\ \A r \in DOMAIN updates :
          /\ r[2] <= block
          /\ r[2] = block =>
                /\ phase # "executing"
                /\ phase = "handling" =>
                      r[3] < BackfillIndex /\ \A i \in 1 .. Len(queue) : r[3] < queue[i][2]

(* Positions and modules have no update rows.                              *)
Unlogged == contract \in {"UserStaking", "BophadesKernel"} => DOMAIN updates = {}

PoolRow == pool # NoRow => pool = [tokens |-> pool.tokens, balances |-> pool.balances]

-----------------------------------------------------------------------------
(* Writing rows.                                                           *)

(* The latest of the rows u about each subject tells what g says of it.    *)
Told(u, g) ==
    \A r \in DOMAIN u :
        (\A q \in DOMAIN u : q[1] = r[1] => Later(r, q)) => u[r] = g[r[1]]

StateMap(b, s, p, n) ==
    [x \in Subject |-> IF x \in Wallet THEN b[x]
                       ELSE IF x = "supply" THEN s ELSE IF x = "pool" THEN p ELSE n]

(* The rows n of one block and log index are written, for every subject    *)
(* whose state changes from g to h.                                        *)
LEMMA ToldMore ==
    ASSUME NEW u, NEW n, NEW g, NEW h, NEW b \in Nat, NEW i \in Nat,
           DOMAIN u \subseteq RowId, DOMAIN n \subseteq Subject \X {b} \X {i},
           \A r \in DOMAIN u : r[2] < b \/ (r[2] = b /\ r[3] < i),
           \A r \in DOMAIN n : n[r] = h[r[1]],
           \A s \in Subject : h[s] = g[s] \/ <<s, b, i>> \in DOMAIN n,
           Told(u, g)
    PROVE  Told(UpsertAll(u, n), h)
<1> DEFINE v == UpsertAll(u, n)
<1>1. /\ DOMAIN v = DOMAIN u \cup DOMAIN n
      /\ \A r \in DOMAIN v : v[r] = IF r \in DOMAIN n THEN n[r] ELSE u[r]
  BY DEF UpsertAll
<1> HIDE DEF v
<1>2. ASSUME NEW r \in DOMAIN v, \A q \in DOMAIN v : q[1] = r[1] => Later(r, q)
      PROVE  v[r] = h[r[1]]
  <2>1. CASE r \in DOMAIN n
    BY <1>1, <2>1
  <2>2. CASE r \notin DOMAIN n
    <3>1. r \in DOMAIN u /\ r \in RowId
      BY <1>1, <2>2
    <3>2. r[1] \in Subject /\ r[2] \in Nat /\ r[3] \in Nat
      BY <3>1 DEF RowId
    <3>3. <<r[1], b, i>> \notin DOMAIN n
      <4>1. SUFFICES ASSUME <<r[1], b, i>> \in DOMAIN n PROVE FALSE
        OBVIOUS
      <4>2. Later(r, <<r[1], b, i>>)
        BY <1>1, <1>2, <4>1
      <4>3. QED
        BY <3>1, <3>2, <4>2 DEF Later
    <3>4. h[r[1]] = g[r[1]]
      BY <3>2, <3>3
    <3>5. \A q \in DOMAIN u : q[1] = r[1] => Later(r, q)
      BY <1>1, <1>2
    <3>6. QED
      BY <1>1, <2>2, <3>1, <3>4, <3>5 DEF Told
  <2>3. QED
    BY <2>1, <2>2
<1>3. Told(v, h)
  BY <1>2 DEF Told
<1>4. QED
  BY <1>3 DEF v

LEMMA UpsertTwice ==
    ASSUME NEW u, NEW m, NEW n
    PROVE  UpsertAll(UpsertAll(u, m), n) = UpsertAll(u, UpsertAll(m, n))
  BY DEF UpsertAll

LEMMA UpsertNone ==
    ASSUME NEW u, u = [r \in DOMAIN u |-> u[r]], NEW n, DOMAIN n = {}
    PROVE  UpsertAll(u, n) = u
  BY DEF UpsertAll

LEMMA RowFacts ==
    ASSUME NEW s, NEW at, NEW x
    PROVE  DOMAIN Row(s, at, x) = {<<s, at[1], at[2]>>} /\ Row(s, at, x)[<<s, at[1], at[2]>>] = x
  BY DEF Row

LEMMA SubjectKinds ==
    /\ "supply" \notin Wallet /\ "pool" \notin Wallet /\ "latest" \notin Wallet
    /\ \A b, s, p, n :
          /\ \A w \in Wallet : StateMap(b, s, p, n)[w] = b[w]
          /\ StateMap(b, s, p, n)["supply"] = s
          /\ StateMap(b, s, p, n)["pool"] = p
          /\ StateMap(b, s, p, n)["latest"] = n
  BY BlocksAssumption DEF StateMap, Subject

-----------------------------------------------------------------------------
(* The rows a handler writes.                                              *)

(* The state that the rows are about.                                      *)
Now == StateMap(balance, supply, pool.balances, latest)

(* n are the rows of one log, and tell what it changed.                    *)
RowsOfLog(n, at, h) ==
    /\ DOMAIN n \subseteq Subject \X {at[1]} \X {at[2]}
    /\ \A r \in DOMAIN n : n[r] = h[r[1]]
    /\ \A s \in Subject : h[s] = Now[s] \/ <<s, at[1], at[2]>> \in DOMAIN n

LEMMA TokenRows ==
    ASSUME LedgerType, ~Positions, NEW l \in TokenLog, NEW at, HandleTokenLog(l, at), UNCHANGED poolVars,
           updates = [r \in DOMAIN updates |-> updates[r]]
    PROVE  \E n : updates' = UpsertAll(updates, n) /\ RowsOfLog(n, at, Now')
<1> DEFINE m == ApplyTransfers(l, at).updates
           b == [w \in Wallet |-> balance[w] + Gain(l, w)]
           row == Row("supply", at, SupplyAfter(l))
<1>1. m = AppliedUpdates(l, at) /\ ApplyTransfers(l, at).rows = b
  BY Applied DEF LedgerType
<1>2. /\ DOMAIN m = {<<w, at[1], at[2]>> : w \in Wallet \cap {l.from, l.to}}
      /\ \A r \in DOMAIN m : r[1] \in Wallet /\ m[r] = b[r[1]]
  BY <1>1 DEF AppliedUpdates
<1>3. ASSUME NEW w \in Wallet, w \notin {l.from, l.to} PROVE b[w] = balance[w]
  BY <1>3 DEF Gain, LedgerType
<1> HIDE DEF m
<1>4. /\ \A w \in Wallet : Now[w] = balance[w] /\ Now'[w] = balance'[w]
      /\ Now["supply"] = supply /\ Now'["supply"] = supply'
      /\ Now["pool"] = pool.balances /\ Now'["pool"] = pool.balances
      /\ Now["latest"] = latest /\ Now'["latest"] = latest
  BY SubjectKinds DEF Now, poolVars
<1>5. \A s \in Subject : s \in Wallet \/ s = "supply" \/ s = "pool" \/ s = "latest"
  BY DEF Subject
<1>6. Wallet \subseteq Subject /\ "supply" \in Subject
  BY DEF Subject
<1>7. CASE HandleLender(l)
  <2>1. UNCHANGED <<balance, supply, updates>>
    BY <1>7 DEF HandleLender
  <2>2. updates' = UpsertAll(updates, <<>>)
    BY <2>1, UpsertNone
  <2>3. RowsOfLog(<<>>, at, Now')
    BY <1>4, <1>5, <2>1 DEF RowsOfLog
  <2>4. QED
    BY <2>2, <2>3
<1>8. CASE \/ HandleTreasuryTransfer(l, at) \/ HandleWrapped9(l, at) \/ HandleErc4626(l, at)
           \/ HandleStakingRewards(l, at)
  <2>1. balance' = b /\ supply' = supply /\ updates' = UpsertAll(updates, m)
    BY <1>8, <1>1 DEF HandleTreasuryTransfer, HandleWrapped9, HandleErc4626,
       HandleStakingRewards, HandleSilent, MoveBalances, m
  <2>2. RowsOfLog(m, at, Now')
    BY <1>2, <1>3, <1>4, <1>5, <1>6, <2>1 DEF RowsOfLog
  <2>3. QED
    BY <2>1, <2>2
<1>9. CASE HandleOhmTransfer(l, at) \/ HandleLpTransfer(l, at) \/ HandleKodiakTransfer(l, at)
  <2> DEFINE n == IF MintBurn(l) THEN row ELSE <<>>
  <2>1. /\ balance' = b
        /\ supply' = IF MintBurn(l) THEN SupplyAfter(l) ELSE supply
        /\ updates' = UpsertAll(UpsertAll(updates, m), n)
    BY <1>9, <1>1 DEF HandleOhmTransfer, HandleLpTransfer, HandleKodiakTransfer, MoveSupply, m
  <2>2. /\ DOMAIN n = IF MintBurn(l) THEN {<<"supply", at[1], at[2]>>} ELSE {}
        /\ MintBurn(l) => n[<<"supply", at[1], at[2]>>] = SupplyAfter(l)
    <3>1. CASE MintBurn(l)
      <4>1. n = Row("supply", at, SupplyAfter(l))
        BY <3>1
      <4>2. QED
        BY <3>1, <4>1, RowFacts
    <3>2. CASE ~MintBurn(l)
      <4>1. n = <<>>
        BY <3>2
      <4>2. QED
        BY <3>2, <4>1
    <3>3. QED
      BY <3>1, <3>2
  <2> HIDE DEF n
  <2>3. updates' = UpsertAll(updates, UpsertAll(m, n))
    BY <2>1, UpsertTwice
  <2>4. /\ DOMAIN UpsertAll(m, n) = DOMAIN m \cup DOMAIN n
        /\ \A r \in DOMAIN m \cup DOMAIN n :
               UpsertAll(m, n)[r] = IF r \in DOMAIN n THEN n[r] ELSE m[r]
    BY DEF UpsertAll
  <2>5. DOMAIN UpsertAll(m, n) \subseteq Subject \X {at[1]} \X {at[2]}
    BY <1>2, <1>6, <2>2, <2>4
  <2>6. ASSUME NEW r \in DOMAIN UpsertAll(m, n) PROVE UpsertAll(m, n)[r] = Now'[r[1]]
    <3>1. CASE r \in DOMAIN n
      BY <1>4, <2>1, <2>2, <2>4, <3>1
    <3>2. CASE r \notin DOMAIN n
      BY <1>2, <1>4, <2>1, <2>4, <3>2
    <3>3. QED
      BY <3>1, <3>2
  <2>7. ASSUME NEW s \in Subject
        PROVE  Now'[s] = Now[s] \/ <<s, at[1], at[2]>> \in DOMAIN UpsertAll(m, n)
    <3>1. CASE s \in Wallet
      BY <1>2, <1>3, <1>4, <2>1, <2>4, <3>1
    <3>2. CASE s = "supply"
      BY <1>4, <2>1, <2>2, <2>4, <3>2
    <3>3. QED
      BY <1>4, <1>5, <3>1, <3>2
  <2>8. QED
    BY <2>3, <2>5, <2>6, <2>7 DEF RowsOfLog
<1>10. QED
  BY <1>7, <1>8, <1>9 DEF HandleTokenLog, HandleStake

LEMMA PoolRowsWritten ==
    ASSUME PoolRow, contract # "BophadesKernel", NEW l, NEW at, HandlePoolLog(l, at), UNCHANGED ledgerVars,
           updates = [r \in DOMAIN updates |-> updates[r]]
    PROVE  /\ PoolRow'
           /\ \E n : updates' = UpsertAll(updates, n) /\ RowsOfLog(n, at, Now')
<1>1. /\ \A w \in Wallet : Now[w] = balance[w] /\ Now'[w] = balance[w]
      /\ Now["supply"] = supply /\ Now'["supply"] = supply
      /\ Now["pool"] = pool.balances /\ Now'["pool"] = pool'.balances
      /\ Now["latest"] = latest /\ Now'["latest"] = latest'
  BY SubjectKinds DEF Now, ledgerVars
<1>2. \A s \in Subject : s \in Wallet \/ s = "supply" \/ s = "pool" \/ s = "latest"
  BY DEF Subject
<1>3. "pool" \in Subject /\ "latest" \in Subject
  BY DEF Subject
<1>4. CASE UNCHANGED <<pool, latest, updates>>
  <2>1. updates' = UpsertAll(updates, <<>>)
    BY <1>4, UpsertNone
  <2>2. RowsOfLog(<<>>, at, Now')
    BY <1>1, <1>2, <1>4 DEF RowsOfLog
  <2>3. QED
    BY <1>4, <2>1, <2>2 DEF PoolRow
<1>5. ASSUME NEW tokens, NEW balances, SetPool([tokens |-> tokens, balances |-> balances], at), latest' = latest
      PROVE  PoolRow' /\ \E n : updates' = UpsertAll(updates, n) /\ RowsOfLog(n, at, Now')
  <2> DEFINE n == Row("pool", at, balances)
  <2>1. pool' = [tokens |-> tokens, balances |-> balances] /\ updates' = UpsertAll(updates, n)
    BY <1>5 DEF SetPool
  <2>2. DOMAIN n = {<<"pool", at[1], at[2]>>} /\ n[<<"pool", at[1], at[2]>>] = balances
    BY RowFacts
  <2> HIDE DEF n
  <2>3. RowsOfLog(n, at, Now')
    BY <1>1, <1>2, <1>3, <1>5, <2>1, <2>2 DEF RowsOfLog
  <2>4. QED
    BY <2>1, <2>3 DEF PoolRow
<1>6. ASSUME NEW x, latest' = x, updates' = UpsertAll(updates, Row("latest", at, x)), pool' = pool
      PROVE  PoolRow' /\ \E n : updates' = UpsertAll(updates, n) /\ RowsOfLog(n, at, Now')
  <2> DEFINE n == Row("latest", at, x)
  <2>2. DOMAIN n = {<<"latest", at[1], at[2]>>} /\ n[<<"latest", at[1], at[2]>>] = x
    BY RowFacts
  <2>3. updates' = UpsertAll(updates, n)
    BY <1>6
  <2> HIDE DEF n
  <2>4. RowsOfLog(n, at, Now')
    BY <1>1, <1>2, <1>3, <1>6, <2>2 DEF RowsOfLog
  <2>5. QED
    BY <1>6, <2>3, <2>4 DEF PoolRow
<1>7. CASE HandleTokensRegistered(l, at) /\ UNCHANGED latest
  BY <1>4, <1>5, <1>7 DEF HandleTokensRegistered
<1>8. CASE HandleVaultLog(l, at) /\ UNCHANGED latest
  <2>1. CASE pool = NoRow
    BY <1>5, <1>8, <2>1 DEF HandleVaultLog, SeedPool
  <2>2. CASE pool # NoRow
    <3>1. pool = [tokens |-> pool.tokens, balances |-> pool.balances]
      BY <2>2 DEF PoolRow
    <3>2. [pool EXCEPT !.balances = BalancesAfter(l)] = [tokens |-> pool.tokens, balances |-> BalancesAfter(l)]
      BY <3>1
    <3>3. QED
      BY <1>5, <1>8, <2>2, <3>2 DEF HandleVaultLog
  <2>3. QED
    BY <2>1, <2>2
<1>9. CASE HandleReport(l, at) /\ UNCHANGED pool
  <2>1. SetLatest(l, at) \/ UNCHANGED <<latest, updates>>
    BY <1>9 DEF HandleReport, HandleSync, HandleUniv3, HandleLogRebase, HandleActionExecuted
  <2>2. QED
    BY <1>4, <1>6, <1>9, <2>1 DEF SetLatest
<1>10. QED
  BY <1>7, <1>8, <1>9 DEF HandlePoolLog

-----------------------------------------------------------------------------
(* The order of logs and rows.                                             *)

LEMMA SortedBelow ==
    ASSUME NEW L, NEW q \in Seq(L \X Nat), NEW n \in Nat, Sorted(q, n)
    PROVE  Sorted(q, n + 1)
<1>1. \A i \in 1 .. Len(q) : q[i][2] \in Nat
  OBVIOUS
<1>2. QED
  BY <1>1 DEF Sorted

(* Indices of a list that is one longer than another of length k.          *)
LEMMA TwoIndices ==
    ASSUME NEW k \in Nat, NEW i \in 1 .. k + 1, NEW j \in 1 .. k + 1, i < j
    PROVE  i \in 1 .. k /\ (j \in 1 .. k \/ j = k + 1)
  OBVIOUS

LEMMA SortedAppend ==
    ASSUME NEW L, NEW q \in Seq(L \X Nat), NEW l \in L, NEW n \in Nat, Sorted(q, n)
    PROVE  Append(q, <<l, n>>) \in Seq(L \X Nat) /\ Sorted(Append(q, <<l, n>>), n + 1)
<1> DEFINE e == Append(q, <<l, n>>)
<1>1. /\ e \in Seq(L \X Nat) /\ Len(q) \in Nat /\ Len(e) = Len(q) + 1
      /\ e[Len(q) + 1][2] = n /\ \A i \in 1 .. Len(q) : e[i] = q[i] /\ q[i][2] \in Nat
  OBVIOUS
<1> HIDE DEF e
<1>2. ASSUME NEW i \in 1 .. Len(e) PROVE e[i][2] < n + 1 /\ (i \in 1 .. Len(q) => e[i][2] < n)
  <2>1. i \in 1 .. Len(q) \/ i = Len(q) + 1
    BY <1>1
  <2>2. QED
    BY <1>1, <2>1 DEF Sorted
<1>3. ASSUME NEW i \in 1 .. Len(e), NEW j \in 1 .. Len(e), i < j PROVE e[i][2] < e[j][2]
  <2>1. i \in 1 .. Len(q) /\ (j \in 1 .. Len(q) \/ j = Len(q) + 1)
    <3>1. Len(q) \in Nat /\ Len(e) = Len(q) + 1
      BY <1>1
    <3>2. i \in 1 .. Len(q) + 1 /\ j \in 1 .. Len(q) + 1
      BY <3>1
    <3>3. QED
      BY <1>3, <3>1, <3>2, TwoIndices
  <2>2. CASE j \in 1 .. Len(q)
    <3>1. q[i][2] < q[j][2]
      BY <1>3, <2>1, <2>2 DEF Sorted
    <3>2. QED
      BY <1>1, <2>1, <2>2, <3>1
  <2>3. CASE j = Len(q) + 1
    <3>1. e[i][2] < n /\ e[j][2] = n
      BY <1>1, <1>2, <2>1, <2>3
    <3>2. QED
      BY <3>1
  <2>4. QED
    BY <2>1, <2>2, <2>3
<1>4. QED
  BY <1>1, <1>2, <1>3 DEF Sorted, e

LEMMA SortedTail ==
    ASSUME NEW L, NEW q \in Seq(L \X Nat), q # <<>>, NEW n \in Nat, Sorted(q, n)
    PROVE  /\ Head(q)[1] \in L /\ Head(q)[2] \in Nat /\ Head(q)[2] < n
           /\ Tail(q) \in Seq(L \X Nat) /\ Sorted(Tail(q), n)
           /\ \A i \in 1 .. Len(Tail(q)) : Head(q)[2] < Tail(q)[i][2] /\ Tail(q)[i] = q[i + 1]
           /\ Len(q) = Len(Tail(q)) + 1 /\ Head(q) = q[1]
<1> DEFINE e == Tail(q)
<1>1. /\ e \in Seq(L \X Nat) /\ Len(q) \in Nat /\ Len(e) = Len(q) - 1 /\ Len(q) > 0
      /\ Head(q) = q[1] /\ \A i \in 1 .. Len(e) : e[i] = q[i + 1]
      /\ \A i \in 1 .. Len(q) : q[i] \in L \X Nat
  OBVIOUS
<1> HIDE DEF e
<1>2. \A i \in 1 .. Len(e) : i + 1 \in 1 .. Len(q) /\ 1 < i + 1
  BY <1>1
<1>3. Sorted(e, n)
  <2>1. ASSUME NEW i \in 1 .. Len(e) PROVE e[i][2] < n
    BY <1>1, <1>2 DEF Sorted
  <2>2. ASSUME NEW i \in 1 .. Len(e), NEW j \in 1 .. Len(e), i < j PROVE e[i][2] < e[j][2]
    <3>1. i + 1 \in 1 .. Len(q) /\ j + 1 \in 1 .. Len(q) /\ i + 1 < j + 1
      BY <1>2, <2>2
    <3>2. q[i + 1][2] < q[j + 1][2]
      BY <3>1 DEF Sorted
    <3>3. QED
      BY <1>1, <3>2
  <2>3. QED
    BY <2>1, <2>2 DEF Sorted
<1>4. ASSUME NEW i \in 1 .. Len(e) PROVE q[1][2] < e[i][2]
  <2>1. 1 \in 1 .. Len(q) /\ i + 1 \in 1 .. Len(q) /\ 1 < i + 1
    BY <1>1, <1>2
  <2>2. q[1][2] < q[i + 1][2]
    BY <2>1 DEF Sorted
  <2>3. QED
    BY <1>1, <2>2
<1>5. q[1] \in L \X Nat /\ q[1][2] < n
  BY <1>1 DEF Sorted
<1>6. QED
  BY <1>1, <1>3, <1>4, <1>5 DEF e

LEMMA PoolLogs ==
    ASSUME contract \in PoolContracts, NEW l \in VaultLogs \cup ReportLogs
    PROVE  l \in Log
<1>1. contract \notin TokenContracts /\ "BalancerVault" \notin ReportingContracts
  BY ContractKinds DEF ReportingContracts
<1>2. CASE l \in VaultLogs
  <2>1. NoChange \in [PoolToken -> Int]
    BY DEF NoChange
  <2>2. contract = "BalancerVault"
    BY <1>2 DEF VaultLogs
  <2>3. l = [event |-> "TokensRegistered"] \/ l \in ChangeLogs \/ l \in SwapLogs
    BY <1>2 DEF VaultLogs
  <2>4. l \in VaultLog
    BY <2>1, <2>3 DEF VaultLog, ChangeLogs, SwapLogs
  <2>5. QED
    BY <1>1, <2>2, <2>4 DEF Log
<1>3. CASE l \in ReportLogs
  BY <1>1, <1>3 DEF ReportLogs, ReportLog, Log
<1>4. QED
  BY <1>2, <1>3

LEMMA SameLog == ASSUME contract' = contract PROVE Log' = Log
  BY SameLogs DEF Log, VaultLog, ReportLog

RowsInv == QueueOrder /\ RowsOrder /\ Unlogged /\ PoolRow /\ Told(updates, Now)

(* An emitted log waits behind the others.                                 *)
LEMMA EmitKeepsRows ==
    ASSUME RowsInv, NEW l \in Log, NEW delivered, Emit(l, delivered), contract' = contract
    PROVE  RowsInv'
<1>1. /\ phase = "executing" /\ emitted < MaxLogs /\ emitted' = emitted + 1
      /\ queue' = IF delivered THEN Append(queue, <<l, emitted>>) ELSE queue
      /\ UNCHANGED <<block, phase, ledgerVars, updates, poolVars>>
  BY DEF Emit
<1>2. Log' = Log
  BY SameLog
<1>3. emitted \in Nat /\ emitted' \in 0 .. MaxLogs
  BY <1>1, BlocksAssumption DEF RowsInv, QueueOrder, BackfillIndex
<1>4. queue' \in Seq(Log \X Nat) /\ Sorted(queue', emitted')
  <2>1. CASE delivered
    <3>1. queue' = Append(queue, <<l, emitted>>) /\ emitted' = emitted + 1
      BY <1>1, <2>1
    <3>2. queue \in Seq(Log \X Nat) /\ Sorted(queue, emitted)
      BY DEF RowsInv, QueueOrder
    <3>3. QED
      BY <1>3, <3>1, <3>2, SortedAppend
  <2>2. CASE ~delivered
    <3>1. queue' = queue /\ emitted' = emitted + 1
      BY <1>1, <2>2
    <3>2. queue \in Seq(Log \X Nat) /\ Sorted(queue, emitted)
      BY DEF RowsInv, QueueOrder
    <3>3. QED
      BY <1>3, <3>1, <3>2, SortedBelow
  <2>3. QED
    BY <2>1, <2>2
<1>5. QueueOrder'
  BY <1>2, <1>3, <1>4 DEF QueueOrder
<1>6. RowsOrder'
  BY <1>1 DEF RowsInv, RowsOrder
<1>7. Now' = Now
  BY <1>1 DEF Now, StateMap, ledgerVars, poolVars
<1>8. QED
  BY <1>1, <1>5, <1>6, <1>7 DEF RowsInv, Unlogged, PoolRow, Told, poolVars

(* The rows of the first log that waits come after all others.             *)
LEMMA HandleKeepsRows ==
    ASSUME LedgerInv, RowsInv, HandleLog
    PROVE  RowsInv'
<1> DEFINE l  == Head(queue)[1]
           at == <<block, Head(queue)[2]>>
<1>1. /\ phase = "handling" /\ queue # <<>> /\ queue' = Tail(queue)
      /\ UNCHANGED <<chainVars, poolChainVars, block, phase, emitted>>
      /\ \/ contract \in TokenContracts /\ HandleTokenLog(l, at) /\ UNCHANGED poolVars
         \/ contract \in PoolContracts /\ HandlePoolLog(l, at) /\ UNCHANGED ledgerVars
  BY DEF HandleLog
<1>2. queue \in Seq(Log \X Nat) /\ emitted \in Nat /\ Sorted(queue, emitted) /\ emitted <= MaxLogs
  BY BlocksAssumption DEF RowsInv, QueueOrder, BackfillIndex
<1>3. /\ l \in Log /\ at[2] \in Nat /\ at[2] < emitted
      /\ queue' \in Seq(Log \X Nat) /\ Sorted(queue', emitted)
      /\ \A i \in 1 .. Len(queue') : at[2] < queue'[i][2] /\ queue'[i] = queue[i + 1]
      /\ Len(queue) = Len(queue') + 1 /\ at[2] = queue[1][2]
  BY <1>1, <1>2, SortedTail
<1>4. Log' = Log
  BY <1>1, SameLog DEF chainVars
<1>5. QueueOrder'
  BY <1>1, <1>3, <1>4 DEF RowsInv, QueueOrder
<1>6. at[1] = block /\ block \in Nat /\ at[2] < BackfillIndex
  <2>1. block \in Nat
    BY DEF LedgerInv, LedgerType
  <2>2. MaxLogs \in Nat /\ MaxLogs <= BackfillIndex
    BY BlocksAssumption DEF BackfillIndex
  <2>3. QED
    BY <1>2, <1>3, <2>1, <2>2 DEF BackfillIndex
<1>7. /\ DOMAIN updates \subseteq RowId
      /\ updates = [r \in DOMAIN updates |-> updates[r]]
      /\ \A r \in DOMAIN updates : r[2] < at[1] \/ (r[2] = at[1] /\ r[3] < at[2])
  <2>1. 1 \in 1 .. Len(queue)
    BY <1>1, <1>2
  <2>2. ASSUME NEW r \in DOMAIN updates PROVE r[2] < block \/ (r[2] = block /\ r[3] < at[2])
    <3>1. r[2] \in Nat /\ r[2] <= block
      BY DEF RowsInv, RowsOrder, RowId
    <3>2. r[2] = block => r[3] < queue[1][2]
      BY <1>1, <2>1 DEF RowsInv, RowsOrder
    <3>3. QED
      BY <1>3, <1>6, <3>1, <3>2
  <2>3. QED
    BY <1>6, <2>2 DEF RowsInv, RowsOrder
<1> HIDE DEF l, at
<1>8. CASE contract \in {"UserStaking", "BophadesKernel"}
  <2>1. DOMAIN updates = {}
    BY <1>8 DEF RowsInv, Unlogged
  <2>2. updates' = updates /\ pool' = pool
    <3>1. CASE contract = "UserStaking"
      <4>1. contract \in TokenContracts /\ Positions
        BY <3>1 DEF TokenContracts, SilentContracts, Positions
      <4>2. l \in TokenLog /\ HandleTokenLog(l, at) /\ UNCHANGED poolVars
        BY <1>1, <1>3, <4>1, ContractKinds DEF Log, at, l
      <4>3. ~HandleTreasuryTransfer(l, at)
        BY <3>1, <4>2 DEF HandleTreasuryTransfer, TokenLog, MoveLog, SilentContracts, Positions
      <4>4. QED
        BY <3>1, <4>2, <4>3 DEF HandleTokenLog, HandleOhmTransfer, HandleLpTransfer,
           HandleKodiakTransfer, HandleWrapped9, HandleErc4626, HandleStakingRewards, HandleStake,
           HandleLender, poolVars
    <3>2. CASE contract = "BophadesKernel"
      <4>1. contract \in PoolContracts /\ contract \notin TokenContracts /\ contract # "BalancerVault"
        BY <3>2, ContractKinds DEF PoolContracts, ReportingContracts
      <4>2. l.event = "Report" /\ HandlePoolLog(l, at)
        BY <1>1, <1>3, <4>1 DEF Log, ReportLog, at, l
      <4>3. QED
        BY <3>2, <4>2 DEF HandlePoolLog, HandleReport, HandleSync, HandleUniv3, HandleLogRebase,
           HandleActionExecuted
    <3>3. QED
      BY <1>8, <3>1, <3>2
  <2>3. QED
    BY <1>1, <1>5, <2>1, <2>2 DEF RowsInv, RowsOrder, Unlogged, PoolRow, Told
<1>9. CASE contract \notin {"UserStaking", "BophadesKernel"}
  <2>1. PoolRow' /\ \E n : updates' = UpsertAll(updates, n) /\ RowsOfLog(n, at, Now')
    <3>1. CASE contract \in TokenContracts
      <4>1. l \in TokenLog /\ HandleTokenLog(l, at) /\ UNCHANGED poolVars /\ ~Positions
        BY <1>1, <1>3, <1>9, <3>1, ContractKinds DEF Log, Positions, at, l
      <4>2. QED
        BY <1>7, <4>1, TokenRows DEF RowsInv, PoolRow, poolVars, LedgerInv
    <3>2. CASE contract \notin TokenContracts
      BY <1>1, <1>7, <1>9, <3>2, PoolRowsWritten DEF RowsInv, at, l
    <3>3. QED
      BY <3>1, <3>2
  <2>2. PICK n : updates' = UpsertAll(updates, n) /\ RowsOfLog(n, at, Now')
    BY <2>1
  <2>3. Told(updates', Now')
    <3>1. Told(UpsertAll(updates, n), Now')
      <4>1. /\ DOMAIN n \subseteq Subject \X {at[1]} \X {at[2]}
            /\ \A r \in DOMAIN n : n[r] = Now'[r[1]]
            /\ \A s \in Subject : Now'[s] = Now[s] \/ <<s, at[1], at[2]>> \in DOMAIN n
        BY <2>2 DEF RowsOfLog
      <4>2. at[1] \in Nat /\ at[2] \in Nat /\ Told(updates, Now)
        BY <1>3, <1>6 DEF RowsInv
      <4> HIDE DEF at
      <4>3. QED
        BY <1>7, <4>1, <4>2, ToldMore
    <3>2. QED
      BY <2>2, <3>1
  <2>4. /\ DOMAIN updates' = DOMAIN updates \cup DOMAIN n
        /\ updates' = [r \in DOMAIN updates' |-> updates'[r]]
    BY <2>2 DEF UpsertAll
  <2>5. \A r \in DOMAIN n : r \in RowId /\ r[2] = block /\ r[3] = at[2]
    BY <1>3, <1>6, <2>2 DEF RowsOfLog, RowId
  <2>6. ASSUME NEW r \in DOMAIN updates'
        PROVE  /\ r[2] <= block
               /\ r[2] = block => r[3] < BackfillIndex /\ \A i \in 1 .. Len(queue') : r[3] < queue'[i][2]
    <3>1. CASE r \in DOMAIN n
      BY <1>3, <1>6, <2>5, <3>1
    <3>2. CASE r \in DOMAIN updates
      <4>1. \A i \in 1 .. Len(queue') : i + 1 \in 1 .. Len(queue)
        BY <1>3
      <4>2. QED
        BY <1>1, <1>3, <3>2, <4>1 DEF RowsInv, RowsOrder
    <3>3. QED
      BY <2>4, <3>1, <3>2
  <2>7. RowsOrder'
    BY <1>1, <2>4, <2>5, <2>6, <1>7 DEF RowsInv, RowsOrder
  <2>8. Unlogged'
    BY <1>1, <1>9 DEF Unlogged, chainVars
  <2>9. QED
    BY <1>5, <2>1, <2>3, <2>7, <2>8 DEF RowsInv
<1>10. QED
  BY <1>8, <1>9

(* The rows of the seed come after those of the logs of its block.         *)
LEMMA SeedKeepsRows ==
    ASSUME LedgerInv, RowsInv, OnBlock
    PROVE  RowsInv'
<1> DEFINE at == <<block, BackfillIndex>>
           n == [r \in {<<w, block, BackfillIndex>> : w \in SeededWallets} |-> SeededBalance(r[1])]
<1>1. /\ phase = "handling" /\ phase' = "done" /\ queue = <<>> /\ Backfill(block)
      /\ UNCHANGED <<chainVars, poolChainVars, poolVars, block, emitted, queue>>
  BY DEF OnBlock
<1>2. Log' = Log
  BY <1>1, SameLog DEF chainVars
<1>3. QueueOrder' /\ PoolRow'
  BY <1>1, <1>2 DEF RowsInv, QueueOrder, PoolRow, poolVars
<1>4. block \in Nat /\ BackfillIndex \in Nat
  BY DEF LedgerInv, LedgerType, BackfillIndex
<1>5. CASE block # StartBlock \/ sentinel
  <2>1. UNCHANGED <<balance, supply, updates>>
    BY <1>1, <1>5 DEF Backfill, ledgerVars
  <2>2. RowsOrder' /\ Unlogged'
    BY <1>1, <2>1 DEF RowsInv, RowsOrder, Unlogged, chainVars
  <2>3. Now' = Now
    BY <1>1, <2>1 DEF Now, StateMap, poolVars
  <2>4. QED
    BY <1>3, <2>1, <2>2, <2>3 DEF RowsInv, Told
<1>6. CASE block = StartBlock /\ ~sentinel
  <2>1. /\ balance' = [w \in Wallet |-> IF w \in SeededWallets THEN SeededBalance(w) ELSE balance[w]]
        /\ supply' = supply /\ updates' = UpsertAll(updates, n)
    BY <1>1, <1>6 DEF Backfill
  <2>2. /\ SeededWallets \subseteq Wallet
        /\ contract \in {"UserStaking", "BophadesKernel"} => SeededWallets = {}
    BY ContractKinds DEF SeededWallets, Positions, PoolContracts, ReportingContracts
  <2>3. /\ DOMAIN n = {<<w, block, BackfillIndex>> : w \in SeededWallets}
        /\ \A r \in DOMAIN n : n[r] = SeededBalance(r[1])
    OBVIOUS
  <2> HIDE DEF n
  <2>4. /\ \A w \in Wallet : Now[w] = balance[w] /\ Now'[w] = balance'[w]
        /\ Now["supply"] = supply /\ Now'["supply"] = supply
        /\ Now["pool"] = pool.balances /\ Now'["pool"] = pool.balances
        /\ Now["latest"] = latest /\ Now'["latest"] = latest
    BY <1>1, <2>1, SubjectKinds DEF Now, poolVars
  <2>5. \A s \in Subject : s \in Wallet \/ s = "supply" \/ s = "pool" \/ s = "latest"
    BY DEF Subject
  <2>6. Wallet \subseteq Subject
    BY DEF Subject
  <2>7. /\ DOMAIN updates \subseteq RowId
        /\ updates = [r \in DOMAIN updates |-> updates[r]]
        /\ \A r \in DOMAIN updates : r[2] < block \/ (r[2] = block /\ r[3] < BackfillIndex)
    BY <1>1, <1>4 DEF RowsInv, RowsOrder, RowId
  <2>8. /\ DOMAIN n \subseteq Subject \X {block} \X {BackfillIndex}
        /\ \A r \in DOMAIN n : r \in RowId /\ r[2] = block
    BY <1>4, <2>2, <2>3, <2>6 DEF RowId
  <2>9. \A r \in DOMAIN n : n[r] = Now'[r[1]]
    BY <2>1, <2>2, <2>3, <2>4
  <2>10. \A s \in Subject : Now'[s] = Now[s] \/ <<s, block, BackfillIndex>> \in DOMAIN n
    BY <2>1, <2>3, <2>4, <2>5
  <2>11. Told(UpsertAll(updates, n), Now')
    BY <1>4, <2>7, <2>8, <2>9, <2>10, ToldMore DEF RowsInv
  <2>12. /\ DOMAIN updates' = DOMAIN updates \cup DOMAIN n
         /\ updates' = [r \in DOMAIN updates' |-> updates'[r]]
    BY <2>1 DEF UpsertAll
  <2>13. RowsOrder'
    BY <1>1, <1>4, <2>7, <2>8, <2>12 DEF RowsInv, RowsOrder
  <2>14. Unlogged'
    BY <1>1, <2>2, <2>3, <2>12 DEF RowsInv, Unlogged, chainVars
  <2>15. QED
    BY <1>3, <2>1, <2>11, <2>13, <2>14 DEF RowsInv
<1>7. QED
  BY <1>5, <1>6

LEMMA RowsStart == ASSUME Init PROVE RowsInv
<1>1. /\ emitted = 0 /\ phase = "executing" /\ queue = <<>> /\ updates = <<>> /\ pool = NoRow
  BY DEF Init, TokenInit, PoolInit
<1>2. QueueOrder
  BY <1>1, BlocksAssumption DEF QueueOrder, Sorted, BackfillIndex
<1>3. QED
  BY <1>1, <1>2 DEF RowsInv, RowsOrder, Unlogged, PoolRow, Told

LEMMA RowsStep == ASSUME LedgerInv, RowsInv, [Next]_vars PROVE RowsInv'
<1>1. CASE ExecuteToken
  <2>1. PICK l \in MoveLogs \cup LenderLogs :
            contract \in TokenContracts /\ Emit(l, Delivered(l)) /\ contract' = contract
    BY <1>1 DEF ExecuteToken, Execute
  <2>2. l \in Log
    BY <2>1, ChainLog DEF LedgerInv, Log
  <2>3. QED
    BY <2>1, <2>2, EmitKeepsRows
<1>2. CASE ExecuteVault
  <2>1. PICK l \in VaultLogs \cup ReportLogs : Emit(l, TRUE) /\ contract' = contract
    BY <1>2 DEF ExecuteVault, chainVars
  <2>2. contract \in PoolContracts
    BY DEF VaultLogs, ReportLogs, PoolContracts
  <2>3. l \in Log
    BY <2>2, PoolLogs
  <2>4. QED
    BY <2>1, <2>3, EmitKeepsRows
<1>3. CASE HandleLog
  BY <1>3, HandleKeepsRows
<1>4. CASE OnBlock
  BY <1>4, SeedKeepsRows
<1>5. CASE EndOfBlock \/ NextBlock \/ UNCHANGED vars
  <2>1. /\ UNCHANGED <<chainVars, ledgerVars, updates, poolVars, emitted, queue>>
        /\ \/ block' = block /\ phase' = phase
           \/ block' = block /\ phase = "executing" /\ phase' = "handling"
           \/ block' = block + 1 /\ phase' = "executing"
    BY <1>5 DEF EndOfBlock, NextBlock, vars, blockVars
  <2>2. Log' = Log
    BY <2>1, SameLog DEF chainVars
  <2>3. QueueOrder'
    BY <2>1, <2>2 DEF RowsInv, QueueOrder
  <2>4. RowsOrder'
    <3>1. block \in Nat /\ \A r \in DOMAIN updates : r[2] \in Nat
      BY DEF LedgerInv, LedgerType, RowsInv, RowsOrder, RowId
    <3>2. QED
      BY <2>1, <3>1 DEF RowsInv, RowsOrder
  <2>5. Now' = Now
    BY <2>1 DEF Now, StateMap, ledgerVars, poolVars
  <2>6. QED
    BY <2>1, <2>3, <2>4, <2>5 DEF RowsInv, Unlogged, PoolRow, Told, chainVars, poolVars
<1>6. QED
  BY <1>1, <1>2, <1>3, <1>4, <1>5 DEF Next

(* While the logs of a block are handled one by one and the seed follows,  *)
(* the last immutable row of each subject is its state (the Update rows    *)
(* set beside each state row, Erc20Transfers.ts:59), and the logs that     *)
(* wait lead from a pool's row to what the vault holds                     *)
(* (BalancerPools.ts:68).                                                  *)
THEOREM RowsInvariant == Spec => [](LedgerInv /\ RowsInv)
<1>1. Init => RowsInv
  BY RowsStart
<1>2. LedgerInv /\ RowsInv /\ [Next]_vars => RowsInv'
  BY RowsStep
<1>3. QED
  BY <1>1, <1>2, LedgerInvariant, PTL DEF Spec

(* The immutable rows end in the state, at every moment: the last one of a *)
(* wallet, the supply, a pool or a reporting contract, in the order of     *)
(* blocks and logs with the seed behind them, holds what the state row     *)
(* holds, although a debit and a credit of one log share an id             *)
(* (Erc20Transfers.ts:32-35, :60) and the seed has an id of its own        *)
(* (BackfillTokenBalances.ts:120).                                         *)
THEOREM HistoryEndsInState == Spec => []LatestUpdateIsState
<1>1. RowsInv => LatestUpdateIsState
  <2>1. SUFFICES ASSUME RowsInv, NEW r \in DOMAIN updates,
                        \A q \in DOMAIN updates : q[1] = r[1] => Later(r, q)
                 PROVE  updates[r] = StateOf(r[1])
    BY DEF LatestUpdateIsState
  <2>2. r[1] \in Subject /\ updates[r] = Now[r[1]]
    BY <2>1 DEF RowsInv, RowsOrder, RowId, Told
  <2>3. Now[r[1]] = StateOf(r[1])
    BY <2>2, SubjectKinds DEF Now, Subject, StateOf
  <2>4. QED
    BY <2>2, <2>3
<1>2. QED
  BY <1>1, RowsInvariant, PTL

-----------------------------------------------------------------------------
(* The pool.                                                               *)

Reserves == [PoolToken -> Int]

PoolStates == [tokens : {PoolToken}, balances : Reserves]

(* What the vault makes of the reserves b in executing a log.              *)
VaultAfter(b, l) ==
    CASE l.event = "PoolBalanceChanged" -> [t \in PoolToken |-> b[t] + l.delta[t] - l.fee[t]]
      [] l.event = "Swap" -> [b EXCEPT ![l.in] = @ + l.amountIn, ![l.out] = @ - l.amountOut]
      [] OTHER -> b

VaultStep ==
    {s \in Reserves \X (VaultLog \X Nat) \X Reserves : s[3] = VaultAfter(s[1], s[2][1])}

(* The row agrees with reserves that the logs to be handled lead on from,  *)
(* apart from what the seed counts twice.  TokensRegistered is the first   *)
(* log of a pool, and a pool without a row waits for the first log.        *)
Plus(b, o) == [t \in PoolToken |-> b[t] + o[t]]

VaultLeads ==
    \E b \in Reserves :
        /\ Path(Reserves, VaultStep, queue, b, vault.reserve)
        /\ \A i \in 1 .. Len(queue) :
              queue[i][1].event = "TokensRegistered" => i = 1 /\ pool = NoRow /\ b = NoChange
        /\ pool # NoRow => pool.balances = Plus(b, CountedTwice)
        /\ (opening.begun /\ pool = NoRow) =>
              /\ opening.first = VaultAfter(b, queue[1][1])
              /\ opening.seeded = (queue[1][1].event # "TokensRegistered")

VaultType ==
    /\ vault \in [registered : BOOLEAN, reserve : Reserves]
    /\ ~vault.registered => queue = <<>> /\ pool = NoRow /\ vault.reserve = NoChange
    /\ pool \in PoolStates \cup {NoRow}

(* The pool has a row from the handling of its first block on, and what    *)
(* that block changed is settled when its logs are handled.                *)
OpeningInv ==
    /\ opening \in [begun : BOOLEAN, block : Nat, seeded : BOOLEAN,
                    first : Reserves, last : Reserves]
    /\ ~opening.begun => queue = <<>> /\ pool = NoRow
    /\ opening.begun =>
          /\ opening.block <= block
          /\ opening.block = block => opening.last = vault.reserve
          /\ pool = NoRow => opening.block = block /\ queue # <<>>
          /\ pool # NoRow /\ phase = "executing" => opening.block < block

PoolInv ==
    /\ contract # "BalancerVault" => pool = NoRow
    /\ contract = "BalancerVault" => VaultType /\ VaultLeads /\ OpeningInv

LEMMA VaultAfterType ==
    ASSUME NEW b \in Reserves, NEW l \in VaultLog PROVE VaultAfter(b, l) \in Reserves
<1>1. CASE l.event = "PoolBalanceChanged"
  <2>1. l.delta \in [PoolToken -> Int] /\ l.fee \in [PoolToken -> Int]
    BY <1>1 DEF VaultLog
  <2>2. QED
    BY <1>1, <2>1 DEF VaultAfter, Reserves
<1>2. CASE l.event = "Swap"
  <2>1. l.in \in PoolToken /\ l.out \in PoolToken /\ l.amountIn \in Int /\ l.amountOut \in Int
    BY <1>2 DEF VaultLog
  <2>2. QED
    BY <1>2, <2>1 DEF VaultAfter, Reserves
<1>3. CASE l.event = "TokensRegistered"
  BY <1>3 DEF VaultAfter
<1>4. QED
  BY <1>1, <1>2, <1>3 DEF VaultLog

LEMMA VaultAfterPlus ==
    ASSUME NEW b \in Reserves, NEW o \in Reserves, NEW l \in VaultLog
    PROVE  VaultAfter(Plus(b, o), l) = Plus(VaultAfter(b, l), o)
<1>1. CASE l.event = "PoolBalanceChanged"
  <2>1. l.delta \in [PoolToken -> Int] /\ l.fee \in [PoolToken -> Int]
    BY <1>1 DEF VaultLog
  <2>2. QED
    BY <1>1, <2>1 DEF VaultAfter, Reserves, Plus
<1>2. CASE l.event = "Swap"
  <2>1. l.in \in PoolToken /\ l.out \in PoolToken /\ l.amountIn \in Int /\ l.amountOut \in Int
    BY <1>2 DEF VaultLog
  <2>2. QED
    BY <1>2, <2>1 DEF VaultAfter, Reserves, Plus
<1>3. CASE l.event = "TokensRegistered"
  BY <1>3 DEF VaultAfter
<1>4. QED
  BY <1>1, <1>2, <1>3 DEF VaultLog

LEMMA PoolExecuted ==
    ASSUME PoolInv, RowsInv, LedgerInv, contract = "BalancerVault", ExecuteVault
    PROVE  PoolInv'
<1>1. PICK l \in VaultLogs \cup ReportLogs : Emit(l, TRUE) /\ ExecutePool(l, block) /\ UNCHANGED chainVars
  BY DEF ExecuteVault
<1>2. l \in VaultLogs /\ l \in VaultLog
  <2>1. contract \notin ReportingContracts /\ contract \in PoolContracts /\ contract \notin TokenContracts
    BY ContractKinds DEF ReportingContracts, PoolContracts
  <2>2. l \notin ReportLogs /\ l \in Log
    BY <2>1, PoolLogs DEF ReportLogs
  <2>3. QED
    BY <2>1, <2>2 DEF Log
<1> DEFINE e == <<l, emitted>>
<1>3. /\ contract' = contract /\ queue' = Append(queue, e)
      /\ UNCHANGED <<block, phase, pool>> /\ phase = "executing"
      /\ vault' = [registered |-> vault.registered \/ l.event = "TokensRegistered",
                   reserve |-> VaultAfter(vault.reserve, l)]
      /\ opening' = OpeningAfter(l, block)
      /\ ReserveAfter(l) = VaultAfter(vault.reserve, l)
  BY <1>1 DEF Emit, ExecutePool, ReserveAfter, VaultAfter, chainVars, poolVars
<1>4. VaultType /\ VaultLeads /\ OpeningInv /\ block \in Nat
  BY DEF PoolInv, LedgerInv, LedgerType
<1>5. vault.reserve \in Reserves /\ vault'.reserve \in Reserves /\ vault'.reserve = VaultAfter(vault.reserve, l)
  BY <1>2, <1>3, <1>4, VaultAfterType DEF VaultType
<1>6. vault.registered \/ l = [event |-> "TokensRegistered"]
  BY <1>2 DEF VaultLogs
<1>7. vault'.registered /\ vault' \in [registered : BOOLEAN, reserve : Reserves]
  <2>1. (vault.registered \/ l.event = "TokensRegistered") = TRUE
    BY <1>6
  <2>2. QED
    BY <1>3, <1>5, <2>1
<1>8. VaultType'
  BY <1>3, <1>4, <1>7 DEF VaultType
<1>9. e \in VaultLog \X Nat /\ queue \in Seq(VaultLog \X Nat) /\ emitted \in Nat
  <2>1. emitted \in Nat
    BY BlocksAssumption DEF RowsInv, QueueOrder, BackfillIndex
  <2>2. contract \notin TokenContracts
    BY ContractKinds DEF PoolContracts
  <2>3. QED
    BY <1>2, <2>1, <2>2 DEF RowsInv, QueueOrder, Log
<1>10. PICK b \in Reserves :
        /\ Path(Reserves, VaultStep, queue, b, vault.reserve)
        /\ \A i \in 1 .. Len(queue) :
              queue[i][1].event = "TokensRegistered" => i = 1 /\ pool = NoRow /\ b = NoChange
        /\ pool # NoRow => pool.balances = Plus(b, CountedTwice)
        /\ (opening.begun /\ pool = NoRow) =>
              /\ opening.first = VaultAfter(b, queue[1][1])
              /\ opening.seeded = (queue[1][1].event # "TokensRegistered")
  BY <1>4 DEF VaultLeads
<1>11. <<vault.reserve, e, vault'.reserve>> \in VaultStep
  BY <1>5, <1>9 DEF VaultStep
<1>12. Path(Reserves, VaultStep, queue', b, vault'.reserve)
  <2> HIDE DEF e
  <2>1. QED
    BY <1>3, <1>5, <1>9, <1>10, <1>11, PathAppend
<1>13. ASSUME NEW i \in 1 .. Len(queue'), queue'[i][1].event = "TokensRegistered"
       PROVE  i = 1 /\ pool = NoRow /\ b = NoChange
  <2>1. CASE i \in 1 .. Len(queue)
    BY <1>3, <1>9, <1>10, <1>13, <2>1
  <2>2. CASE i \notin 1 .. Len(queue)
    <3>1. i = Len(queue) + 1 /\ queue'[i] = e
      BY <1>3, <1>9, <2>2
    <3>2. l.event = "TokensRegistered"
      BY <1>13, <3>1
    <3>3. ~vault.registered
      <4>1. l \notin ChangeLogs /\ l \notin SwapLogs
        BY <3>2 DEF ChangeLogs, SwapLogs
      <4>2. QED
        BY <1>2, <4>1 DEF VaultLogs
    <3>4. queue = <<>> /\ pool = NoRow /\ vault.reserve = NoChange
      BY <1>4, <3>3 DEF VaultType
    <3>5. b = vault.reserve
      BY <1>10, <3>4, PathEmpty
    <3>6. QED
      BY <3>1, <3>4, <3>5
  <2>3. QED
    BY <2>1, <2>2
<1>14. CASE ~opening.begun
  <2>1. queue = <<>> /\ pool = NoRow
    BY <1>4, <1>14 DEF OpeningInv
  <2>2. b = vault.reserve /\ queue' = <<e>>
    BY <1>3, <1>10, <2>1, PathEmpty
  <2>3. opening' = [begun |-> TRUE, block |-> block, seeded |-> l.event # "TokensRegistered",
                    first |-> vault'.reserve, last |-> vault'.reserve]
    BY <1>3, <1>14 DEF OpeningAfter
  <2>4. OpeningInv'
    BY <1>3, <1>4, <1>5, <2>1, <2>2, <2>3 DEF OpeningInv
  <2>5. queue'[1][1] = l
    BY <2>2
  <2>6. VaultLeads'
    BY <1>3, <1>5, <1>12, <1>13, <2>1, <2>2, <2>3, <2>5 DEF VaultLeads
  <2>7. QED
    BY <1>3, <1>8, <2>4, <2>6 DEF PoolInv
<1>15. CASE opening.begun /\ pool = NoRow
  <2>1. opening.block = block /\ queue # <<>>
    BY <1>4, <1>15 DEF OpeningInv
  <2>2. opening' = [opening EXCEPT !.last = vault'.reserve]
    BY <1>3, <1>15, <2>1 DEF OpeningAfter
  <2>3. queue'[1] = queue[1] /\ queue' # <<>>
    <3> HIDE DEF e
    <3>1. Len(queue) \in Nat /\ Len(queue) > 0 /\ Len(queue') = Len(queue) + 1
      BY <1>3, <1>9, <2>1
    <3>2. queue'[1] = queue[1]
      BY <1>3, <1>9, <3>1
    <3>3. QED
      BY <3>1, <3>2
  <2>4. OpeningInv' /\ opening'.first = opening.first /\ opening'.seeded = opening.seeded
    BY <1>3, <1>4, <1>5, <1>15, <2>1, <2>2, <2>3 DEF OpeningInv
  <2>5. VaultLeads'
    BY <1>3, <1>10, <1>12, <1>13, <1>15, <2>3, <2>4 DEF VaultLeads
  <2>6. QED
    BY <1>3, <1>8, <2>4, <2>5 DEF PoolInv
<1>16. CASE pool # NoRow
  <2>1. opening.begun /\ opening.block < block
    BY <1>3, <1>4, <1>16 DEF OpeningInv
  <2>2. opening' = opening
    BY <1>3, <1>4, <2>1 DEF OpeningAfter, OpeningInv
  <2>3. OpeningInv'
    BY <1>3, <1>4, <1>16, <2>1, <2>2 DEF OpeningInv
  <2>4. VaultLeads'
    BY <1>3, <1>10, <1>12, <1>13, <1>16, <2>2 DEF VaultLeads, CountedTwice
  <2>5. QED
    BY <1>3, <1>8, <2>3, <2>4 DEF PoolInv
<1>17. QED
  BY <1>14, <1>15, <1>16

LEMMA PoolHandled ==
    ASSUME PoolInv, RowsInv, LedgerInv, contract = "BalancerVault", HandleLog
    PROVE  PoolInv'
<1> DEFINE l   == Head(queue)[1]
           idx == Head(queue)[2]
<1>0. contract \notin TokenContracts /\ contract \in PoolContracts
  BY ContractKinds DEF PoolContracts
<1>1. /\ phase = "handling" /\ queue # <<>> /\ queue' = Tail(queue)
      /\ HandlePoolLog(l, <<block, idx>>)
      /\ contract' = contract /\ vault' = vault /\ opening' = opening
      /\ block' = block /\ phase' = phase
  BY <1>0 DEF HandleLog, chainVars, poolChainVars
<1>2. queue \in Seq(VaultLog \X Nat) /\ emitted \in Nat /\ Sorted(queue, emitted)
  BY <1>0, BlocksAssumption DEF RowsInv, QueueOrder, Log, BackfillIndex
<1>3. /\ l \in VaultLog /\ idx \in Nat /\ idx = queue[1][2] /\ l = queue[1][1]
      /\ queue' \in Seq(VaultLog \X Nat) /\ Len(queue) = Len(queue') + 1
      /\ \A i \in 1 .. Len(queue') : queue'[i] = queue[i + 1]
  BY <1>1, <1>2, SortedTail
<1>4. VaultType /\ VaultLeads /\ OpeningInv /\ opening.begun
  BY <1>1 DEF PoolInv, OpeningInv
<1>5. PICK b \in Reserves :
        /\ Path(Reserves, VaultStep, queue, b, vault.reserve)
        /\ \A i \in 1 .. Len(queue) :
              queue[i][1].event = "TokensRegistered" => i = 1 /\ pool = NoRow /\ b = NoChange
        /\ pool # NoRow => pool.balances = Plus(b, CountedTwice)
        /\ (opening.begun /\ pool = NoRow) =>
              /\ opening.first = VaultAfter(b, queue[1][1])
              /\ opening.seeded = (queue[1][1].event # "TokensRegistered")
  BY <1>4 DEF VaultLeads
<1>6. PICK c \in Reserves :
        <<b, Head(queue), c>> \in VaultStep /\ Path(Reserves, VaultStep, queue', c, vault.reserve)
  BY <1>1, <1>2, <1>5, PathTail
<1>7. c = VaultAfter(b, l)
  BY <1>6 DEF VaultStep
<1>8. /\ 1 \in 1 .. Len(queue)
      /\ \A i \in 1 .. Len(queue') : queue'[i][1].event # "TokensRegistered"
  <2>1. Len(queue) \in Nat /\ Len(queue') \in Nat
    BY <1>2, <1>3
  <2>2. \A i \in 1 .. Len(queue') : i + 1 \in 1 .. Len(queue) /\ i + 1 # 1
    BY <1>3, <2>1
  <2>3. QED
    BY <1>3, <1>5, <2>1, <2>2
<1>9. CountedTwice \in Reserves /\ CountedTwice' = CountedTwice
  BY <1>1, <1>4 DEF CountedTwice, OpeningInv, Reserves
<1>10. pool \in PoolStates \cup {NoRow} /\ vault.reserve \in Reserves
  BY <1>4 DEF VaultType
<1>11. NoRow \notin PoolStates
  BY PoolAssumption DEF PoolStates, Reserves
<1> HIDE DEF l, idx
(* A new row that agrees with c will do.                                   *)
<1>12. ASSUME NEW balances \in Reserves,
              SetPool([tokens |-> PoolToken, balances |-> balances], <<block, idx>>),
              balances = Plus(c, CountedTwice)
       PROVE  PoolInv'
  <2>1. pool' = [tokens |-> PoolToken, balances |-> balances]
    BY <1>12 DEF SetPool
  <2>2. pool' \in PoolStates /\ pool' # NoRow /\ pool'.balances = balances
    BY <1>11, <2>1 DEF PoolStates
  <2>3. VaultType'
    BY <1>1, <1>4, <2>2 DEF VaultType
  <2>4. OpeningInv'
    BY <1>1, <1>4, <2>2 DEF OpeningInv
  <2>5. VaultLeads'
    BY <1>1, <1>6, <1>8, <1>9, <1>12, <2>2 DEF VaultLeads
  <2>6. QED
    BY <1>1, <2>3, <2>4, <2>5 DEF PoolInv
<1>13. CASE l.event = "TokensRegistered"
  <2>1. pool = NoRow /\ b = NoChange
    BY <1>3, <1>5, <1>8, <1>13
  <2>2. c = NoChange
    BY <1>7, <1>13, <2>1 DEF VaultAfter
  <2>3. SetPool([tokens |-> PoolToken, balances |-> NoChange], <<block, idx>>)
    BY <1>1, <1>13, <2>1 DEF HandlePoolLog, HandleTokensRegistered, NoChange, l, idx
  <2>4. ~opening.seeded
    BY <1>3, <1>4, <1>5, <1>13, <2>1
  <2>5. NoChange = Plus(c, CountedTwice) /\ NoChange \in Reserves
    BY <2>2, <2>4 DEF Plus, CountedTwice, NoChange, Reserves
  <2>6. QED
    BY <1>12, <2>3, <2>5
<1>14. CASE l.event \in {"PoolBalanceChanged", "Swap"}
  <2>1. HandleVaultLog(l, <<block, idx>>)
    BY <1>1, <1>14 DEF HandlePoolLog, l, idx
  <2>2. CASE pool = NoRow
    <3>1. SetPool([tokens |-> PoolToken, balances |-> vault.reserve], <<block, idx>>)
      BY <2>1, <2>2 DEF HandleVaultLog, SeedPool
    <3>2. opening.seeded /\ opening.first = c /\ opening.last = vault.reserve
      <4>1. l.event # "TokensRegistered"
        BY <1>14
      <4>2. QED
        BY <1>3, <1>4, <1>5, <1>7, <2>2, <4>1 DEF OpeningInv
    <3>3. vault.reserve = Plus(c, CountedTwice)
      BY <1>10, <3>2 DEF Plus, CountedTwice, Reserves
    <3>4. QED
      BY <1>10, <1>12, <3>1, <3>3
  <2>3. CASE pool # NoRow
    <3>1. pool \in PoolStates /\ pool.tokens = PoolToken /\ pool.balances \in Reserves
      BY <1>10, <2>3 DEF PoolStates
    <3>2. BalancesAfter(l) = VaultAfter(pool.balances, l)
      <4>1. CASE l.event = "PoolBalanceChanged"
        BY <3>1, <4>1 DEF BalancesAfter, VaultAfter
      <4>2. CASE l.event = "Swap"
        <5>1. {l.in, l.out} \subseteq PoolToken
          BY <1>3, <4>2 DEF VaultLog
        <5>2. QED
          BY <3>1, <4>2, <5>1 DEF BalancesAfter, VaultAfter
      <4>3. QED
        BY <1>14, <4>1, <4>2
    <3>3. BalancesAfter(l) \in Reserves
      BY <1>3, <3>1, <3>2, VaultAfterType
    <3>4. [pool EXCEPT !.balances = BalancesAfter(l)] = [tokens |-> PoolToken, balances |-> BalancesAfter(l)]
      BY <3>1 DEF PoolStates
    <3>5. SetPool([tokens |-> PoolToken, balances |-> BalancesAfter(l)], <<block, idx>>)
      BY <2>1, <2>3, <3>4 DEF HandleVaultLog
    <3>6. BalancesAfter(l) = Plus(c, CountedTwice)
      BY <1>3, <1>5, <1>7, <1>9, <2>3, <3>2, VaultAfterPlus
    <3>7. QED
      BY <1>12, <3>3, <3>5, <3>6
  <2>4. QED
    BY <2>2, <2>3
<1>15. QED
  BY <1>3, <1>13, <1>14 DEF VaultLog

-----------------------------------------------------------------------------
(* Contracts that report.                                                  *)

(* What a report makes of the value, if it counts.                         *)
ReportStep ==
    {s \in Nat \X (ReportLog \X Nat) \X Nat :
        s[3] = IF s[2][1].counts THEN s[2][1].value ELSE s[1]}

(* The row agrees with a value that the reports to be handled lead on      *)
(* from.                                                                   *)
ReportLeads ==
    /\ contract \notin ReportingContracts => latest = NoRow
    /\ contract \in ReportingContracts =>
          \E v \in Nat : Path(Nat, ReportStep, queue, v, value) /\ (latest # NoRow => latest = v)

LEMMA ReportQueue ==
    ASSUME RowsInv, contract \in ReportingContracts
    PROVE  /\ contract \in PoolContracts /\ contract \notin TokenContracts /\ contract # "BalancerVault"
           /\ Log = ReportLog /\ queue \in Seq(ReportLog \X Nat) /\ emitted \in Nat
  BY ContractKinds, BlocksAssumption DEF PoolContracts, ReportingContracts, RowsInv, QueueOrder, Log, BackfillIndex

LEMMA SameReports == ASSUME contract' = contract PROVE ReportStep' = ReportStep
  BY DEF ReportStep, ReportLog

LEMMA ReportExecuted ==
    ASSUME RowsInv, ReportLeads, contract \in ReportingContracts, ExecuteVault
    PROVE  ReportLeads'
<1>1. PICK l \in VaultLogs \cup ReportLogs : Emit(l, TRUE) /\ ExecutePool(l, block) /\ UNCHANGED chainVars
  BY DEF ExecuteVault
<1> DEFINE e == <<l, emitted>>
<1>2. l \in ReportLog
  BY ReportQueue, PoolLogs
<1>3. /\ contract' = contract /\ latest' = latest /\ queue' = Append(queue, e)
      /\ value' = IF l.counts THEN l.value ELSE value
  BY <1>1, <1>2 DEF Emit, ExecutePool, ReportLog, chainVars, poolVars
<1>4. e \in ReportLog \X Nat /\ queue \in Seq(ReportLog \X Nat)
  BY <1>2, ReportQueue
<1>5. PICK v \in Nat : Path(Nat, ReportStep, queue, v, value) /\ (latest # NoRow => latest = v)
  BY DEF ReportLeads
<1>6. value \in Nat
  BY <1>4, <1>5, PathType
<1>7. value' \in Nat /\ <<value, e, value'>> \in ReportStep
  BY <1>2, <1>3, <1>4, <1>6 DEF ReportStep, ReportLog
<1> HIDE DEF e
<1>8. Path(Nat, ReportStep, queue', v, value')
  BY <1>3, <1>4, <1>5, <1>7, PathAppend
<1>9. QED
  BY <1>3, <1>5, <1>8, SameReports DEF ReportLeads

LEMMA ReportHandled ==
    ASSUME RowsInv, ReportLeads, contract \in ReportingContracts, HandleLog
    PROVE  ReportLeads' /\ pool' = pool
<1> DEFINE l  == Head(queue)[1]
           at == <<block, Head(queue)[2]>>
<1>1. /\ queue # <<>> /\ queue' = Tail(queue) /\ HandlePoolLog(l, at)
      /\ contract' = contract /\ value' = value
  BY ReportQueue DEF HandleLog, chainVars, poolChainVars
<1>2. l \in ReportLog /\ queue \in Seq(ReportLog \X Nat)
  BY <1>1, ReportQueue
<1>3. PICK v \in Nat : Path(Nat, ReportStep, queue, v, value) /\ (latest # NoRow => latest = v)
  BY DEF ReportLeads
<1>4. PICK w \in Nat : <<v, Head(queue), w>> \in ReportStep /\ Path(Nat, ReportStep, queue', w, value)
  BY <1>1, <1>2, <1>3, PathTail
<1>5. w = IF l.counts THEN l.value ELSE v
  BY <1>4 DEF ReportStep
<1>6. HandleReport(l, at) /\ pool' = pool
  BY <1>1, <1>2 DEF HandlePoolLog, ReportLog
<1> HIDE DEF l, at
<1>7. latest' = IF l.counts THEN l.value ELSE latest
  BY <1>2, <1>6 DEF HandleReport, HandleSync, HandleUniv3, HandleLogRebase, HandleActionExecuted,
     SetLatest, ReportLog
<1>8. latest' # NoRow => latest' = w
  BY <1>3, <1>5, <1>7
<1>9. QED
  BY <1>1, <1>4, <1>6, <1>8, SameReports DEF ReportLeads

-----------------------------------------------------------------------------

LEMMA PoolStart == ASSUME Init PROVE PoolInv /\ ReportLeads
<1>1. /\ pool = NoRow /\ latest = NoRow /\ value = 0 /\ queue = <<>> /\ updates = <<>>
  BY DEF Init, TokenInit, PoolInit
<1>2. /\ opening = [begun |-> FALSE, block |-> StartBlock, seeded |-> FALSE,
                     first |-> NoChange, last |-> NoChange]
      /\ block = StartBlock /\ block \in Nat
  BY LedgerStart DEF Init, PoolInit, LedgerInv, LedgerType
<1>3. NoChange \in Reserves
  BY DEF NoChange, Reserves
<1>4. ASSUME contract = "BalancerVault" PROVE VaultType /\ VaultLeads /\ OpeningInv
  <2>1. \/ vault = [registered |-> FALSE, reserve |-> NoChange]
        \/ \E r \in [PoolToken -> 0 .. 1] : vault = [registered |-> TRUE, reserve |-> r]
    BY <1>4 DEF Init, PoolInit
  <2>2. /\ vault \in [registered : BOOLEAN, reserve : Reserves]
        /\ ~vault.registered => vault.reserve = NoChange
    <3>1. CASE vault = [registered |-> FALSE, reserve |-> NoChange]
      BY <1>3, <3>1
    <3>2. ASSUME NEW r \in [PoolToken -> 0 .. 1], vault = [registered |-> TRUE, reserve |-> r]
          PROVE  vault \in [registered : BOOLEAN, reserve : Reserves] /\ vault.registered
      <4>1. r \in Reserves
        BY DEF Reserves
      <4>2. QED
        BY <3>2, <4>1
    <3>3. QED
      BY <2>1, <3>1, <3>2
  <2>3. VaultType
    BY <1>1, <2>2 DEF VaultType
  <2>4. Path(Reserves, VaultStep, queue, vault.reserve, vault.reserve)
    BY <1>1, <2>2, PathEmpty
  <2>5. VaultLeads
    BY <1>1, <1>2, <2>2, <2>4 DEF VaultLeads
  <2>6. OpeningInv
    BY <1>1, <1>2, <1>3 DEF OpeningInv
  <2>7. QED
    BY <2>3, <2>5, <2>6
<1>5. PoolInv
  BY <1>1, <1>4 DEF PoolInv
<1>6. Path(Nat, ReportStep, queue, 0, value)
  BY <1>1, PathEmpty
<1>7. QED
  BY <1>1, <1>5, <1>6 DEF ReportLeads

(* Steps that neither emit nor handle a log of the contract.               *)
LEMMA PoolStays ==
    ASSUME LedgerInv, PoolInv, ReportLeads, UNCHANGED <<contract, poolVars, poolChainVars>>,
           contract \in PoolContracts => queue' = queue,
           \/ block' = block /\ (phase' = "executing" => phase = "executing")
           \/ block' = block + 1 /\ queue = <<>>
    PROVE  PoolInv' /\ ReportLeads'
<1>1. CASE contract \in PoolContracts
  <2>1. UNCHANGED <<contract, pool, latest, vault, opening, value, queue>>
    BY <1>1 DEF poolVars, poolChainVars
  <2>2. OpeningInv => OpeningInv'
    BY <2>1 DEF OpeningInv, LedgerInv, LedgerType
  <2>3. PoolInv'
    BY <2>1, <2>2 DEF PoolInv, VaultType, VaultLeads, CountedTwice
  <2>4. ReportLeads'
    BY <2>1, SameReports DEF ReportLeads
  <2>5. QED
    BY <2>3, <2>4
<1>2. CASE contract \notin PoolContracts
  BY <1>2 DEF PoolInv, ReportLeads, PoolContracts, poolVars
<1>3. QED
  BY <1>1, <1>2

LEMMA PoolStepKeeps ==
    ASSUME LedgerInv, RowsInv, PoolInv, ReportLeads, [Next]_vars
    PROVE  PoolInv' /\ ReportLeads'
<1>1. CASE ExecuteToken
  BY <1>1, PoolStays, ContractKinds DEF ExecuteToken, Emit, Execute
<1>2. CASE ExecuteVault
  <2>1. contract \in PoolContracts /\ UNCHANGED <<contract, poolVars>>
    BY <1>2 DEF ExecuteVault, Emit, VaultLogs, ReportLogs, PoolContracts, chainVars
  <2>2. CASE contract = "BalancerVault"
    <3>1. contract \notin ReportingContracts
      BY <2>2 DEF ReportingContracts
    <3>2. QED
      BY <1>2, <2>1, <2>2, <3>1, PoolExecuted DEF ReportLeads, poolVars
  <2>3. CASE contract \in ReportingContracts
    BY <1>2, <2>1, <2>3, ReportExecuted, ReportQueue DEF PoolInv, poolVars
  <2>4. QED
    BY <2>1, <2>2, <2>3 DEF PoolContracts
<1>3. CASE HandleLog
  <2>1. CASE contract = "BalancerVault"
    <3>1. /\ contract \notin ReportingContracts /\ contract \notin TokenContracts
          /\ Log = VaultLog /\ queue \in Seq(VaultLog \X Nat)
      BY <2>1, ContractKinds DEF ReportingContracts, PoolContracts, Log, RowsInv, QueueOrder
    <3>2. /\ contract' = contract /\ queue # <<>>
          /\ HandlePoolLog(Head(queue)[1], <<block, Head(queue)[2]>>)
      BY <1>3, <3>1 DEF HandleLog, chainVars
    <3>3. Head(queue)[1] \in VaultLog
      BY <3>1, <3>2
    <3>4. latest' = latest
      BY <3>2, <3>3 DEF HandlePoolLog, VaultLog
    <3>5. QED
      BY <1>3, <2>1, <3>1, <3>2, <3>4, PoolHandled DEF ReportLeads
  <2>2. CASE contract \in ReportingContracts
    BY <1>3, <2>2, ReportHandled, ReportQueue DEF PoolInv, HandleLog, chainVars
  <2>3. CASE contract \notin PoolContracts
    BY <1>3, <2>3, PoolStays DEF HandleLog, chainVars
  <2>4. QED
    BY <2>1, <2>2, <2>3 DEF PoolContracts
<1>4. CASE OnBlock
  <2>1. /\ queue' = queue /\ block' = block /\ phase' = "done"
        /\ UNCHANGED <<contract, poolVars, poolChainVars>>
    BY <1>4 DEF OnBlock, chainVars
  <2>2. QED
    BY <2>1, PoolStays
<1>5. CASE EndOfBlock \/ NextBlock \/ UNCHANGED vars
  <2>1. /\ UNCHANGED <<contract, poolVars, poolChainVars, queue>>
        /\ \/ block' = block /\ (phase' = "executing" => phase = "executing")
           \/ block' = block + 1 /\ phase = "done"
    BY <1>5 DEF EndOfBlock, NextBlock, vars, blockVars, chainVars
  <2>2. QED
    BY <2>1, PoolStays DEF LedgerInv, BlockOrder
<1>6. QED
  BY <1>1, <1>2, <1>3, <1>4, <1>5 DEF Next

(* The row of a Balancer pool is what the vault holds, after any deposits, *)
(* exits, swaps and fees, plus, if a seed began it, what the vault changed *)
(* in the seeding block after the log that made the row, which the row has *)
(* twice (BalancerPools.ts:68-77, :147-152); the row of a contract that    *)
(* reports is its last report that counts.                                 *)
THEOREM PoolIsVault == Spec => []PoolFollowsVault
<1>1. Init => PoolInv /\ ReportLeads
  BY PoolStart
<1>2. LedgerInv /\ RowsInv /\ PoolInv /\ ReportLeads /\ [Next]_vars => PoolInv' /\ ReportLeads'
  BY PoolStepKeeps
<1>3. LedgerInv /\ PoolInv /\ ReportLeads => PoolFollowsVault
  <2>1. SUFFICES ASSUME LedgerInv, PoolInv, ReportLeads, AtRest PROVE PoolFollowsVault
    BY DEF PoolFollowsVault
  <2>2. queue = <<>>
    BY <2>1 DEF LedgerInv, BlockOrder, AtRest
  <2>3. ASSUME pool # NoRow
        PROVE  pool.balances = [t \in PoolToken |-> vault.reserve[t] + CountedTwice[t]]
    <3>1. contract = "BalancerVault" /\ VaultLeads
      BY <2>1, <2>3 DEF PoolInv
    <3>2. PICK b \in Reserves :
            /\ Path(Reserves, VaultStep, <<>>, b, vault.reserve)
            /\ pool.balances = Plus(b, CountedTwice)
      BY <2>2, <2>3, <3>1 DEF VaultLeads
    <3>3. b = vault.reserve
      BY <3>2, PathEmpty
    <3>4. QED
      BY <3>2, <3>3 DEF Plus
  <2>4. ASSUME latest # NoRow PROVE latest = value
    <3>1. PICK v \in Nat : Path(Nat, ReportStep, <<>>, v, value) /\ latest = v
      BY <2>1, <2>2, <2>4 DEF ReportLeads
    <3>2. QED
      BY <3>1, PathEmpty
  <2>5. QED
    BY <2>3, <2>4 DEF PoolFollowsVault
<1>4. QED
  BY <1>1, <1>2, <1>3, RowsInvariant, PTL DEF Spec
=============================================================================
