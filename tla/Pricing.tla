-------------------------------- MODULE Pricing --------------------------------
(***************************************************************************)
(* The price router of pricing/index.ts and its handlers.  A lookup asks   *)
(* every matching handler in configuration order and keeps the quote with  *)
(* the deepest liquidity; handlers look up the tokens they depend on in    *)
(* the same way.  Lookups are memoised for the duration of a snapshot, and *)
(* one that is met again while it is under way answers the fallback.  A    *)
(* snapshot awaits its lookups one after the other, so the lookups under   *)
(* way form a stack.  Reads of contracts go through ContractReads, whose   *)
(* other callers overlap with the pricing snapshot.                        *)
(*                                                                         *)
(* A handler is a record: id and kind; tokens it matches; coins it holds   *)
(* or depends on, in order, and the balance of each; pool, the contract it *)
(* reads from; start; known, whether its state (or feed, index, supply of  *)
(* a curve or fraxswap pool) is there and not zero; supply of its share    *)
(* token lp; depth, the L of a concentrated pool; ratio, a feed's answer   *)
(* or a formula's factor.  A univ3-quoter is priced like a univ3.  Prices  *)
(* are integers; quotients are rounded down.                               *)
(***************************************************************************)
EXTENDS ContractReads, SequencesExt

CONSTANTS
    Pricer,        \* the caller that prices
    Handlers,      \* liquidityHandlers, in configuration order
    Owned,         \* ownedLiquidityHandlers that are not among them
    Inactive,      \* tokens not yet active at the block
    NoPool,        \* currentPool = null
    One,           \* the price of a stable coin
    Priority,      \* liquidity of feeds and formulas
    Requests,      \* what a snapshot asks for, in any order
    Reads,         \* what the other callers read
    MaxAsked,      \* bound: requests of the snapshot
    MaxReads,      \* bound: calls made by each other caller
    MaxSteps       \* bound: steps of the router from one read to the next

ASSUME PricingAssumption == Pricer \in Caller /\ One > 0 /\ MaxSteps \in Nat

VARIABLES
    lookups,       \* the stack of lookups under way, innermost last, and the
                   \* inFlight and the resolved cache entries of the store
    asked,         \* requests made so far
    thrown         \* a read failed, and with it the snapshot

pricingVars == <<lookups, asked, thrown>>
vars == <<readVars, pricingVars>>

Zero == [price |-> 0, liquidity |-> 0]
NoQuote == [price |-> 0, liquidity |-> -1]

Block == BlockOf[Pricer]

PriceKey(t, pool) == <<"price", t, pool>>

Tokens == UNION {ToSet(Handlers[i].tokens) \cup ToSet(Handlers[i].coins) : i \in DOMAIN Handlers}
Known == ToSet(Handlers) \cup Owned

Pools == {h.id : h \in Known} \cup {NoPool}

HandlerOf(id) == CHOOSE h \in Known : h.id = id

-----------------------------------------------------------------------------
(* The handlers.                                                           *)

Pairs == {"univ2", "univ3", "kodiak"}
Formulas == {"gohm", "erc4626", "remap"}

Active(h) == Block >= h.start

OtherCoins(h, t) == SelectSeq(h.coins, LAMBDA x : x # t)

Under(tokens, pool) == [i \in DOMAIN tokens |-> <<tokens[i], pool>>]

(* The lookups a handler makes for the price of t, in order.               *)
Legs(h, t) ==
    CASE h.kind \in {"stable", "chainlink"} -> <<>>
      [] h.kind \in Formulas -> Under(h.coins, h.id)
      [] h.kind \in Pairs -> Under(OtherCoins(h, t), h.id)
      [] h.kind = "balancer" -> IF t = h.lp THEN Under(h.coins, NoPool)
                                ELSE Under(OtherCoins(h, t), h.id)
      [] h.kind = "curve" -> Under(SelectSeq(h.coins, LAMBDA x : h.balance[x] # 0), h.id)
      [] h.kind = "fraxswap" -> Under(h.coins, h.id)

(* The value of the coins looked up so far.                                *)
Valued(h, legs, got) ==
    FoldFunction(LAMBDA x, y : x + y, 0, [i \in DOMAIN got |-> h.balance[legs[i][1]] * got[i].price])

(* A balancer pool quotes with the first coin that can be used.            *)
Usable(h, t, leg, result) ==
    result.price # 0 /\ h.balance[t] # 0 /\ h.balance[leg[1]] # 0

Complete(h, t, legs, got) ==
    \/ Len(got) = Len(legs)
    \/ /\ h.kind = "balancer" /\ t # h.lp /\ got # <<>>
       /\ Usable(h, t, legs[Len(got)], Last(got))

(* The value of t's side in terms of coin x, all weights being equal.      *)
PairQuote(h, t, x, price, liquidity) ==
    [price |-> (h.balance[x] * price) \div h.balance[t], liquidity |-> liquidity]

Share(h, legs, got) ==
    IF Valued(h, legs, got) = 0 \/ h.supply = 0 THEN NoQuote
    ELSE [price |-> Valued(h, legs, got) \div h.supply, liquidity |-> Valued(h, legs, got)]

StableQuote == [price |-> One, liquidity |-> 0]

ChainlinkQuote(h) == [price |-> h.ratio, liquidity |-> Priority]

GohmQuote(h, got) ==
    IF got[1].price = 0 THEN NoQuote
    ELSE [price |-> got[1].price * h.ratio, liquidity |-> Priority]

Erc4626Quote(h, got) ==
    IF got[1].price = 0 THEN NoQuote
    ELSE [price |-> got[1].price * h.ratio, liquidity |-> Priority]

RemapQuote(got) == IF got[1].price = 0 THEN NoQuote ELSE got[1]

CurveQuote(h, legs, got) == Share(h, legs, got)

FraxSwapQuote(h, legs, got) == Share(h, legs, got)

Univ2Quote(h, t, leg, result) ==
    IF ~Usable(h, t, leg, result) THEN NoQuote
    ELSE PairQuote(h, t, leg[1], result.price, h.balance[leg[1]] * result.price)

Univ3Quote(h, t, leg, result) ==
    IF result.price = 0 THEN NoQuote ELSE PairQuote(h, t, leg[1], result.price, h.depth)

KodiakQuote(h, t, leg, result) ==
    IF result.price = 0 THEN NoQuote ELSE PairQuote(h, t, leg[1], result.price, h.depth)

BalancerQuote(h, t, legs, got) ==
    LET leg == legs[Len(got)]
    IN IF t = h.lp THEN Share(h, legs, got)
       ELSE IF ~Usable(h, t, leg, Last(got)) THEN NoQuote
       ELSE PairQuote(h, t, leg[1], Last(got).price, 2 * h.balance[leg[1]] * Last(got).price)

(* getPrice of a handler whose lookups have answered got.                  *)
Quote(h, t, legs, got) ==
    CASE h.kind = "stable"    -> StableQuote
      [] h.kind = "chainlink" -> ChainlinkQuote(h)
      [] h.kind = "gohm"      -> GohmQuote(h, got)
      [] h.kind = "erc4626"   -> Erc4626Quote(h, got)
      [] h.kind = "remap"     -> RemapQuote(got)
      [] h.kind = "curve"     -> CurveQuote(h, legs, got)
      [] h.kind = "fraxswap"  -> FraxSwapQuote(h, legs, got)
      [] h.kind = "univ2"     -> Univ2Quote(h, t, legs[1], got[1])
      [] h.kind = "univ3"     -> Univ3Quote(h, t, legs[1], got[1])
      [] h.kind = "kodiak"    -> KodiakQuote(h, t, legs[1], got[1])
      [] h.kind = "balancer"  -> BalancerQuote(h, t, legs, got)

(* The weights of a balancer pool and the decimals of its token, read      *)
(* together, are one invariant read here; the reserves behind a kodiak     *)
(* share are a read at the block.                                          *)
PriceRead(h, t) == IF h.kind = "balancer" /\ t # h.lp THEN {<<"weights", h.id>>} ELSE {}
TotalRead(h) == IF h.kind = "kodiak" THEN {<<"reserves", h.pool>>} ELSE {}

(* getTotalValue and getUnitPrice, of the pools whose shares are tokens.   *)
TotalLegs(h, excluded) ==
    Under(SelectSeq(h.coins, LAMBDA x : x \notin excluded),
          IF h.kind = "balancer" THEN NoPool ELSE h.id)

HasTotal(h) == Active(h) /\ (h.kind = "kodiak" \/ (h.kind \in {"univ2", "balancer"} /\ h.known))

(* Only kodiak looks at the supply before it looks anything up.            *)
HasUnit(h) == HasTotal(h) /\ (h.kind = "kodiak" => h.supply # 0)

TotalValue(h, legs, got, read) ==
    Valued(h, legs, got) * IF h.kind = "kodiak" THEN read ELSE 1

-----------------------------------------------------------------------------
(* The router.                                                             *)

(* Mutant: one token in common is enough.                                  *)
SiblingByOneToken(h, pool) ==
    \E i \in DOMAIN Handlers :
        /\ Handlers[i].id = pool
        /\ ToSet(Handlers[i].tokens) \cap ToSet(h.tokens) # {}
        /\ Handlers[i].pool # h.pool

(* A pool of the same tokens other than the one the lookup comes from; a   *)
(* lookup from a pool outside liquidityHandlers has no siblings.           *)
Sibling(h, pool) ==
    \E i \in DOMAIN Handlers :
        /\ Handlers[i].id = pool
        /\ ToSet(Handlers[i].tokens) = ToSet(h.tokens)
        /\ Handlers[i].pool # h.pool

(* The handlers derivePrice asks for t; those without state say nothing.   *)
Candidates == [t \in Tokens, pool \in Pools |->
    IF t \in Inactive THEN <<>>
    ELSE SelectSeq(Handlers, LAMBDA h :
            Active(h) /\ t \in ToSet(h.tokens) /\ h.id # pool /\ ~Sibling(h, pool) /\ h.known)]

Asks(key) ==
    CASE key[1] = "price" -> Candidates[key[2], key[3]]
      [] key[1] = "total" -> IF HasTotal(HandlerOf(key[2])) THEN <<HandlerOf(key[2])>> ELSE <<>>
      [] key[1] = "unit"  -> IF HasUnit(HandlerOf(key[2])) THEN <<HandlerOf(key[2])>> ELSE <<>>

Frame(key) == [key |-> key, todo |-> Asks(key), best |-> NoQuote, got |-> <<>>, read |-> 0]

LegsOf(f) ==
    LET h == Head(f.todo)
    IN CASE f.key[1] = "price" -> Legs(h, f.key[2])
         [] f.key[1] = "total" -> TotalLegs(h, f.key[3])
         [] f.key[1] = "unit"  -> TotalLegs(h, {})

ReadOf(f) ==
    LET h == Head(f.todo)
    IN IF f.key[1] = "price" THEN PriceRead(h, f.key[2]) ELSE TotalRead(h)

Ready(f) == ReadOf(f) = {} \/ f.read # 0

IsComplete(f) ==
    IF f.key[1] = "price" THEN Complete(Head(f.todo), f.key[2], LegsOf(f), f.got)
    ELSE Len(f.got) = Len(LegsOf(f))

ResultOf(f) ==
    LET h == Head(f.todo)
        total == TotalValue(h, LegsOf(f), f.got, f.read)
    IN CASE f.key[1] = "price" -> Quote(h, f.key[2], LegsOf(f), f.got)
         [] f.key[1] = "total" -> [price |-> total, liquidity |-> 0]
         [] f.key[1] = "unit"  -> [price |-> IF h.supply = 0 THEN 0 ELSE total \div h.supply,
                                   liquidity |-> 0]

(* A later quote wins a tie.                                               *)
Better(old, new) == IF new = NoQuote \/ old.liquidity > new.liquidity THEN old ELSE new

(* The lookups under way and resolved, [stack, inFlight, store].           *)
Top(m) == Last(m.stack)
WithTop(m, f) == [m EXCEPT !.stack[Len(m.stack)] = f]
Push(m, key) ==
    [m EXCEPT !.stack = Append(@, Frame(key)), !.inFlight = @ \cup {key}]

(* Mutant: no guard against a lookup that meets itself.                    *)
MeetsNothing(m, key) == FALSE

MeetsItself(m, key) == key \in m.inFlight

(* cachedPricingLookup of the next leg.  Without the guard the promise of  *)
(* a lookup under way would be awaited: nothing moves.                     *)
LookUp(m) ==
    LET f   == Top(m)
        leg == LegsOf(f)[Len(f.got) + 1]
        key == PriceKey(leg[1], leg[2])
    IN CASE MeetsItself(m, key)   -> WithTop(m, [f EXCEPT !.got = Append(@, Zero)])
         [] key \in DOMAIN m.store -> WithTop(m, [f EXCEPT !.got = Append(@, m.store[key])])
         [] key \in m.inFlight    -> m
         [] OTHER                 -> Push(m, key)

(* The handler has what it needs: its quote is compared with the best.     *)
Compare(m) ==
    LET f == Top(m)
    IN WithTop(m, [f EXCEPT !.best = Better(@, ResultOf(f)), !.todo = Tail(@), !.got = <<>>, !.read = 0])

(* The lookup is resolved: memoised, and handed to the lookup below it.    *)
Resolve(m) ==
    LET f      == Top(m)
        result == IF f.best = NoQuote THEN Zero ELSE f.best
        rest   == Front(m.stack)
    IN [stack    |-> IF rest = <<>> THEN <<>>
                     ELSE [rest EXCEPT ![Len(rest)].got = Append(@, result)],
        inFlight |-> m.inFlight \ {f.key},
        store    |-> Upsert(m.store, f.key, result)]

AtRead(m) == m.stack # <<>> /\ Top(m).todo # <<>> /\ ~Ready(Top(m))

Step(m) ==
    IF m.stack = <<>> \/ AtRead(m) THEN m
    ELSE IF Top(m).todo = <<>> THEN Resolve(m)
    ELSE IF IsComplete(Top(m)) THEN Compare(m) ELSE LookUp(m)

(* From one contract read to the next, or to the end of the request, or to *)
(* where it awaits itself.  These steps touch only the snapshot's store,   *)
(* so that where they fall among the steps of others makes no difference.  *)
Advance(m) ==
    LET after[n \in 0 .. MaxSteps] ==
            IF n = 0 THEN m
            ELSE CHOOSE r \in {Step(x) : x \in {after[n - 1]}} : TRUE
    IN after[MaxSteps]

-----------------------------------------------------------------------------
Init ==
    /\ ReadsInit
    /\ lookups = [stack |-> <<>>, inFlight |-> {}, store |-> <<>>]
    /\ asked = {} /\ thrown = FALSE

(* A request of the snapshot, inside its withPricingCache.                 *)
Ask(key) ==
    /\ Idle(Pricer) /\ lookups.stack = <<>> /\ ~thrown
    /\ Cardinality(asked) < MaxAsked
    /\ key \notin DOMAIN lookups.store
    /\ lookups' = Advance(Push(lookups, key))
    /\ asked' = asked \cup {key}
    /\ UNCHANGED <<readVars, thrown>>

StartRead ==
    /\ AtRead(lookups)
    /\ \E what \in ReadOf(Top(lookups)) :
          ReadContract(Pricer, what) \/ ReadInvariantContract(Pricer, what)
    /\ UNCHANGED pricingVars

(* An error unwinds all lookups and ends the snapshot.                     *)
EndRead ==
    /\ Resume(Pricer)
    /\ \/ /\ ~Failed(awaits[Pricer])
          /\ lookups' = Advance(WithTop(lookups, [Top(lookups) EXCEPT !.read = Value(awaits[Pricer])]))
          /\ UNCHANGED <<asked, thrown>>
       \/ /\ Failed(awaits[Pricer])
          /\ lookups' = [stack |-> <<>>, inFlight |-> {}, store |-> <<>>]
          /\ thrown' = TRUE
          /\ UNCHANGED asked

PricerStep == StartRead \/ EndRead

OtherStep ==
    /\ \E c \in Caller \ {Pricer} :
          \/ EnterCache(c) \/ LeaveCache(c) \/ Resume(c)
          \/ /\ Cardinality({p \in DOMAIN promise : p[1] = c}) < MaxReads
             /\ \E what \in Reads : ReadContract(c, what) \/ ReadInvariantContract(c, what)
    /\ UNCHANGED pricingVars

Around ==
    /\ lookups.stack = <<>> /\ (EnterCache(Pricer) \/ LeaveCache(Pricer))
    /\ UNCHANGED pricingVars

Calls == (\E p \in DOMAIN promise : Attempt(p)) /\ UNCHANGED pricingVars

Next == Around \/ (\E key \in Requests : Ask(key)) \/ PricerStep \/ OtherStep \/ Calls

(* Awaited calls are settled: retries are bounded and requests time out.   *)
Spec == Init /\ [][Next]_vars /\ WF_vars(PricerStep) /\ WF_vars(Calls)

-----------------------------------------------------------------------------
(* Every lookup ends, though the handlers of a chain price each other in   *)
(* circles: none awaits a promise that waits for it (cachedPricingLookup). *)
LookupsEnd == (lookups.stack # <<>>) ~> (lookups.stack = <<>>)

(* The tokens that some chain of handlers ties to a stable coin or a feed. *)
GroundedBy(tokens) ==
    {t \in Tokens \ Inactive :
        \E i \in DOMAIN Candidates[t, NoPool] :
            LET h == Candidates[t, NoPool][i]
            IN Legs(h, t) = <<>> \/ \E j \in DOMAIN Legs(h, t) : Legs(h, t)[j][1] \in tokens}

GroundedIn[n \in Nat] == IF n = 0 THEN {} ELSE GroundedBy(GroundedIn[n - 1])

Grounded == GroundedIn[Len(Handlers)]

(* The guard's fallback never costs a token its price: what the snapshot   *)
(* asks has a price exactly when some chain of handlers grounds it, in     *)
(* whatever order the snapshot asks and whatever is already memoised.      *)
PricedWhenGrounded ==
    \A t \in Tokens :
        PriceKey(t, NoPool) \in DOMAIN lookups.store =>
            (lookups.store[PriceKey(t, NoPool)].price # 0 <=> t \in Grounded)
=============================================================================
