---------------------------- MODULE SimulationLedger ----------------------------
(***************************************************************************)
(* The order ledger of one simulation session (simulation.py): what        *)
(* _validate_order_request lets the user track and the model track buy and *)
(* sell while the session clock is moved by the user and by the tick.      *)
(*                                                                         *)
(* The code keeps the fills and sums them again on each request: those up  *)
(* to the last point of the replay for holdings and cash, those before the *)
(* session clock for the sellable quantity.  So does this module; `fills'  *)
(* is the list of fills in the order in which they were placed.            *)
(*                                                                         *)
(* The requests of one owner are serialised by the database write lock and *)
(* see the committed row.  The background tick loads the session row       *)
(* before it takes the lock and steps from the values it loaded, so that   *)
(* it may set the clock back below what a user step has committed.         *)
(*                                                                         *)
(* Which of these calls a session's status allows is the subject of        *)
(* SimulationWorkspace.  Money is in fen (1/100 CNY), quantities in board  *)
(* lots of 100 shares, times in slots of which DayLength make a day.       *)
(***************************************************************************)
EXTENDS Integers, Sequences, FiniteSets, FiniteSetsExt

CONSTANTS
    Symbols,        \* stocks with market data
    InitialCash,    \* the amounts a user may configure as initial cash
    LotPrices,      \* prices of one lot at which an order can fill
    OrderLots,      \* quantities of one order
    DayLength,      \* moments of a calendar day
    MaxTime,        \* bound: the last moment
    MaxOrders       \* bound: orders of a session, both tracks together

ASSUME LedgerAssumption ==
    /\ InitialCash \subseteq Nat \ {0}
    /\ LotPrices \subseteq Nat \ {0}
    /\ OrderLots \subseteq Nat \ {0}
    /\ DayLength \in Nat \ {0}
    /\ MaxTime \in Nat /\ MaxOrders \in Nat

Tracks == {"manual", "model"}
Time == 0..MaxTime
Day(at) == at \div DayLength

VARIABLES
    fills,          \* the fills of both portfolios, in the order of placement
    pool,           \* watch symbols of the session
    startingCash,   \* portfolio_payload["starting_cash"], equal on both tracks
    clock,          \* last_data_time of the committed row
    stepped,        \* current_step > 0
    tick,           \* the session row the background tick has loaded
    overlooked,     \* history: fills later than the row a tick has stepped from
    edited          \* history: pool or cash changed after the first order or
                    \* under a tick that had loaded the row

vars == <<fills, pool, startingCash, clock, stepped, tick, overlooked, edited>>

Fill == [track : Tracks, symbol : Symbols, side : {"buy", "sell"},
         quantity : Nat \ {0}, flow : Int, at : Time]

Idle == [pc |-> "idle"]

LoadedRow == [pc : {"loaded"}, clock : Time, pool : SUBSET Symbols]

---------------------------------------------------------------------------
(* Sums over the fills *)

\* The fills of a track in one stock on one side, and in a set of stocks.
Of(t, s, side) == {i \in DOMAIN fills : /\ fills[i].track = t
                                        /\ fills[i].symbol = s
                                        /\ fills[i].side = side}

Within(t, P) == {i \in DOMAIN fills : fills[i].track = t /\ fills[i].symbol \in P}

UpTo(I, point) == {i \in I : fills[i].at <= point}
Before(I, now) == {i \in I : fills[i].at < now}
OnEarlierDays(I, now) == {i \in I : Day(fills[i].at) < Day(now)}

Lots(I) == MapThenSumSet(LAMBDA i : fills[i].quantity, I)
Money(I) == MapThenSumSet(LAMBDA i : fills[i].flow, I)

\* _portfolio_payload replays the fills up to its last timeline point.
Held(t, s, point) ==
    Lots(UpTo(Of(t, s, "buy"), point)) - Lots(UpTo(Of(t, s, "sell"), point))

\* The replay drops the orders of stocks outside the watch pool.
AvailableCash(t, P, point) == startingCash + Money(UpTo(Within(t, P), point))

AtLeastZero(n) == IF n > 0 THEN n ELSE 0

\* Mutant of Sellable: the day of a purchase is not compared.
MutantSellable(t, s, now) ==
    AtLeastZero(Lots(Before(Of(t, s, "buy"), now)) - Lots(Before(Of(t, s, "sell"), now)))

\* _available_sell_quantity: fills with filled_at < requested_at, where a
\* buy counts when its day has passed; never below zero.
Sellable(t, s, now) ==
    AtLeastZero(Lots(OnEarlierDays(Before(Of(t, s, "buy"), now), now))
                - Lots(Before(Of(t, s, "sell"), now)))

---------------------------------------------------------------------------
(* Money *)

\* _commission and _sell_stamp_tax: 0.03% with a minimum of 5 CNY, and 0.05%,
\* rounded to the fen.
Commission(amount) ==
    LET rate == (3 * amount + 5000) \div 10000
    IN  IF rate > 500 THEN rate ELSE 500

StampTax(amount) == (5 * amount + 5000) \div 10000

BuyCost(q, price) == q * price + Commission(q * price)

SellProceeds(q, price) ==
    q * price - Commission(q * price) - StampTax(q * price)

---------------------------------------------------------------------------
(* _validate_order_request: the conditions under which an order is filled.  *)
(* Board, price-band and limit-bar refusals leave the state alone and are   *)
(* the absence of the action.  P is the watch pool and "point" the last     *)
(* timeline point of the summary the order is checked against.              *)

\* Mutant of AcceptsBuy: the commission is left out of the estimate.
MutantAcceptsBuy(t, P, point, q, price) == q * price <= AvailableCash(t, P, point)

AcceptsBuy(t, P, point, q, price) == BuyCost(q, price) <= AvailableCash(t, P, point)

\* Mutants of AcceptsSell: without the holding check, without the T+1 check.
MutantAcceptsSellUnheld(t, s, P, point, now, q) == s \in P /\ q <= Sellable(t, s, now)

MutantAcceptsSellUnsettled(t, s, P, point, now, q) == s \in P /\ q <= Held(t, s, point)

AcceptsSell(t, s, P, point, now, q) ==
    /\ s \in P
    /\ q <= Held(t, s, point)
    /\ q <= Sellable(t, s, now)

\* Mutant of NewFill: a sale is stored with a negative quantity.
MutantNewFill(t, s, side, q, price, now) ==
    [track |-> t, symbol |-> s, side |-> side,
     quantity |-> IF side = "buy" THEN q ELSE -q,
     flow |-> IF side = "buy" THEN -BuyCost(q, price) ELSE SellProceeds(q, price),
     at |-> now]

\* _create_fill_for_order: filled at once, at the time of the request.
NewFill(t, s, side, q, price, now) ==
    [track |-> t, symbol |-> s, side |-> side, quantity |-> q,
     flow |-> IF side = "buy" THEN -BuyCost(q, price) ELSE SellProceeds(q, price),
     at |-> now]

Place(t, s, side, q, price, now) ==
    /\ Len(fills) < MaxOrders
    /\ fills' = Append(fills, NewFill(t, s, side, q, price, now))

---------------------------------------------------------------------------
(* Operations *)

Init ==
    /\ fills = <<>>
    /\ pool \in (SUBSET Symbols) \ {{}}
    /\ startingCash \in InitialCash
    /\ clock = 0
    /\ stepped = FALSE
    /\ tick = Idle
    /\ overlooked = {}
    /\ edited = FALSE

\* _portfolio_context: the last timeline point is the newest bar of the watched
\* stocks, or the clock of the session row if that is later.  When bars arrive
\* is left open.
ReplayPoints(rowClock) == rowClock..MaxTime

\* place_manual_order, side "buy": any stock with a latest bar, in the watch
\* pool or not.
ManualBuy(s, q, price) ==
    /\ \E point \in ReplayPoints(clock) : AcceptsBuy("manual", pool, point, q, price)
    /\ Place("manual", s, "buy", q, price, clock)
    /\ UNCHANGED <<pool, startingCash, clock, stepped, tick, overlooked, edited>>

\* place_manual_order, side "sell".
ManualSell(s, q, price) ==
    /\ \E point \in ReplayPoints(clock) :
           AcceptsSell("manual", s, pool, point, clock, q)
    /\ Place("manual", s, "sell", q, price, clock)
    /\ UNCHANGED <<pool, startingCash, clock, stepped, tick, overlooked, edited>>

\* The model's part of step_simulation_session, which takes the summary from
\* the row before it moves its clock to "now": no order (no advice, or automatic
\* execution switched off), or the first advice, bought or sold.  A refusal
\* raises and the whole step is rolled back.
ModelDecides(P, rowClock, now) ==
    \/ fills' = fills
    \/ \E s \in P, q \in OrderLots, price \in LotPrices, point \in ReplayPoints(rowClock) :
           /\ AcceptsBuy("model", P, point, q, price)
           /\ Place("model", s, "buy", q, price, now)
    \/ \E s \in P, q \in OrderLots, price \in LotPrices, point \in ReplayPoints(rowClock) :
           /\ AcceptsSell("model", s, P, point, now, q)
           /\ Place("model", s, "sell", q, price, now)

\* step_simulation_session for a user: the clock moves on from the committed row.
UserSteps(now) ==
    /\ now > clock
    /\ ModelDecides(pool, clock, now)
    /\ clock' = now
    /\ stepped' = TRUE
    /\ UNCHANGED <<pool, startingCash, tick, overlooked, edited>>

\* advance_running_simulation_session, up to the write lock: the tick has loaded
\* the session row.
TickLoads ==
    /\ tick = Idle
    /\ tick' = [pc |-> "loaded", clock |-> clock, pool |-> pool]
    /\ UNCHANGED <<fills, pool, startingCash, clock, stepped, overlooked, edited>>

\* advance_running_simulation_session, from the write lock on: the clock becomes
\* the market time, which is later than the clock of the row the tick loaded and
\* perhaps not than the committed one.  Orders and cash are read under the lock.
\* A pool that follows the watchlist is read again, a custom one is the row's.
TickSteps(now) ==
    /\ tick # Idle
    /\ now > tick.clock
    /\ \E P \in {tick.pool, pool} : ModelDecides(P, tick.clock, now)
    /\ clock' = now
    /\ stepped' = TRUE
    /\ tick' = Idle
    /\ overlooked' = overlooked \union {i \in DOMAIN fills : fills[i].at > tick.clock}
    /\ UNCHANGED <<pool, startingCash, edited>>

\* The tick finds no newer market data, or its transaction is rolled back.
TickEnds ==
    /\ tick # Idle
    /\ tick' = Idle
    /\ UNCHANGED <<fills, pool, startingCash, clock, stepped, overlooked, edited>>

\* update_simulation_config.  (The watchlist sync of _watch_symbols also changes
\* the pool, with the cash left alone: the case newCash = startingCash.)
UpdateConfig(newPool, newCash) ==
    /\ newPool # {}
    /\ stepped => newCash = startingCash
    /\ pool' = newPool
    /\ startingCash' = newCash
    /\ edited' = (edited \/ /\ fills # <<>> \/ tick # Idle
                            /\ <<newPool, newCash>> # <<pool, startingCash>>)
    /\ UNCHANGED <<fills, clock, stepped, tick, overlooked>>

Next ==
    \/ \E s \in Symbols, q \in OrderLots, price \in LotPrices :
           ManualBuy(s, q, price) \/ ManualSell(s, q, price)
    \/ \E now \in Time : UserSteps(now) \/ TickSteps(now)
    \/ TickLoads
    \/ TickEnds
    \/ \E newPool \in SUBSET Symbols, newCash \in InitialCash :
           UpdateConfig(newPool, newCash)

Spec == Init /\ [][Next]_vars

---------------------------------------------------------------------------
(* Properties *)

TypeOK ==
    /\ fills \in Seq(Fill)
    /\ Len(fills) <= MaxOrders
    /\ pool \in SUBSET Symbols
    /\ startingCash \in InitialCash
    /\ clock \in Time
    /\ stepped \in BOOLEAN
    /\ tick \in {Idle} \union LoadedRow
    /\ overlooked \in SUBSET (DOMAIN fills)
    /\ edited \in BOOLEAN

Sales(t, s) == Of(t, s, "sell")
Purchases(t) == {i \in DOMAIN fills : fills[i].track = t /\ fills[i].side = "buy"}

\* A track never sells more of a stock than it has bought: at one clock value
\* the holding check of _validate_order_request is the only barrier.  Unless a
\* late tick has stepped from a row older than one of the sales: a clock it sets
\* back takes that sale out of the replay and of the sellable quantity.
NeverOversold ==
    \A t \in Tracks, s \in Symbols :
        Sales(t, s) \intersect overlooked = {}
            => Lots(Sales(t, s)) <= Lots(Of(t, s, "buy"))

\* A position respects T+1 when, at each of its sales, everything sold so far
\* had been bought on an earlier day.
Settled(t, s) ==
    \A j \in Sales(t, s) :
        Lots(UpTo(Sales(t, s), fills[j].at))
            <= Lots(OnEarlierDays(Of(t, s, "buy"), fills[j].at))

\* Each sale of the position was placed at a later time than the one before it.
SalesAdvance(t, s) ==
    \A i, j \in Sales(t, s) : i < j => fills[i].at < fills[j].at

\* T+1 can be broken only by a sale placed at the time of an earlier sale of the
\* position, or before it: both are invisible to _available_sell_quantity.
SettledIfSalesAdvance ==
    \A t \in Tracks, s \in Symbols : SalesAdvance(t, s) => Settled(t, s)

\* T+1 holds on the model track, one order per step, as long as no late tick has
\* stepped from a row older than one of the position's sales.
ModelTrackSettled ==
    \A s \in Symbols :
        Sales("model", s) \intersect overlooked = {} => Settled("model", s)

\* The fills of a track in the watched stocks never cost more than its cash,
\* fees and taxes included, at prices whose sales yield more than their fees:
\* as long as pool and initial cash stay as they were when trading began, and
\* no late tick has stepped from a row older than one of the purchases, which
\* then are spent a second time.
CashCoversOrders ==
    ~edited => \A t \in Tracks :
        Purchases(t) \intersect overlooked = {}
            => startingCash + Money(Within(t, pool)) >= 0

\* README.md:12: the simulation supports the T+1 sellable constraint.  What the
\* user's track sold had been bought on an earlier day.
TPlusOne == \A s \in Symbols : Settled("manual", s)

\* simulation.py:1508: an order that the available cash does not cover is
\* refused.  Over all its orders no track has spent more than it owned.
NoOverdraft ==
    \A t \in Tracks : startingCash + Money(Within(t, Symbols)) >= 0
================================================================================
