---------------------------- MODULE PriceHistory ----------------------------
(***************************************************************************)
(* What a swap is worth: the price history of a process of sui-ingest/swap *)
(* and the values computed from it and from earlier trades                 *)
(* (sui-ingest/swap/src/utils.ts, called by the handler of src/main.ts).   *)
(*                                                                         *)
(* The history is the chart of CoinMarketCap for the listed tokens, all of *)
(* which are fetched for the same times, so that one sequence of times     *)
(* stands for them.  It is module state: with both REALTIME_ONLY and       *)
(* BACKFILL_ONLY set, the two loops of a process share it.  Times are in   *)
(* minutes, and a day is as long as Day says.                              *)
(***************************************************************************)
EXTENDS Integers, Sequences, FiniteSets, SequencesExt

CONSTANTS
  Calls,      \* the handler calls there may be: sets of [time, block, from, to]
  Modes,      \* [loops |-> who calls the handler, state |-> env STATE]
  Listed,     \* the keys of baseTokenMappingCMC
  Day,        \* oneDayInSeconds
  CacheTime,  \* for how long a history is kept
  Granule,    \* the time between two points of the chart
  MaxCalls,   \* bound: calls of one behaviour
  MaxFailed   \* bound: calls that throw, and restarts, of one behaviour

ASSUME PriceAssumption ==
  /\ {Day, CacheTime, Granule} \subseteq Nat \ {0} /\ Granule <= Day
  /\ {MaxCalls, MaxFailed} \subseteq Nat
  /\ \A events \in Calls : events # {} /\ IsFiniteSet(events)
  /\ \A events \in Calls : \A e \in events :
        /\ {e.time, e.block} \subseteq Nat
        /\ e.time >= CacheTime /\ e.time >= Granule \* no event is as old as the epoch

VARIABLES
  mode,         \* how the process was configured
  history,      \* tokenPriceCache: the times of the points, in their order
  lastestPrice, \* end of the call that fetched it
  call,         \* the call each loop is in
  saved,        \* the trades in the table
  calls, misses \* the bounds' counters

priceVars == <<mode, history, lastestPrice, call, saved, calls, misses>>

-----------------------------------------------------------------------------
(***************************************************************************)
(* The chart and the search.                                               *)
(***************************************************************************)
Begin(events) == CHOOSE t \in {e.time : e \in events} : \A e \in events : t <= e.time
End(events)   == CHOOSE t \in {e.time : e \in events} : \A e \in events : t >= e.time

\* What one turn of the loop asks for: the day before its time or, for a
\* backfill, the ten days.  The points, multiples of Granule, come as an object
\* whose keys are numbers and whose order is theirs.
Turn(now) ==
  LET days  == IF mode.state = "backfill" THEN 10 ELSE 1
      first == now - days * Day - 1
      below == IF first <= 0 THEN 0 ELSE (first - 1) \div Granule
  IN [k \in 1 .. (now \div Granule) - below |-> (below + k) * Granule]

\* The loop goes back ten days a turn, and each turn's points come after
\* those of the turn before, which are later.
GetCMCPricing(begin, end) ==
  FlattenSeq([k \in 1 .. 1 + (end - begin) \div (10 * Day) |->
                Turn(end - (k - 1) * 10 * Day)])

Distance(s, t) == IF s < t THEN t - s ELSE s - t

\* Between which points the nearest one still may be, and the best so far,
\* which is 0 as long as none was looked at.
SearchWindow(data) == [left : 1 .. Len(data) + 1, right : 0 .. Len(data), near : 0 .. Len(data)]

Middle(w) == (w.left + w.right) \div 2

\* One turn of the search: to the left or to the right of the middle.
Narrowed(w, time, data) ==
  LET mid  == Middle(w)
      best == IF w.near = 0 \/ Distance(data[mid], time) < Distance(data[w.near], time)
              THEN mid ELSE w.near
  IN IF data[mid] < time THEN [w EXCEPT !.left = mid + 1, !.near = best]
                         ELSE [w EXCEPT !.right = mid - 1, !.near = best]

\* Binary search; 0 when there is no point.
FindNearestPoint(time, data) ==
  LET search[w \in SearchWindow(data)] ==
        IF w.left > w.right THEN w.near
        ELSE IF data[Middle(w)] = time THEN Middle(w)
        ELSE search[Narrowed(w, time, data)]
  IN search[[left |-> 1, right |-> Len(data), near |-> 0]]

-----------------------------------------------------------------------------
(***************************************************************************)
(* The value of a trade.                                                   *)
(***************************************************************************)
Recent(height) == {t \in saved : t.block <= height /\ t.block > height - 5}

\* The trades a token's price is taken from: where it was bought or else
\* where it was sold; only trades with a value.
Quotes(e) ==
  LET bought == {t \in Recent(e.block) : t.to = e.to /\ t.usd}
      sold   == {t \in Recent(e.block) : t.from = e.from /\ t.usd}
  IN IF bought # {} THEN bought ELSE sold

\* usd tells a value from 0.  at and of are history: the time of the point
\* used, and the blocks of the listed trades that the value goes back to.
Valued(e, prepared) ==
  LET point  == FindNearestPoint(e.time, history)
      quotes == Quotes(e)
      trade(usd, at, of) ==
        [time |-> e.time, block |-> e.block, from |-> e.from, to |-> e.to,
         usd |-> usd, at |-> at, of |-> of, latest |-> lastestPrice,
         prepared |-> prepared, sorted |-> IsSorted(history, <)]
  IN IF {e.from, e.to} \cap Listed # {}
     THEN IF point = 0 THEN trade(FALSE, {}, {})
          ELSE trade(TRUE, {history[point]}, {e.block})
     ELSE trade(quotes # {}, {}, UNION {t.of : t \in quotes})

-----------------------------------------------------------------------------
(***************************************************************************)
(* The handler.                                                            *)
(***************************************************************************)
NoCall == [step |-> "none", todo |-> {}, done |-> {}, prepared |-> 0]

Calling(h, c) == call' = [call EXCEPT ![h] = c]

\* Variant: what was fetched once is kept.
FreshForever(end) == lastestPrice > 0

\* "end - lastestPrice < 2 * 60 * 1000"
Fresh(end) == end - lastestPrice < CacheTime

PreparePrices(h, events) ==
  /\ call[h] = NoCall /\ calls < MaxCalls
  /\ calls' = calls + 1
  /\ Calling(h, [step |-> IF Fresh(End(events)) THEN "valuing" ELSE "fetching",
                 todo |-> events, done |-> {}, prepared |-> lastestPrice])
  /\ UNCHANGED <<mode, history, lastestPrice, saved, misses>>

\* All charts have arrived.
Prepared(h) ==
  LET end == End(call[h].todo)
  IN /\ call[h].step = "fetching"
     /\ history' = GetCMCPricing(Begin(call[h].todo), end)
     /\ lastestPrice' = end
     /\ Calling(h, [call[h] EXCEPT !.step = "valuing", !.prepared = end])
     /\ UNCHANGED <<mode, saved, calls, misses>>

\* The trades of a call are valued each when its pool is known, in any order.
GetTradeValue(h, e) ==
  /\ call[h].step = "valuing" /\ e \in call[h].todo
  /\ Calling(h, [call[h] EXCEPT !.todo = @ \ {e},
                                !.done = @ \cup {Valued(e, call[h].prepared)}])
  /\ UNCHANGED <<mode, history, lastestPrice, saved, calls, misses>>

CreateMany(h) ==
  /\ call[h].step = "valuing" /\ call[h].todo = {}
  /\ saved' = saved \cup call[h].done
  /\ Calling(h, NoCall)
  /\ UNCHANGED <<mode, history, lastestPrice, calls, misses>>

\* One request of one chart fails, or the table does: the handler throws.
CallThrows(h) ==
  /\ call[h] # NoCall /\ misses < MaxFailed
  /\ misses' = misses + 1
  /\ Calling(h, NoCall)
  /\ UNCHANGED <<mode, history, lastestPrice, saved, calls>>

\* The process ends and is started again, with an empty history.
RestartPrices ==
  /\ misses < MaxFailed
  /\ misses' = misses + 1
  /\ history' = <<>> /\ lastestPrice' = 0
  /\ call' = [h \in mode.loops |-> NoCall]
  /\ UNCHANGED <<mode, saved, calls>>

-----------------------------------------------------------------------------
PriceInit ==
  /\ mode \in Modes
  /\ history = <<>> /\ lastestPrice = 0
  /\ call = [h \in mode.loops |-> NoCall]
  /\ saved = {} /\ calls = 0 /\ misses = 0

PriceNext ==
  \/ \E h \in mode.loops :
       \/ \E events \in Calls : PreparePrices(h, events)
       \/ Prepared(h)
       \/ \E e \in call[h].todo : GetTradeValue(h, e)
       \/ CreateMany(h)
       \/ CallThrows(h)
  \/ RestartPrices

PriceSpec == PriceInit /\ [][PriceNext]_priceVars

-----------------------------------------------------------------------------
(***************************************************************************)
(* Properties.                                                             *)
(***************************************************************************)
Trades == saved \cup UNION {call[h].done : h \in mode.loops}

PriceTypeOK ==
  /\ mode \in Modes
  /\ history \in Seq(Nat) /\ lastestPrice \in Nat
  /\ \A h \in mode.loops :
       /\ call[h].step \in {"none", "fetching", "valuing"}
       /\ \E events \in Calls \cup {{}} : call[h].todo \subseteq events
  /\ \A t \in Trades : t.usd \in BOOLEAN /\ t.at \subseteq Nat /\ t.of \subseteq Nat
  /\ calls \in 0 .. MaxCalls /\ misses \in 0 .. MaxFailed

(***************************************************************************)
(* A trade of a listed token is valued with a price of its own time, give  *)
(* or take the age of the cache and the gap between two points.  Except    *)
(* where the code does not see to it: the other loop replaced the history  *)
(* meanwhile, the trade is more than a day older than a history that the   *)
(* code considers fresh, or the call spans more than ten days, whose turns *)
(* follow each other backwards, and the search needs them ascending.       *)
(***************************************************************************)
PriceOfItsTime ==
  \A t \in Trades :
     /\ {t.from, t.to} \cap Listed # {}
     /\ t.latest = t.prepared /\ t.sorted /\ t.time >= t.latest - Day
     => /\ t.usd
        /\ \A p \in t.at : Distance(p, t.time) < CacheTime + Granule

(***************************************************************************)
(* The value of a trade between unlisted tokens goes back, over any number *)
(* of trades, to trades of listed tokens in its own block or earlier ones, *)
(* whichever loop saved them and in whichever order.                       *)
(***************************************************************************)
ValueFromEarlier ==
  \A t \in Trades : /\ \A b \in t.of : b <= t.block
                    /\ t.usd <=> t.of # {}

PricesJustified == PriceOfItsTime /\ ValueFromEarlier

=============================================================================
