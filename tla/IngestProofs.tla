---------------------------- MODULE IngestProofs ----------------------------
(***************************************************************************)
(* Theorems about the handlers of sui-ingest for any topic, batch size,    *)
(* set of pools, tokens and tasks, and number of faults: what the live     *)
(* process of defi does to the events of its topic (DefiIngest), what the  *)
(* handlers of both processes know about pools and tokens                  *)
(* (TokenPoolCache), and what the server of defi answers (PositionServer). *)
(***************************************************************************)
EXTENDS MCIngest, SequenceTheorems, FiniteSetTheorems, TLAPS

-----------------------------------------------------------------------------
(***************************************************************************)
(* The live process of defi.                                               *)
(***************************************************************************)
\* What price_feeds may have said: for some coins their decimals or a guess.
PossibleQuotes ==
  {quotes \in UNION {[found -> Nat] : found \in SUBSET Coin} :
     \A c \in DOMAIN quotes : quotes[c] = CoinDecimals[c] \/ <<c, quotes[c]>> \in guesses}

\* What an event may have in the tables: what its handler makes of it with the
\* quotes and the decimals of some moment, once or several times.
PossibleRows(n) ==
  {Process(topic, n, quotes, decimals) : quotes \in PossibleQuotes, decimals \in PoolDecimals}

DefiTyped ==
  /\ topic \in Topics
  /\ priced \in PossibleQuotes /\ guesses \subseteq Coin \X {9, 18}
  /\ DOMAIN saved = DOMAIN topic
  /\ \A n \in DOMAIN topic : saved[n] \in Seq(PossibleRows(n))
  /\ lost \subseteq DOMAIN topic
  /\ losses \in Nat /\ losses <= MaxLoss
  /\ phase \in {"down", "polling", "preparing", "handling"}
  /\ acked \in Nat /\ resolved \in Nat /\ reached \in Nat
  /\ pending \subseteq Nat
  /\ replays \in Nat

\* The offsets are in order, and pending has nothing that is not in hand.
DefiOrdered ==
  /\ acked <= resolved /\ resolved <= reached /\ reached <= Len(topic)
  /\ \A n \in pending : resolved < n /\ n <= reached
  /\ phase \in {"down", "polling"} => pending = {} /\ reached = resolved
  /\ replays <= losses

\* The event is in the tables, or was left out for a reason.
Delivered(n) == saved[n] # <<>> \/ n \in lost \/ Early(n)

\* What the process has been given and does not have in hand is delivered.
ReachedDelivered == \A n \in 1 .. reached : n \in pending \/ Delivered(n)

\* Before its handler has ended an event has no copy that a replay does not
\* explain.
CopiesCounted ==
  \A n \in DOMAIN topic :
     /\ Len(saved[n]) <= 1 + replays
     /\ n \in pending \/ reached < n => Len(saved[n]) <= replays
     /\ phase = "preparing" /\ resolved < n => Len(saved[n]) <= replays

DefiInv == DefiTyped /\ DefiOrdered /\ ReachedDelivered /\ CopiesCounted

-----------------------------------------------------------------------------
\* The lengths of the sequences that the process works with.
LEMMA DefiLengths ==
  ASSUME DefiTyped
  PROVE  /\ Len(topic) \in Nat
         /\ DOMAIN topic = 1 .. Len(topic)
         /\ \A n \in DOMAIN topic : /\ Len(saved[n]) \in Nat
                                    /\ saved[n] = <<>> => Len(saved[n]) = 0
                                    /\ Len(saved[n]) = 0 => saved[n] = <<>>
  <1>1. topic \in Seq(DefiEvent)
    BY DefiAssumption DEF DefiTyped
  <1>2. Len(topic) \in Nat /\ DOMAIN topic = 1 .. Len(topic)
    BY <1>1
  <1>3. ASSUME NEW n \in DOMAIN topic
        PROVE  /\ Len(saved[n]) \in Nat
               /\ saved[n] = <<>> => Len(saved[n]) = 0
               /\ Len(saved[n]) = 0 => saved[n] = <<>>
    <2>1. saved[n] \in Seq(PossibleRows(n))
      BY DEF DefiTyped
    <2> HIDE DEF PossibleRows
    <2>2. QED BY <2>1
  <1>4. QED BY <1>2, <1>3

\* Quotes, decimals and rows that were possible are so when more is guessed.
LEMMA RowsStay ==
  ASSUME topic' = topic, guesses \subseteq guesses'
  PROVE  PossibleQuotes \subseteq PossibleQuotes' /\ \A n : PossibleRows(n) \subseteq PossibleRows(n)'
  <1>1. PossibleQuotes \subseteq PossibleQuotes'
    BY DEF PossibleQuotes
  <1>2. ASSUME NEW decimals \in PoolDecimals
        PROVE  decimals \in PoolDecimals'
    <2>1. \A c : DecimalsTold(c) \subseteq DecimalsTold(c)'
      BY DEF DecimalsTold
    <2>2. \A c \in Coin : decimals[c] \in DecimalsTold(c)'
      BY <2>1 DEF PoolDecimals
    <2>3. decimals = [c \in Coin |-> decimals[c]]
      BY DEF PoolDecimals
    <2>4. decimals \in [Coin -> UNION {DecimalsTold(c)' : c \in Coin}]
      BY <2>2, <2>3
    <2>5. QED BY <2>2, <2>4 DEF PoolDecimals
  <1>3. QED BY <1>1, <1>2 DEF PossibleRows

LEMMA SavedStays ==
  ASSUME DefiTyped, topic' = topic, saved' = saved, guesses \subseteq guesses'
  PROVE  \A m \in DOMAIN topic' : saved'[m] \in Seq(PossibleRows(m)')
  <1> SUFFICES ASSUME NEW m \in DOMAIN topic PROVE saved[m] \in Seq(PossibleRows(m)')
    OBVIOUS
  <1>1. saved[m] \in Seq(PossibleRows(m)) /\ PossibleRows(m) \subseteq PossibleRows(m)'
    BY RowsStay DEF DefiTyped
  <1> HIDE DEF PossibleRows
  <1>2. QED BY <1>1

\* What a handler is told now is possible.
LEMMA RowsPossible ==
  ASSUME DefiTyped, NEW n
  PROVE  RowsOf(n) \subseteq PossibleRows(n)
  <1>1. ASSUME NEW quotes \in Quotes PROVE quotes \in PossibleQuotes
    <2>1. PICK found \in SUBSET DOMAIN priced : quotes = [c \in found |-> priced[c]]
      BY DEF Quotes
    <2>2. /\ DOMAIN priced \in SUBSET Coin
          /\ \A c \in DOMAIN priced :
                priced[c] \in Nat /\ (priced[c] = CoinDecimals[c] \/ <<c, priced[c]>> \in guesses)
      BY DEF DefiTyped, PossibleQuotes
    <2>3. quotes \in [found -> Nat] /\ found \in SUBSET Coin
      BY <2>1, <2>2
    <2>4. QED BY <2>1, <2>2, <2>3 DEF PossibleQuotes
  <1>2. QED BY <1>1 DEF RowsOf, PossibleRows

\* A handler is told something.
LEMMA SomeRows == \A n : \E rows : rows \in RowsOf(n)
  <1>1. [c \in {} |-> priced[c]] \in Quotes
    BY DEF Quotes
  <1>2. [c \in Coin |-> OrNine(CoinDecimals[c])] \in PoolDecimals
    <2>1. \A c \in Coin : OrNine(CoinDecimals[c]) \in DecimalsTold(c)
      BY DEF DecimalsTold
    <2>2. QED BY <2>1 DEF PoolDecimals
  <1>3. ASSUME NEW n PROVE \E rows : rows \in RowsOf(n)
    <2> DEFINE quotes   == [c \in {} |-> priced[c]]
               decimals == [c \in Coin |-> OrNine(CoinDecimals[c])]
    <2>1. quotes \in Quotes /\ decimals \in PoolDecimals
      BY <1>1, <1>2
    <2> HIDE DEF quotes, decimals
    <2>2. Process(topic, n, quotes, decimals) \in RowsOf(n)
      BY <2>1 DEF RowsOf
    <2>3. QED BY <2>2
  <1>4. QED BY <1>3

\* In the beginning nothing is saved.
LEMMA DefiInitInv == DefiInit => DefiInv
  <1> SUFFICES ASSUME DefiInit PROVE DefiInv
    OBVIOUS
  <1>1. topic \in Seq(DefiEvent) /\ Len(topic) \in Nat /\ MaxLoss \in Nat
        /\ priced \in PossibleQuotes
    <2>1. priced \in [{} -> Nat] /\ DOMAIN priced = {} /\ {} \in SUBSET Coin
      BY DEF DefiInit
    <2>2. priced \in PossibleQuotes
      BY <2>1 DEF PossibleQuotes
    <2>3. QED BY <2>2, DefiAssumption DEF DefiInit
  <1>2. \A n \in DOMAIN topic : saved[n] = <<>> /\ Len(saved[n]) = 0
    BY DEF DefiInit
  <1>3. \A n \in DOMAIN topic : saved[n] \in Seq(PossibleRows(n))
    <2> SUFFICES ASSUME NEW n \in DOMAIN topic PROVE saved[n] \in Seq(PossibleRows(n))
      OBVIOUS
    <2>1. saved[n] = <<>>
      BY <1>2
    <2> HIDE DEF PossibleRows
    <2>2. QED BY <2>1
  <1>4. DefiTyped
    BY <1>1, <1>3 DEF DefiInit, DefiTyped
  <1>5. DefiOrdered /\ ReachedDelivered
    BY <1>1 DEF DefiInit, DefiOrdered, ReachedDelivered
  <1>6. CopiesCounted
    BY <1>2 DEF DefiInit, CopiesCounted
  <1>7. QED BY <1>4, <1>5, <1>6 DEF DefiInv

\* A handler may save what it makes of its event, and leaves the rest alone.
LEMMA HandledInv ==
  ASSUME DefiInv, NEW n \in pending, phase = "handling", NEW rows \in RowsOf(n),
         \/ saved' = saved /\ lost' = lost \cup {n}
         \/ /\ saved' = [saved EXCEPT ![n] = Append(@, rows)]
            /\ lost' \in {lost, lost \cup {n}},
         pending' = pending \ {n},
         losses' = losses \/ Lose,
         UNCHANGED <<topic, priced, guesses, phase, acked, resolved, reached, replays>>
  PROVE  DefiInv'
  <1>1. /\ DefiTyped /\ DefiOrdered /\ ReachedDelivered /\ CopiesCounted
        /\ MaxLoss \in Nat
    BY DefiAssumption DEF DefiInv
  <1>2. /\ Len(topic) \in Nat /\ DOMAIN topic = 1 .. Len(topic)
        /\ \A m \in DOMAIN topic : /\ Len(saved[m]) \in Nat
                                   /\ saved[m] = <<>> => Len(saved[m]) = 0
    BY <1>1, DefiLengths
  <1>3. n \in DOMAIN topic /\ n <= reached /\ resolved < n
    BY <1>1, <1>2 DEF DefiTyped, DefiOrdered
  <1>4. rows \in PossibleRows(n)
    BY <1>1, RowsPossible
  <1>5. DOMAIN saved' = DOMAIN topic /\ \A m \in DOMAIN topic : m # n => saved'[m] = saved[m]
    BY <1>1 DEF DefiTyped
  <1>6. saved'[n] = saved[n] \/ saved'[n] = Append(saved[n], rows)
    BY <1>1, <1>3 DEF DefiTyped
  <1>7. saved[n] \in Seq(PossibleRows(n)) /\ saved'[n] \in Seq(PossibleRows(n))
        /\ Len(saved'[n]) \in Nat /\ Len(saved'[n]) <= Len(saved[n]) + 1
        /\ (saved'[n] # saved[n] => saved'[n] # <<>>)
    <2>1. saved[n] \in Seq(PossibleRows(n)) /\ rows \in PossibleRows(n)
      BY <1>1, <1>3, <1>4 DEF DefiTyped
    <2>2. saved'[n] = saved[n] \/ saved'[n] = Append(saved[n], rows)
      BY <1>6
    <2> HIDE DEF PossibleRows
    <2>3. QED BY <2>1, <2>2
  <1>8. n \in lost' \/ saved'[n] # <<>>
    <2>1. CASE saved' = saved /\ lost' = lost \cup {n}
      BY <2>1
    <2>2. CASE saved' = [saved EXCEPT ![n] = Append(@, rows)]
      <3>1. saved'[n] = Append(saved[n], rows) /\ rows \in PossibleRows(n)
        BY <1>1, <1>3, <1>4, <2>2 DEF DefiTyped
      <3> HIDE DEF PossibleRows
      <3>2. QED BY <1>7, <3>1
    <2>3. QED BY <2>1, <2>2
  <1>9. DefiTyped'
    <2>1. \A m \in DOMAIN topic : saved'[m] \in Seq(PossibleRows(m))
      BY <1>1, <1>5, <1>7 DEF DefiTyped
    <2>2. \A m \in DOMAIN topic' : saved'[m] \in Seq(PossibleRows(m)')
      BY <2>1, RowsStay
    <2>3. lost' \subseteq DOMAIN topic
      BY <1>1, <1>3 DEF DefiTyped
    <2>4. losses' \in Nat /\ losses' <= MaxLoss
      BY <1>1 DEF DefiTyped, Lose
    <2>5. QED BY <1>1, <1>5, <2>2, <2>3, <2>4, RowsStay DEF DefiTyped
  <1>10. DefiOrdered'
    <2>1. losses' \in Nat /\ losses <= losses' /\ losses \in Nat /\ replays \in Nat
      BY <1>1 DEF DefiTyped, Lose
    <2>2. QED BY <1>1, <2>1 DEF DefiOrdered
  <1>11. ReachedDelivered'
    <2> SUFFICES ASSUME NEW m \in 1 .. reached PROVE m \in pending' \/ Delivered(m)'
      BY DEF ReachedDelivered
    <2>1. CASE m = n
      BY <1>8, <2>1 DEF Delivered
    <2>2. CASE m # n
      <3>1. m \in DOMAIN topic
        BY <1>1, <1>2 DEF DefiTyped, DefiOrdered
      <3>2. m \in pending \/ Delivered(m)
        BY <1>1 DEF ReachedDelivered
      <3>3. QED BY <1>5, <2>2, <3>1, <3>2 DEF Delivered, Early
    <2>3. QED BY <2>1, <2>2
  <1>12. CopiesCounted'
    <2> SUFFICES ASSUME NEW m \in DOMAIN topic
                 PROVE  /\ Len(saved'[m]) <= 1 + replays
                        /\ m \in pending' \/ reached < m => Len(saved'[m]) <= replays
      BY DEF CopiesCounted
    <2>1. CASE m = n
      <3>1. Len(saved[n]) <= replays /\ Len(saved[n]) \in Nat /\ replays \in Nat
        BY <1>1, <1>2, <1>3 DEF CopiesCounted, DefiTyped
      <3>2. reached \in Nat /\ n \in Nat
        BY <1>1, <1>2, <1>3 DEF DefiTyped
      <3>3. QED BY <1>3, <1>7, <2>1, <3>1, <3>2
    <2>2. CASE m # n
      BY <1>1, <1>5, <2>2 DEF CopiesCounted
    <2>3. QED BY <2>1, <2>2
  <1>13. QED BY <1>9, <1>10, <1>11, <1>12 DEF DefiInv

\* Going back leaves the tables alone, and is a replay if anything was handled.
LEMMA BackInv ==
  ASSUME DefiInv, NEW to \in Nat, to <= resolved, Back(to), Lose,
         acked' \in Nat, acked' <= to,
         phase' \in {"down", "polling"},
         UNCHANGED <<topic, priced, guesses, saved, lost>>
  PROVE  DefiInv'
  <1>1. /\ DefiTyped /\ DefiOrdered /\ ReachedDelivered /\ CopiesCounted
        /\ MaxLoss \in Nat
    BY DefiAssumption DEF DefiInv
  <1>2. /\ Len(topic) \in Nat /\ DOMAIN topic = 1 .. Len(topic)
        /\ \A m \in DOMAIN topic : Len(saved[m]) \in Nat
    BY <1>1, DefiLengths
  <1>3. /\ acked \in Nat /\ resolved \in Nat /\ reached \in Nat /\ replays \in Nat
        /\ losses \in Nat /\ acked <= resolved /\ resolved <= reached
        /\ reached <= Len(topic) /\ replays <= losses
    BY <1>1 DEF DefiTyped, DefiOrdered
  <1>4. /\ replays' \in Nat /\ replays <= replays' /\ replays' <= replays + 1
        /\ losses' = losses + 1 /\ losses' <= MaxLoss
        /\ phase = "handling" \/ to < resolved => replays' = replays + 1
    BY <1>1, <1>3 DEF Back, Lose
  <1>5. resolved' = to /\ reached' = to /\ pending' = {}
    BY DEF Back
  <1>6. DefiTyped'
    <2>1. \A m \in DOMAIN topic' : saved'[m] \in Seq(PossibleRows(m)')
      BY <1>1, SavedStays
    <2>2. QED BY <1>1, <1>3, <1>4, <1>5, <2>1, RowsStay DEF DefiTyped
  <1>7. DefiOrdered'
    BY <1>2, <1>3, <1>4, <1>5 DEF DefiOrdered
  <1>8. ReachedDelivered'
    <2> SUFFICES ASSUME NEW m \in 1 .. to PROVE Delivered(m)'
      BY <1>5 DEF ReachedDelivered
    <2>1. m \in 1 .. reached /\ m <= resolved
      BY <1>3
    <2>2. m \notin pending
      BY <1>1, <1>3, <2>1 DEF DefiOrdered, DefiTyped
    <2>3. Delivered(m)
      BY <1>1, <2>1, <2>2 DEF ReachedDelivered
    <2>4. QED BY <2>3 DEF Delivered, Early
  <1>9. CopiesCounted'
    <2> SUFFICES ASSUME NEW m \in DOMAIN topic
                 PROVE  /\ Len(saved[m]) <= 1 + replays'
                        /\ to < m => Len(saved[m]) <= replays'
      BY <1>5 DEF CopiesCounted
    <2>1. /\ m \in Nat /\ Len(saved[m]) \in Nat /\ Len(saved[m]) <= 1 + replays
          /\ m \in pending \/ reached < m => Len(saved[m]) <= replays
          /\ phase = "preparing" /\ resolved < m => Len(saved[m]) <= replays
      BY <1>1, <1>2 DEF CopiesCounted
    <2>2. Len(saved[m]) <= 1 + replays'
      BY <1>3, <1>4, <2>1
    <2>3. ASSUME to < m PROVE Len(saved[m]) <= replays'
      <3>1. CASE replays' = replays + 1
        BY <1>3, <2>1, <3>1
      <3>2. CASE replays' # replays + 1
        <4>1. to = resolved /\ phase # "handling"
          BY <1>3, <1>4, <3>2
        <4>2. phase = "preparing" \/ reached = resolved
          BY <1>1, <4>1 DEF DefiTyped, DefiOrdered
        <4>3. Len(saved[m]) <= replays
          BY <2>1, <2>3, <4>1, <4>2
        <4>4. QED BY <1>3, <1>4, <2>1, <4>3
      <3>3. QED BY <3>1, <3>2
    <2>4. QED BY <2>2, <2>3
  <1>10. QED BY <1>6, <1>7, <1>8, <1>9 DEF DefiInv

-----------------------------------------------------------------------------
\* FetchDefi: a batch of early events is passed at once.
LEMMA FetchInv == DefiInv /\ FetchDefi => DefiInv'
  <1> SUFFICES ASSUME DefiInv, FetchDefi PROVE DefiInv'
    OBVIOUS
  <1>1. DefiTyped /\ DefiOrdered /\ ReachedDelivered /\ CopiesCounted
    BY DEF DefiInv
  <1>2. /\ Len(topic) \in Nat /\ DOMAIN topic = 1 .. Len(topic)
        /\ \A m \in DOMAIN topic : Len(saved[m]) \in Nat
    BY <1>1, DefiLengths
  <1>3. /\ acked \in Nat /\ resolved \in Nat /\ reached = resolved /\ replays \in Nat
        /\ acked <= resolved /\ pending = {} /\ replays <= losses
    BY <1>1 DEF FetchDefi, DefiTyped, DefiOrdered
  <1>4. reached' \in Nat /\ resolved < reached' /\ reached' <= Len(topic)
    BY <1>2, <1>3 DEF FetchDefi
  <1>5. pending' = {n \in (resolved + 1) .. reached' : ~Early(n)}
    BY DEF FetchDefi
  <1>6. /\ UNCHANGED <<topic, priced, guesses, saved, lost, losses, acked, replays>>
        /\ \/ pending' = {} /\ phase' = "polling" /\ resolved' = reached'
           \/ phase' = "preparing" /\ resolved' = resolved
    BY DEF FetchDefi
  <1>7. \A n \in pending' : n \in Nat /\ resolved < n /\ n <= reached'
    BY <1>3, <1>4, <1>5
  <1>8. DefiTyped'
    <2>1. \A m \in DOMAIN topic' : saved'[m] \in Seq(PossibleRows(m)')
      BY <1>1, <1>6, SavedStays
    <2>2. QED BY <1>1, <1>3, <1>4, <1>6, <1>7, <2>1, RowsStay DEF DefiTyped
  <1>9. DefiOrdered'
    BY <1>2, <1>3, <1>4, <1>6, <1>7 DEF DefiOrdered
  <1>10. ReachedDelivered'
    <2> SUFFICES ASSUME NEW m \in 1 .. reached' PROVE m \in pending' \/ Delivered(m)'
      BY DEF ReachedDelivered
    <2>1. CASE m <= resolved
      <3>1. m \in 1 .. reached
        BY <1>3, <1>4, <2>1
      <3>2. Delivered(m)
        BY <1>1, <1>3, <3>1 DEF ReachedDelivered
      <3>3. QED BY <1>6, <3>2 DEF Delivered, Early
    <2>2. CASE ~(m <= resolved)
      <3>1. m \in pending' \/ Early(m)
        BY <1>3, <1>4, <1>5, <2>2
      <3>2. QED BY <1>6, <3>1 DEF Delivered, Early
    <2>3. QED BY <2>1, <2>2
  <1>11. CopiesCounted'
    <2> SUFFICES ASSUME NEW m \in DOMAIN topic
                 PROVE  /\ Len(saved[m]) <= 1 + replays
                        /\ m \in pending' \/ reached' < m => Len(saved[m]) <= replays
                        /\ phase' = "preparing" /\ resolved' < m => Len(saved[m]) <= replays
      BY <1>6 DEF CopiesCounted
    <2>1. /\ m \in Nat /\ Len(saved[m]) <= 1 + replays
          /\ reached < m => Len(saved[m]) <= replays
      BY <1>1, <1>2 DEF CopiesCounted
    <2>2. m \in pending' \/ reached' < m => resolved < m
      BY <1>3, <1>4, <1>7, <2>1
    <2>3. phase' = "preparing" => resolved' = resolved
      BY <1>6
    <2>4. QED BY <1>3, <2>1, <2>2, <2>3
  <1>12. QED BY <1>8, <1>9, <1>10, <1>11 DEF DefiInv

\* A price that arrives, and one that is guessed.
LEMMA QuotesPossible ==
  ASSUME DefiTyped, NEW c \in Coin,
         PriceArrives(c) \/ \E d \in {9, 18} : GuessDecimals(c, d)
  PROVE  /\ priced' \in PossibleQuotes' /\ guesses' \subseteq Coin \X {9, 18}
         /\ guesses \subseteq guesses'
  <1>1. CASE PriceArrives(c)
    <2>1. PICK d \in {CoinDecimals[c]} \cup {g \in {9} : <<c, g>> \in guesses} :
             priced' = [b \in DOMAIN priced \cup {c} |-> IF b = c THEN d ELSE priced[b]]
      BY <1>1 DEF PriceArrives
    <2>2. guesses' = guesses
      BY <1>1 DEF PriceArrives
    <2>3. DOMAIN priced \in SUBSET Coin
          /\ \A b \in DOMAIN priced : priced[b] \in Nat
                /\ (priced[b] = CoinDecimals[b] \/ <<b, priced[b]>> \in guesses)
      BY DEF DefiTyped, PossibleQuotes
    <2>4. d \in Nat /\ (d = CoinDecimals[c] \/ <<c, d>> \in guesses)
      BY CoinAssumption
    <2>5. priced' \in [DOMAIN priced \cup {c} -> Nat] /\ DOMAIN priced \cup {c} \in SUBSET Coin
      BY <2>1, <2>3, <2>4
    <2>6. \A b \in DOMAIN priced' : priced'[b] = CoinDecimals[b] \/ <<b, priced'[b]>> \in guesses
      BY <2>1, <2>3, <2>4
    <2>7. QED BY <2>2, <2>5, <2>6 DEF DefiTyped, PossibleQuotes
  <1>2. ASSUME NEW d \in {9, 18}, GuessDecimals(c, d)
        PROVE  /\ priced' \in PossibleQuotes' /\ guesses' \subseteq Coin \X {9, 18}
               /\ guesses \subseteq guesses'
    BY <1>2, RowsStay DEF GuessDecimals, DefiTyped
  <1>3. QED BY <1>1, <1>2

\* The steps that change neither the tables nor what the process has in hand.
LEMMA QuietInv ==
  ASSUME DefiInv,
         \/ StartDefi \/ PrepareDefi \/ CommitDefi
         \/ \E c \in Coin : PriceArrives(c) \/ \E d \in {9, 18} : GuessDecimals(c, d)
  PROVE  DefiInv'
  <1>1. DefiTyped /\ DefiOrdered /\ ReachedDelivered /\ CopiesCounted
    BY DEF DefiInv
  <1>2. UNCHANGED <<topic, saved, lost, resolved, reached, pending, replays>>
    BY DEF StartDefi, PrepareDefi, CommitDefi, PriceArrives, GuessDecimals, consuming
  <1>3. /\ acked' \in Nat /\ acked' <= resolved
        /\ \/ phase' = phase
           \/ phase = "down" /\ phase' = "polling"
           \/ phase = "preparing" /\ phase' = "handling"
    BY <1>1 DEF StartDefi, PrepareDefi, CommitDefi, PriceArrives, GuessDecimals, consuming,
                DefiTyped, DefiOrdered
  <1>4. losses' \in Nat /\ losses' <= MaxLoss /\ losses <= losses'
    <2>1. losses' = losses \/ Lose
      BY DEF StartDefi, PrepareDefi, CommitDefi, PriceArrives, GuessDecimals
    <2>2. QED BY <1>1, <2>1, DefiAssumption DEF Lose, DefiTyped
  <1>5. /\ priced' \in PossibleQuotes' /\ guesses' \subseteq Coin \X {9, 18}
        /\ guesses \subseteq guesses'
    <2>1. CASE StartDefi \/ PrepareDefi \/ CommitDefi
      BY <1>1, <1>2, <2>1, RowsStay DEF StartDefi, PrepareDefi, CommitDefi, DefiTyped
    <2>2. QED BY <1>1, <2>1, QuotesPossible
  <1>6. DefiTyped'
    <2>1. \A m \in DOMAIN topic' : saved'[m] \in Seq(PossibleRows(m)')
      BY <1>1, <1>2, <1>5, SavedStays
    <2>2. QED BY <1>1, <1>2, <1>3, <1>4, <1>5, <2>1 DEF DefiTyped
  <1>7. DefiOrdered'
    BY <1>1, <1>2, <1>3, <1>4 DEF DefiOrdered, DefiTyped
  <1>8. ReachedDelivered'
    BY <1>1, <1>2 DEF ReachedDelivered, Delivered, Early
  <1>9. CopiesCounted'
    BY <1>1, <1>2, <1>3 DEF CopiesCounted
  <1>10. QED BY <1>6, <1>7, <1>8, <1>9 DEF DefiInv

\* EndBatch: all handlers have ended.
LEMMA EndBatchInv == DefiInv /\ EndBatch => DefiInv'
  <1> SUFFICES ASSUME DefiInv, EndBatch PROVE DefiInv'
    OBVIOUS
  <1>1. DefiTyped /\ DefiOrdered /\ ReachedDelivered /\ CopiesCounted
    BY DEF DefiInv
  <1>2. /\ UNCHANGED <<topic, priced, guesses, saved, lost, losses, acked, reached, pending, replays>>
        /\ pending = {} /\ resolved' = reached /\ phase' = "polling"
    BY DEF EndBatch
  <1>3. DefiTyped'
    <2>1. \A m \in DOMAIN topic' : saved'[m] \in Seq(PossibleRows(m)')
      BY <1>1, <1>2, SavedStays
    <2>2. QED BY <1>1, <1>2, <2>1, RowsStay DEF DefiTyped
  <1>4. DefiOrdered'
    BY <1>1, <1>2 DEF DefiTyped, DefiOrdered
  <1>5. ReachedDelivered'
    BY <1>1, <1>2 DEF ReachedDelivered, Delivered, Early
  <1>6. CopiesCounted'
    BY <1>1, <1>2 DEF CopiesCounted
  <1>7. QED BY <1>3, <1>4, <1>5, <1>6 DEF DefiInv

\* Every step of the process keeps the invariant.
LEMMA DefiStep == DefiInv /\ [DefiNext]_defiVars => DefiInv'
  <1> SUFFICES ASSUME DefiInv, [DefiNext]_defiVars PROVE DefiInv'
    OBVIOUS
  <1>1. /\ acked \in Nat /\ resolved \in Nat /\ acked <= resolved
    BY DEF DefiInv, DefiTyped, DefiOrdered
  <1>2. CASE StartDefi
    BY <1>2, QuietInv
  <1>3. CASE FetchDefi
    BY <1>3, FetchInv
  <1>4. CASE PrepareDefi
    BY <1>4, QuietInv
  <1>5. CASE PrepareThrows
    <2>1. PICK to \in {acked', resolved} : Back(to)
      BY <1>5 DEF PrepareThrows
    <2>2. to \in Nat /\ to <= resolved /\ acked' \in Nat /\ acked' <= to
      BY <1>1, <1>5 DEF PrepareThrows
    <2>3. QED BY <1>5, <2>1, <2>2, BackInv DEF PrepareThrows
  <1>6. ASSUME NEW n \in pending, Handle(n) PROVE DefiInv'
    <2>1. PICK rows \in RowsOf(n) :
             \/ saved' = saved /\ lost' = lost \cup {n}
             \/ /\ saved' = [saved EXCEPT ![n] = Append(@, rows)]
                /\ lost' \in {lost, lost \cup {n}}
      BY <1>6 DEF Handle
    <2>3. /\ phase = "handling" /\ pending' = pending \ {n} /\ losses' = losses
          /\ UNCHANGED <<topic, priced, guesses, phase, acked, resolved, reached, replays>>
      BY <1>6 DEF Handle
    <2>2. QED BY <2>1, <2>3, HandledInv
  <1>7. ASSUME NEW n \in pending, HandleError(n) PROVE DefiInv'
    <2>1. PICK rows \in RowsOf(n) :
             \/ saved' = saved /\ lost' = lost \cup {n}
             \/ /\ saved' = [saved EXCEPT ![n] = Append(@, rows)]
                /\ lost' \in {lost, lost \cup {n}}
      BY <1>7, SomeRows DEF HandleError, DefiInv
    <2>2. /\ phase = "handling" /\ pending' = pending \ {n} /\ Lose
          /\ UNCHANGED <<topic, priced, guesses, phase, acked, resolved, reached, replays>>
      BY <1>7 DEF HandleError
    <2>3. QED BY <2>1, <2>2, HandledInv
  <1>8. CASE EndBatch
    BY <1>8, EndBatchInv
  <1>9. CASE CommitDefi
    BY <1>9, QuietInv
  <1>10. CASE RejoinDefi
    BY <1>1, <1>10, BackInv DEF RejoinDefi
  <1>11. CASE StopDefi
    BY <1>1, <1>11, BackInv DEF StopDefi
  <1>12. CASE \E c \in Coin : PriceArrives(c) \/ \E d \in {9, 18} : GuessDecimals(c, d)
    BY <1>12, QuietInv
  <1>13. CASE UNCHANGED defiVars
    <2>1. UNCHANGED <<topic, priced, guesses, saved, lost, losses, phase, acked, resolved,
                      reached, pending, replays>>
      BY <1>13 DEF defiVars, consuming
    <2>2. /\ \A m \in DOMAIN topic' : saved'[m] \in Seq(PossibleRows(m)')
          /\ priced' \in PossibleQuotes'
      BY <2>1, SavedStays, RowsStay DEF DefiInv, DefiTyped
    <2>3. QED BY <2>1, <2>2 DEF DefiInv, DefiTyped, DefiOrdered, ReachedDelivered,
                               Delivered, Early, CopiesCounted
  <1>14. QED
    BY <1>2, <1>3, <1>4, <1>5, <1>6, <1>7, <1>8, <1>9, <1>10, <1>11, <1>12, <1>13
       DEF DefiNext

-----------------------------------------------------------------------------
(***************************************************************************)
(* The live process of defi is the consumer of TopicConsumer.              *)
(***************************************************************************)
\* The offsets are those of the topic, and say how often each event was saved.
LEMMA DefiOffsets ==
  ASSUME DefiInv
  PROVE  /\ Consumer!Offset = DOMAIN topic /\ DOMAIN topic = 1 .. Len(topic)
         /\ \A n \in DOMAIN topic : SavedCopies[n] = Len(saved[n]) /\ SavedCopies[n] \in Nat
         /\ Excused \subseteq DOMAIN topic
         /\ acked \in Nat /\ resolved \in Nat /\ acked <= resolved
         /\ resolved <= Len(topic) /\ Len(topic) \in Nat
  <1>1. DefiTyped /\ DefiOrdered
    BY DEF DefiInv
  <1>2. DOMAIN topic = 1 .. Len(topic) /\ Len(topic) \in Nat
        /\ \A n \in DOMAIN topic : Len(saved[n]) \in Nat
    BY <1>1, DefiLengths
  <1>3. acked \in Nat /\ resolved \in Nat /\ acked <= resolved /\ resolved <= Len(topic)
    BY <1>1, <1>2 DEF DefiTyped, DefiOrdered
  <1>4. Excused \subseteq DOMAIN topic
    BY <1>1 DEF DefiTyped, Excused
  <1>5. Consumer!Offset = DOMAIN topic
        /\ \A n \in DOMAIN topic : SavedCopies[n] = Len(saved[n])
    BY DEF Consumer!Offset, SavedCopies
  <1>6. QED BY <1>2, <1>3, <1>4, <1>5

\* What is resolved may be committed: it is delivered.
LEMMA DefiReaches ==
  ASSUME DefiInv, acked' \in {acked, resolved}
  PROVE  Consumer!Reach(acked')
  <1>1. DefiTyped /\ DefiOrdered /\ ReachedDelivered
    BY DEF DefiInv
  <1>2. acked <= acked' /\ acked' <= resolved /\ acked' \in Nat
    BY DefiOffsets
  <1>3. ASSUME NEW n \in DOMAIN topic, acked < n, n <= acked'
        PROVE  SavedCopies[n] > 0 \/ n \in Excused
    <2>1. n \in 1 .. reached /\ n \notin pending
      BY <1>1, <1>2, <1>3, DefiOffsets DEF DefiTyped, DefiOrdered
    <2>2. Delivered(n)
      BY <1>1, <2>1 DEF ReachedDelivered
    <2>3. Len(saved[n]) \in Nat /\ (Len(saved[n]) = 0 => saved[n] = <<>>)
      BY <1>1, DefiLengths
    <2>4. QED BY <2>2, <2>3, DefiOffsets DEF Delivered, Excused
  <1>4. QED BY <1>2, <1>3, DefiOffsets DEF Consumer!Reach

\* A step that leaves the tables alone saves nothing.
LEMMA DefiSavesNone ==
  ASSUME DefiInv, UNCHANGED <<topic, saved>>
  PROVE  Consumer!Save({}) /\ SavedCopies' = SavedCopies
  <1>1. SavedCopies' = SavedCopies
    BY DEF SavedCopies
  <1>2. SavedCopies = [n \in DOMAIN topic |-> SavedCopies[n]]
    BY DEF SavedCopies
  <1>3. QED BY <1>1, <1>2, DefiOffsets DEF Consumer!Save

\* A handler saves an event that is not resolved, and whose copies the process
\* has gone back for.
LEMMA DefiSavesOne ==
  ASSUME DefiInv, NEW n \in pending, phase = "handling", NEW row,
         saved' = [saved EXCEPT ![n] = Append(@, row)],
         UNCHANGED <<topic, acked>>
  PROVE  n \in DOMAIN topic /\ Consumer!Save({n})
  <1>1. DefiTyped /\ DefiOrdered /\ CopiesCounted
    BY DEF DefiInv
  <1>2. n \in DOMAIN topic /\ acked' < n
    BY <1>1, DefiOffsets DEF DefiTyped, DefiOrdered
  <1>3. SavedCopies[n] <= replays
    BY <1>1, <1>2, DefiOffsets DEF CopiesCounted
  <1>4. saved[n] \in Seq(PossibleRows(n)) /\ DOMAIN saved = DOMAIN topic
    BY <1>1, <1>2 DEF DefiTyped
  <1>5. Len(Append(saved[n], row)) = Len(saved[n]) + 1
    <2> HIDE DEF PossibleRows
    <2>1. QED BY <1>4, AppendProperties
  <1>6. ASSUME NEW m \in DOMAIN topic
        PROVE  Len(saved'[m]) = IF m \in {n} THEN SavedCopies[m] + 1 ELSE SavedCopies[m]
    <2>1. saved'[m] = IF m = n THEN Append(saved[n], row) ELSE saved[m]
      BY <1>4
    <2>2. QED BY <1>5, <2>1, DefiOffsets
  <1>7. SavedCopies' = [m \in DOMAIN topic |-> IF m \in {n} THEN SavedCopies[m] + 1
                                               ELSE SavedCopies[m]]
    BY <1>6 DEF SavedCopies
  <1>8. n > acked'
    BY <1>1, <1>2, DefiOffsets DEF DefiTyped
  <1>9. QED BY <1>2, <1>3, <1>7, <1>8, DefiOffsets DEF Consumer!Save

\* An error is remembered, and so is what is too early.
LEMMA DefiExcuses ==
  ASSUME DefiInv, topic' = topic, lost \subseteq lost', lost' \subseteq DOMAIN topic
  PROVE  Consumer!Excuse
  <1>1. Excused \subseteq Excused' /\ Excused' \subseteq DOMAIN topic
    BY DEF Excused, Early
  <1>2. QED BY <1>1, DefiOffsets DEF Consumer!Excuse

\* The end of a handler is a delivery, of its event or of none.
LEMMA DefiDelivers ==
  ASSUME DefiInv, NEW n \in pending, phase = "handling", NEW rows,
         saved' = saved \/ saved' = [saved EXCEPT ![n] = Append(@, rows)],
         lost' \in {lost, lost \cup {n}},
         UNCHANGED <<topic, acked, replays>>
  PROVE  Consumer!Next
  <1>1. n \in DOMAIN topic /\ lost \subseteq DOMAIN topic
    BY DefiOffsets DEF DefiInv, DefiTyped, DefiOrdered
  <1>2. Consumer!Excuse
    BY <1>1, DefiExcuses
  <1>3. \E done \in SUBSET DOMAIN topic : Consumer!Save(done)
    <2>1. CASE saved' = saved
      BY <2>1, DefiSavesNone
    <2>2. CASE saved' = [saved EXCEPT ![n] = Append(@, rows)]
      BY <2>2, DefiSavesOne
    <2>3. QED BY <2>1, <2>2
  <1>4. \E done \in SUBSET DOMAIN topic : Consumer!Deliver(done)
    BY <1>2, <1>3 DEF Consumer!Deliver
  <1>5. QED BY <1>4, DefiOffsets DEF Consumer!Next

\* Going back is a return, unless nothing was in hand to go back from.
LEMMA DefiReturns ==
  ASSUME DefiInv, NEW to \in {acked', resolved}, Back(to), acked' \in {acked, resolved},
         phase = "handling" => acked' = acked,
         UNCHANGED <<topic, saved, lost>>
  PROVE  [Consumer!Next]_(Consumer!vars)
  <1>1. Consumer!Reach(acked') /\ Consumer!Save({}) /\ Consumer!Excuse
    BY DefiReaches, DefiSavesNone, DefiExcuses DEF DefiInv, DefiTyped
  <1>2. SavedCopies' = SavedCopies /\ Excused' = Excused
    BY DefiSavesNone DEF Excused, Early
  <1>3. CASE replays' = replays + 1
    <2>1. Consumer!Return({}, acked')
      BY <1>1, <1>3 DEF Consumer!Return
    <2>2. acked' \in DOMAIN topic \cup {acked}
      BY DefiOffsets
    <2>3. QED BY <2>1, <2>2, DefiOffsets DEF Consumer!Next
  <1>4. CASE replays' = replays
    <2>1. CASE acked' = acked
      BY <1>2, <1>4, <2>1 DEF Consumer!vars
    <2>2. CASE acked' # acked
      <3>1. Consumer!Pass(acked')
        BY <1>1, <1>2, <1>4 DEF Consumer!Pass
      <3>2. acked' \in DOMAIN topic
        BY <2>2, DefiOffsets
      <3>3. QED BY <3>1, <3>2, DefiOffsets DEF Consumer!Next
    <2>3. QED BY <2>1, <2>2
  <1>5. QED BY <1>3, <1>4 DEF Back

\* Each step is one of the consumer, or of no concern to it.
LEMMA DefiConsumerStep == DefiInv /\ [DefiNext]_defiVars => [Consumer!Next]_(Consumer!vars)
  <1> SUFFICES ASSUME DefiInv, [DefiNext]_defiVars PROVE [Consumer!Next]_(Consumer!vars)
    OBVIOUS
  <1>1. CASE UNCHANGED <<topic, saved, lost, acked, replays>>
    <2>1. SavedCopies' = SavedCopies /\ Excused' = Excused
      BY <1>1 DEF SavedCopies, Excused, Early
    <2>2. QED BY <1>1, <2>1 DEF Consumer!vars
  <1>2. CASE PrepareThrows
    <2>1. PICK to \in {acked', resolved} : Back(to)
      BY <1>2 DEF PrepareThrows
    <2>2. QED BY <1>2, <2>1, DefiReturns DEF PrepareThrows
  <1>3. ASSUME NEW n \in pending, Handle(n) PROVE Consumer!Next
    <2>1. PICK rows \in RowsOf(n) :
             \/ saved' = saved /\ lost' = lost \cup {n}
             \/ saved' = [saved EXCEPT ![n] = Append(@, rows)] /\ lost' = lost
      BY <1>3 DEF Handle
    <2>2. phase = "handling" /\ UNCHANGED <<topic, acked, replays>>
      BY <1>3 DEF Handle
    <2>3. QED BY <2>1, <2>2, DefiDelivers
  <1>4. ASSUME NEW n \in pending, HandleError(n) PROVE Consumer!Next
    <2>1. phase = "handling" /\ lost' = lost \cup {n} /\ UNCHANGED <<topic, acked, replays>>
      BY <1>4 DEF HandleError
    <2>2. \E rows : saved' = saved \/ saved' = [saved EXCEPT ![n] = Append(@, rows)]
      BY <1>4 DEF HandleError
    <2>3. QED BY <2>1, <2>2, DefiDelivers
  <1>5. CASE CommitDefi
    <2>1. acked < resolved /\ acked' = resolved /\ UNCHANGED <<topic, saved, lost, replays>>
      BY <1>5 DEF CommitDefi
    <2>2. SavedCopies' = SavedCopies /\ Excused' = Excused
      BY <2>1 DEF SavedCopies, Excused, Early
    <2>3. Consumer!Pass(acked')
      BY <2>1, <2>2, DefiReaches DEF Consumer!Pass
    <2>4. acked' \in DOMAIN topic
      BY <2>1, DefiOffsets
    <2>5. QED BY <2>3, <2>4, DefiOffsets DEF Consumer!Next
  <1>6. CASE RejoinDefi \/ StopDefi
    <2>1. Back(acked) /\ UNCHANGED <<topic, saved, lost, acked>>
      BY <1>6 DEF RejoinDefi, StopDefi
    <2>2. QED BY <2>1, DefiReturns
  <1>7. ASSUME \/ StartDefi \/ FetchDefi \/ PrepareDefi \/ EndBatch
               \/ \E c \in Coin : PriceArrives(c) \/ \E d \in {9, 18} : GuessDecimals(c, d)
               \/ UNCHANGED defiVars
        PROVE  UNCHANGED <<topic, saved, lost, acked, replays>>
    BY <1>7 DEF StartDefi, FetchDefi, PrepareDefi, EndBatch, PriceArrives, GuessDecimals,
                defiVars, consuming
  <1>8. QED BY <1>1, <1>2, <1>3, <1>4, <1>5, <1>6, <1>7 DEF DefiNext

\* The live process of defi keeps the promise of TopicConsumer: although it
\* commits late, from the timer and after errors, and starts without a memory,
\* no step saves an event that the group is past, the group goes past no event
\* that is neither saved nor lost nor too early, and each copy after the first
\* is paid for by a time that the process went back.
THEOREM DefiConsumerImplemented == DefiSpec => ImplementsConsumer
  <1>1. DefiInit => Consumer!Init
    <2> SUFFICES ASSUME DefiInit PROVE Consumer!Init
      OBVIOUS
    <2>1. DefiInv
      BY DefiInitInv
    <2>2. \A n \in DOMAIN topic : Len(saved[n]) = 0
      BY DEF DefiInit
    <2>3. SavedCopies = [n \in DOMAIN topic |-> 0]
      BY <2>2 DEF SavedCopies
    <2>4. acked = 0 /\ replays = 0
      BY DEF DefiInit
    <2>5. QED BY <2>1, <2>3, <2>4, DefiOffsets DEF Consumer!Init
  <1>2. QED BY <1>1, DefiInitInv, DefiStep, DefiConsumerStep, PTL
        DEF DefiSpec, ImplementsConsumer, Consumer!Spec

\* The promise itself: a consumer that begins with no copies, goes past what it has
\* a copy of or a reason for, and saves what it has paid for, keeps to that.
LEMMA ConsumerKeeps == Consumer!Spec => []Consumer!Kept
  <1> DEFINE Counted == /\ acked \in Nat /\ replays \in Nat
                        /\ Consumer!Offset \subseteq Nat \ {0}
                        /\ \A n \in Consumer!Offset : SavedCopies[n] \in Nat
  <1>1. Consumer!Init => Counted /\ Consumer!Kept
    BY DEF Consumer!Init, Consumer!Kept
  <1>2. Counted /\ Consumer!Kept /\ [Consumer!Next]_(Consumer!vars) => (Counted /\ Consumer!Kept)'
    <2> SUFFICES ASSUME Counted, Consumer!Kept, [Consumer!Next]_(Consumer!vars)
                 PROVE  (Counted /\ Consumer!Kept)'
      OBVIOUS
    <2>1. ASSUME NEW done, Consumer!Save(done), replays' \in {replays, replays + 1}
          PROVE  /\ Consumer!Offset' = Consumer!Offset
                 /\ \A n \in Consumer!Offset :
                      /\ SavedCopies'[n] \in Nat /\ SavedCopies'[n] >= SavedCopies[n]
                      /\ SavedCopies'[n] <= 1 + replays'
      BY <2>1 DEF Consumer!Save, Consumer!Kept, Consumer!Offset
    <2>2. ASSUME NEW to \in Consumer!Offset \cup {acked}, Consumer!Reach(to)
          PROVE  /\ acked' \in Nat
                 /\ \A n \in Consumer!Offset : n <= acked' => SavedCopies[n] > 0 \/ n \in Excused
      BY <2>2 DEF Consumer!Reach, Consumer!Kept
    <2>3. CASE UNCHANGED Consumer!vars
      BY <2>3 DEF Consumer!vars, Consumer!Kept, Consumer!Offset
    <2>4. ASSUME NEW done \in SUBSET Consumer!Offset, Consumer!Deliver(done)
          PROVE  (Counted /\ Consumer!Kept)'
      <3>1. acked' = acked /\ replays' = replays /\ Excused \subseteq Excused'
        BY <2>4 DEF Consumer!Deliver, Consumer!Excuse
      <3>2. /\ Consumer!Offset' = Consumer!Offset
            /\ \A n \in Consumer!Offset :
                  /\ SavedCopies'[n] \in Nat /\ SavedCopies'[n] >= SavedCopies[n]
                  /\ SavedCopies'[n] <= 1 + replays'
        BY <2>1, <2>4, <3>1 DEF Consumer!Deliver
      <3>3. QED BY <3>1, <3>2 DEF Consumer!Kept
    <2>5. ASSUME NEW to \in Consumer!Offset, Consumer!Pass(to)
          PROVE  (Counted /\ Consumer!Kept)'
      <3>1. SavedCopies' = SavedCopies /\ Excused' = Excused /\ replays' = replays
        BY <2>5 DEF Consumer!Pass
      <3>2. /\ acked' \in Nat
            /\ \A n \in Consumer!Offset : n <= acked' => SavedCopies[n] > 0 \/ n \in Excused
        BY <2>2, <2>5 DEF Consumer!Pass
      <3>3. QED BY <3>1, <3>2 DEF Consumer!Kept, Consumer!Offset
    <2>6. ASSUME NEW done \in SUBSET Consumer!Offset, NEW to \in Consumer!Offset \cup {acked},
                 Consumer!Return(done, to)
          PROVE  (Counted /\ Consumer!Kept)'
      <3>1. replays' = replays + 1 /\ Excused \subseteq Excused'
        BY <2>6 DEF Consumer!Return, Consumer!Excuse
      <3>2. /\ Consumer!Offset' = Consumer!Offset
            /\ \A n \in Consumer!Offset :
                  /\ SavedCopies'[n] \in Nat /\ SavedCopies'[n] >= SavedCopies[n]
                  /\ SavedCopies'[n] <= 1 + replays'
        BY <2>1, <2>6, <3>1 DEF Consumer!Return
      <3>3. /\ acked' \in Nat
            /\ \A n \in Consumer!Offset : n <= acked' => SavedCopies[n] > 0 \/ n \in Excused
        BY <2>2, <2>6 DEF Consumer!Return
      <3>4. QED BY <3>1, <3>2, <3>3 DEF Consumer!Kept
    <2>7. QED BY <2>3, <2>4, <2>5, <2>6 DEF Consumer!Next
  <1>3. QED BY <1>1, <1>2, PTL DEF Consumer!Spec

(***************************************************************************)
(* An event that the consumer group has passed is in the tables, unless    *)
(* its handler ended with an error or it is too early, and it has at most  *)
(* one copy more than the process went back: whatever the order in which   *)
(* the handlers of a batch end, however often the process stops, and       *)
(* whatever the handlers make of the events (src/index.ts of defi).        *)
(***************************************************************************)
THEOREM DeliverySafe == DefiSpec => []DeliveryExplained
  <1>1. DefiInv /\ Consumer!Kept => DeliveryExplained
    <2> SUFFICES ASSUME DefiInv, Consumer!Kept PROVE DeliveryExplained
      OBVIOUS
    <2>1. ASSUME NEW n \in DOMAIN topic
          PROVE  /\ n <= acked => Len(saved[n]) > 0 \/ n \in Excused
                 /\ Len(saved[n]) <= 1 + replays
      BY DefiOffsets DEF Consumer!Kept
    <2>2. PassedOrLost
      <3> SUFFICES ASSUME NEW n \in 1 .. acked
                   PROVE  saved[n] # <<>> \/ n \in lost \/ Early(n)
        BY DEF PassedOrLost
      <3>1. n \in DOMAIN topic /\ n <= acked
        BY DefiOffsets
      <3>2. QED BY <2>1, <3>1 DEF Excused
    <2>3. RepeatedOnlyByReplays
      BY <2>1 DEF RepeatedOnlyByReplays
    <2>4. QED BY <2>2, <2>3 DEF DeliveryExplained
  <1>2. DefiSpec => []Consumer!Kept
    BY DefiConsumerImplemented, ConsumerKeeps DEF ImplementsConsumer
  <1>3. QED BY <1>1, <1>2, DefiInitInv, DefiStep, PTL DEF DefiSpec

-----------------------------------------------------------------------------
(***************************************************************************)
(* What the handlers of defi make of an event.                             *)
(***************************************************************************)
\* The rows have these coins and amounts on their sides.
Sides(rows, given, got) == GivenIn(rows) = given /\ GotIn(rows) = got

\* The side of the tokens of liquidity, by the action.
LiquiditySides(action, rows, both) ==
  IF action \in {"Add", "Mint"} THEN Sides(rows, both, {}) ELSE Sides(rows, {}, both)

EntryScaled(event, f) ==
  f.coin \in Coin /\ f.price /\ f.amount # NoAmount =>
     ScaledFor(f, event)

\* What a handler was told: quotes and decimals that are right or were guessed.
Told(prices, decimals) ==
  prices \in PossibleQuotes /\ decimals \in PoolDecimals /\ guesses \subseteq Coin \X {9, 18}

\* The rows of liquidity with both amounts: valued by the prices, by the decimals of
\* the pool, or not at all.
BareLiquidity(action, e, n) ==
  {Liquidity(action, ByNoPrice(e.x, X(n)), ByNoPrice(e.y, Y(n)))}

BothRows(action, e, n, prices, decimals) ==
  {PriceLiquidity(action, e, n, prices), PoolLiquidity(action, e, n, prices, decimals),
   BareLiquidity(action, e, n)}

RowsScaled(event, rows) ==
  \A row \in rows : \A f \in row.input \cup row.output : EntryScaled(event, f)

\* What RowsBelievable says of the rows that a handler makes of the event n.
RowsOfEventBelievable(n, rows) ==
  /\ RowsScaled(topic[n].kind, rows)
  /\ \/ Sides(rows, GivenBy(topic[n], n), GotBy(topic[n], n))
     \/ topic[n].kind \in Inverted \cup LeftOut
     \/ Shadowed(n)

\* Amounts read from an event are amounts.
LEMMA AmountsNamed == \A n : X(n) # NoAmount /\ Y(n) # NoAmount
  BY DEF X, Y, NoAmount

\* The entries that the handlers build are scaled by what is right or was guessed.
LEMMA EntriesScaled ==
  ASSUME NEW event, NEW c \in Coin, NEW amount, NEW prices, NEW decimals, Told(prices, decimals)
  PROVE  /\ EntryScaled(event, ByPrice(c, amount, prices))
         /\ EntryScaled(event, ByPool(c, amount, prices, decimals))
         /\ EntryScaled(event, ByNoPrice(c, amount))
         /\ \A scale : EntryScaled(event, Entry(c, amount, scale, FALSE))
         /\ \A scale, price : EntryScaled(event, Entry(c, NoAmount, scale, price))
         /\ event \in AlwaysNine => \A price : EntryScaled(event, ByNine(c, amount, price))
         /\ EntryScaled(event, ByNine(c, amount, FALSE))
  <1>1. EntryScaled(event, ByPrice(c, amount, prices))
    <2>1. CASE HasPrice(c, prices)
      <3>1. prices[c] = CoinDecimals[c] \/ <<c, prices[c]>> \in guesses
        BY <2>1 DEF Told, PossibleQuotes, HasPrice
      <3>2. <<c, prices[c]>> \in guesses => OrNine(prices[c]) = prices[c]
        BY DEF Told, OrNine
      <3>3. /\ ByPrice(c, amount, prices).coin = c
            /\ ByPrice(c, amount, prices).scale = OrNine(prices[c])
        BY <2>1 DEF ByPrice, Entry, PriceDecimals
      <3>4. QED BY <3>1, <3>2, <3>3 DEF EntryScaled, ScaledFor
    <2>2. CASE ~HasPrice(c, prices)
      BY <2>2 DEF EntryScaled, ByPrice, Entry
    <2>3. QED BY <2>1, <2>2
  <1>2. EntryScaled(event, ByPool(c, amount, prices, decimals))
    <2>1. decimals[c] = OrNine(CoinDecimals[c]) \/ <<c, decimals[c]>> \in guesses
      BY DEF Told, PoolDecimals, DecimalsTold
    <2>2. QED BY <2>1 DEF EntryScaled, ScaledFor, ByPool, Entry
  <1>3. EntryScaled(event, ByNoPrice(c, amount))
    BY DEF EntryScaled, ByNoPrice, Entry
  <1>4. /\ \A scale : EntryScaled(event, Entry(c, amount, scale, FALSE))
        /\ \A scale, price : EntryScaled(event, Entry(c, NoAmount, scale, price))
    BY DEF EntryScaled, Entry
  <1>5. /\ event \in AlwaysNine => \A price : EntryScaled(event, ByNine(c, amount, price))
        /\ EntryScaled(event, ByNine(c, amount, FALSE))
    BY DEF EntryScaled, ScaledFor, ByNine, Entry
  <1>6. QED BY <1>1, <1>2, <1>3, <1>4, <1>5

\* The flow of entries is that of each of them.
LEMMA FlowOfEntries ==
  /\ Flow({}) = {}
  /\ \A f, g : Flow({f, g}) = Flow({f}) \cup Flow({g})
  /\ \A c, amount, scale, price :
        amount # NoAmount => Flow({Entry(c, amount, scale, price)}) = {<<c, amount>>}
  /\ \A c, scale, price : Flow({Entry(c, NoAmount, scale, price)}) = {}
  <1>1. Flow({}) = {} /\ \A f, g : Flow({f, g}) = Flow({f}) \cup Flow({g})
    BY DEF Flow
  <1>2. ASSUME NEW c, NEW amount, NEW scale, NEW price, amount # NoAmount
        PROVE  Flow({Entry(c, amount, scale, price)}) = {<<c, amount>>}
    <2> DEFINE f == Entry(c, amount, scale, price)
    <2>1. f.coin = c /\ f.amount = amount
      BY DEF Entry
    <2> HIDE DEF f
    <2>2. {g \in {f} : g.amount # NoAmount} = {f}
      BY <1>2, <2>1
    <2>3. Flow({f}) = {<<f.coin, f.amount>>}
      BY <2>2 DEF Flow
    <2>4. QED BY <2>1, <2>3 DEF f
  <1>3. ASSUME NEW c, NEW scale, NEW price
        PROVE  Flow({Entry(c, NoAmount, scale, price)}) = {}
    BY <1>3 DEF Flow, Entry
  <1>4. QED BY <1>1, <1>2, <1>3

\* An amount with the decimals of its pool.
LEMMA FlowOfPool ==
  ASSUME NEW c, NEW amount, amount # NoAmount, NEW prices, NEW decimals
  PROVE  Flow({ByPool(c, amount, prices, decimals)}) = {<<c, amount>>}
  <1>1. \A scale, price : Flow({Entry(c, amount, scale, price)}) = {<<c, amount>>}
    BY FlowOfEntries
  <1>2. QED BY <1>1, Zenon DEF ByPool

\* The same for every kind of entry with an amount.
LEMMA FlowOfAmounts ==
  ASSUME NEW c, NEW amount, amount # NoAmount, NEW prices, NEW decimals
  PROVE  /\ Flow({ByPrice(c, amount, prices)}) = {<<c, amount>>}
         /\ Flow({ByPool(c, amount, prices, decimals)}) = {<<c, amount>>}
         /\ Flow({ByNoPrice(c, amount)}) = {<<c, amount>>}
         /\ \A price : Flow({ByNine(c, amount, price)}) = {<<c, amount>>}
         /\ \A scale : Flow({Entry(c, amount, scale, FALSE)}) = {<<c, amount>>}
  <1>1. \A scale : Flow({Entry(c, amount, scale, FALSE)}) = {<<c, amount>>}
    <2> SUFFICES ASSUME NEW scale
                 PROVE  Flow({Entry(c, amount, scale, FALSE)}) = {<<c, amount>>}
      OBVIOUS
    <2> DEFINE f == Entry(c, amount, scale, FALSE)
    <2>1. f.coin = c /\ f.amount = amount
      BY DEF Entry
    <2> HIDE DEF f
    <2>2. {g \in {f} : g.amount # NoAmount} = {f}
      BY <2>1
    <2>3. Flow({f}) = {<<f.coin, f.amount>>}
      BY <2>2 DEF Flow
    <2>4. QED BY <2>1, <2>3 DEF f
  <1>2. /\ Flow({ByPrice(c, amount, prices)}) = {<<c, amount>>}
        /\ Flow({ByPool(c, amount, prices, decimals)}) = {<<c, amount>>}
        /\ Flow({ByNoPrice(c, amount)}) = {<<c, amount>>}
        /\ \A price : Flow({ByNine(c, amount, price)}) = {<<c, amount>>}
    <2>1. \A scale, price : Flow({Entry(c, amount, scale, price)}) = {<<c, amount>>}
      BY FlowOfEntries
    <2>2. QED BY <2>1, Zenon DEF ByPrice, ByPool, ByNoPrice, ByNine
  <1>3. QED BY <1>1, <1>2

\* A handler with one row: its two sides are what was given and got.
LEMMA OneRow ==
  ASSUME NEW event, NEW action, NEW input, NEW output,
         \A f \in input \cup output : EntryScaled(event, f)
  PROVE  /\ GivenIn({Row(action, input, output)}) = Flow(input)
         /\ GotIn({Row(action, input, output)}) = Flow(output)
         /\ RowsScaled(event, {Row(action, input, output)})
  <1> DEFINE r == Row(action, input, output)
  <1>1. r.input = input /\ r.output = output
    BY DEF Row
  <1>2. UNION {row.input : row \in {r}} = input /\ UNION {row.output : row \in {r}} = output
    <2> HIDE DEF r
    <2>1. QED BY <1>1
  <1>3. GivenIn({r}) = Flow(input) /\ GotIn({r}) = Flow(output)
    BY <1>2 DEF GivenIn, GotIn
  <1>4. RowsScaled(event, {r})
    <2> HIDE DEF r
    <2>1. QED BY <1>1 DEF RowsScaled
  <1>5. QED BY <1>3, <1>4

\* Rows with one entry.
LEMMA OneEntry ==
  ASSUME NEW event, NEW action, NEW f, EntryScaled(event, f)
  PROVE  /\ GivenIn(Gives(action, f)) = Flow({f}) /\ GotIn(Gives(action, f)) = {}
         /\ GivenIn(Gets(action, f)) = {} /\ GotIn(Gets(action, f)) = Flow({f})
         /\ RowsScaled(event, Gives(action, f)) /\ RowsScaled(event, Gets(action, f))
  <1>1. Flow({}) = {}
    BY FlowOfEntries
  <1>2. \A h \in {f} \cup {} : EntryScaled(event, h)
    OBVIOUS
  <1>3. \A h \in {} \cup {f} : EntryScaled(event, h)
    OBVIOUS
  <1>4. /\ GivenIn({Row(action, {f}, {})}) = Flow({f})
        /\ GotIn({Row(action, {f}, {})}) = Flow({})
        /\ RowsScaled(event, {Row(action, {f}, {})})
    BY <1>2, OneRow
  <1>5. /\ GivenIn({Row(action, {}, {f})}) = Flow({})
        /\ GotIn({Row(action, {}, {f})}) = Flow({f})
        /\ RowsScaled(event, {Row(action, {}, {f})})
    BY <1>3, OneRow
  <1>6. QED BY <1>1, <1>4, <1>5 DEF Gives, Gets

\* Rows of liquidity: the action tells the side.
LEMMA LiquidityRow ==
  ASSUME NEW event, NEW action, NEW f, NEW g, EntryScaled(event, f), EntryScaled(event, g),
         NEW both, both = Flow({f}) \cup Flow({g}),
         NEW rows, rows = {Liquidity(action, f, g)}
  PROVE  /\ RowsScaled(event, rows)
         /\ LiquiditySides(action, rows, both)
  <1>1. \A h \in {f, g} \cup {} : EntryScaled(event, h)
    OBVIOUS
  <1>2. \A h \in {} \cup {f, g} : EntryScaled(event, h)
    OBVIOUS
  <1>3. Flow({f, g}) = both /\ Flow({}) = {}
    BY FlowOfEntries
  <1>4. CASE action \in {"Add", "Mint"}
    <2>1. rows = {Row(action, {f, g}, {})}
      BY <1>4 DEF Liquidity
    <2>2. /\ GivenIn(rows) = Flow({f, g}) /\ GotIn(rows) = Flow({})
          /\ RowsScaled(event, rows)
      BY <1>1, <2>1, OneRow
    <2>3. QED BY <1>3, <1>4, <2>2 DEF Sides, LiquiditySides
  <1>5. CASE action \notin {"Add", "Mint"}
    <2>1. rows = {Row(action, {}, {f, g})}
      BY <1>5 DEF Liquidity
    <2>2. /\ GivenIn(rows) = Flow({}) /\ GotIn(rows) = Flow({f, g})
          /\ RowsScaled(event, rows)
      BY <1>2, <2>1, OneRow
    <2>3. QED BY <1>3, <1>5, <2>2 DEF Sides, LiquiditySides
  <1>6. QED BY <1>4, <1>5

\* Both coins, however they are valued.
LEMMA BothCoins ==
  ASSUME NEW event, NEW action, NEW e \in DefiEvent, NEW n,
         NEW prices, NEW decimals, Told(prices, decimals),
         NEW rows \in BothRows(action, e, n, prices, decimals),
         NEW both, both = {<<e.x, X(n)>>, <<e.y, Y(n)>>}
  PROVE  /\ RowsScaled(event, rows)
         /\ LiquiditySides(action, rows, both)
  <1>1. e.x \in Coin /\ e.y \in Coin /\ X(n) # NoAmount /\ Y(n) # NoAmount
    BY AmountsNamed DEF DefiEvent
  <1>2. PICK f, g : /\ rows = {Liquidity(action, f, g)}
                    /\ EntryScaled(event, f) /\ EntryScaled(event, g)
                    /\ Flow({f}) = {<<e.x, X(n)>>} /\ Flow({g}) = {<<e.y, Y(n)>>}
    <2>1. CASE rows = PriceLiquidity(action, e, n, prices)
      <3> DEFINE f == ByPrice(e.x, X(n), prices)
                 g == ByPrice(e.y, Y(n), prices)
      <3>1. rows = {Liquidity(action, f, g)}
        BY <2>1 DEF PriceLiquidity
      <3>2. EntryScaled(event, f) /\ EntryScaled(event, g)
        BY <1>1, EntriesScaled
      <3>3. Flow({f}) = {<<e.x, X(n)>>} /\ Flow({g}) = {<<e.y, Y(n)>>}
        BY <1>1, FlowOfAmounts, Zenon
      <3> HIDE DEF f, g
      <3>4. QED BY <3>1, <3>2, <3>3
    <2>2. CASE rows = PoolLiquidity(action, e, n, prices, decimals)
      <3> DEFINE f == ByPool(e.x, X(n), prices, decimals)
                 g == ByPool(e.y, Y(n), prices, decimals)
      <3>1. rows = {Liquidity(action, f, g)}
        BY <2>2 DEF PoolLiquidity
      <3>2. EntryScaled(event, f) /\ EntryScaled(event, g)
        BY <1>1, EntriesScaled
      <3>3. Flow({f}) = {<<e.x, X(n)>>} /\ Flow({g}) = {<<e.y, Y(n)>>}
        BY <1>1, FlowOfPool
      <3> HIDE DEF f, g
      <3>4. QED BY <3>1, <3>2, <3>3
    <2>3. CASE rows = BareLiquidity(action, e, n)
      <3> DEFINE f == ByNoPrice(e.x, X(n))
                 g == ByNoPrice(e.y, Y(n))
      <3>1. rows = {Liquidity(action, f, g)}
        BY <2>3 DEF BareLiquidity
      <3>2. EntryScaled(event, f) /\ EntryScaled(event, g)
        BY <1>1, EntriesScaled
      <3>3. Flow({f}) = {<<e.x, X(n)>>} /\ Flow({g}) = {<<e.y, Y(n)>>}
        BY <1>1, FlowOfAmounts, Zenon
      <3> HIDE DEF f, g
      <3>4. QED BY <3>1, <3>2, <3>3
    <2>4. QED BY <2>1, <2>2, <2>3 DEF BothRows
  <1>3. Flow({f}) \cup Flow({g}) = both
    BY <1>2
  <1>4. RowsScaled(event, rows)
    BY <1>2, <1>3, LiquidityRow
  <1>5. LiquiditySides(action, rows, both)
    BY <1>2, <1>3, LiquidityRow
  <1>6. QED BY <1>4, <1>5


\* What an event means, by its kind.
LEMMA MeaningByKind ==
  ASSUME NEW e \in DefiEvent, NEW n
  PROVE  /\ e.kind \in GivesBoth =>
              GivenBy(e, n) = {<<e.x, X(n)>>, <<e.y, Y(n)>>} /\ GotBy(e, n) = {}
         /\ e.kind \in GetsBoth =>
              GivenBy(e, n) = {} /\ GotBy(e, n) = {<<e.x, X(n)>>, <<e.y, Y(n)>>}
         /\ e.kind \in GivesX => GivenBy(e, n) = {<<e.x, X(n)>>} /\ GotBy(e, n) = {}
         /\ e.kind \in GetsX => GivenBy(e, n) = {} /\ GotBy(e, n) = {<<e.x, X(n)>>}
         /\ e.kind \in GetsY => GivenBy(e, n) = {} /\ GotBy(e, n) = {<<e.y, Y(n)>>}
         /\ e.kind \in Exchanges =>
              GivenBy(e, n) = {<<e.x, X(n)>>} /\ GotBy(e, n) = {<<e.y, Y(n)>>}
         /\ e.kind \in {"CeOpen", "CeClose", "ScBorrow"} =>
              GivenBy(e, n) = {} /\ GotBy(e, n) = {}
  <1> USE DEF GivesBoth, GetsBoth, GivesX, GetsX, GetsY, Exchanges
  <1>1. ASSUME e.kind \in GivesBoth
        PROVE  GivenBy(e, n) = {<<e.x, X(n)>>, <<e.y, Y(n)>>} /\ GotBy(e, n) = {}
    BY <1>1 DEF GivenBy, GotBy
  <1>2. ASSUME e.kind \in GetsBoth
        PROVE  GivenBy(e, n) = {} /\ GotBy(e, n) = {<<e.x, X(n)>>, <<e.y, Y(n)>>}
    BY <1>2 DEF GivenBy, GotBy
  <1>3. ASSUME e.kind \in GivesX
        PROVE  GivenBy(e, n) = {<<e.x, X(n)>>} /\ GotBy(e, n) = {}
    BY <1>3 DEF GivenBy, GotBy
  <1>4. ASSUME e.kind \in GetsX
        PROVE  GivenBy(e, n) = {} /\ GotBy(e, n) = {<<e.x, X(n)>>}
    BY <1>4 DEF GivenBy, GotBy
  <1>5. ASSUME e.kind \in GetsY
        PROVE  GivenBy(e, n) = {} /\ GotBy(e, n) = {<<e.y, Y(n)>>}
    BY <1>5 DEF GivenBy, GotBy
  <1>6. ASSUME e.kind \in Exchanges
        PROVE  GivenBy(e, n) = {<<e.x, X(n)>>} /\ GotBy(e, n) = {<<e.y, Y(n)>>}
    BY <1>6 DEF GivenBy, GotBy
  <1>7. ASSUME e.kind \in {"CeOpen", "CeClose", "ScBorrow"}
        PROVE  GivenBy(e, n) = {} /\ GotBy(e, n) = {}
    BY <1>7 DEF GivenBy, GotBy
  <1> HIDE DEF GivesBoth, GetsBoth, GivesX, GetsX, GetsY, Exchanges
  <1>8. QED BY <1>1, <1>2, <1>3, <1>4, <1>5, <1>6, <1>7


\* The handlers of liquidity with two coins and two amounts.
LEMMA BothBelievable ==
  ASSUME NEW n \in DOMAIN topic, topic[n] \in DefiEvent,
         NEW prices, NEW decimals, Told(prices, decimals),
         NEW action, NEW rows \in BothRows(action, topic[n], n, prices, decimals),
         \/ action \in {"Add", "Mint"} /\ topic[n].kind \in GivesBoth
         \/ action \in {"Remove", "Fee"} /\ topic[n].kind \in GetsBoth
  PROVE  RowsOfEventBelievable(n, rows)
  <1> DEFINE e == topic[n]
             both == {<<e.x, X(n)>>, <<e.y, Y(n)>>}
  <1>1. rows \in BothRows(action, e, n, prices, decimals)
    OBVIOUS
  <1>2. RowsScaled(e.kind, rows) /\ LiquiditySides(action, rows, both)
    <2>1. e \in DefiEvent
      OBVIOUS
    <2>2. both = {<<e.x, X(n)>>, <<e.y, Y(n)>>}
      OBVIOUS
    <2> HIDE DEF e, both
    <2>3. RowsScaled(e.kind, rows)
      BY <1>1, <2>1, <2>2, BothCoins
    <2>4. LiquiditySides(action, rows, both)
      BY <1>1, <2>1, <2>2, BothCoins
    <2>5. QED BY <2>3, <2>4
  <1>3. /\ e.kind \in GivesBoth => GivenBy(e, n) = both /\ GotBy(e, n) = {}
        /\ e.kind \in GetsBoth => GivenBy(e, n) = {} /\ GotBy(e, n) = both
    BY MeaningByKind
  <1>4. Sides(rows, GivenBy(e, n), GotBy(e, n))
    <2> HIDE DEF e, both
    <2>1. CASE action \in {"Add", "Mint"} /\ e.kind \in GivesBoth
      BY <1>2, <1>3, <2>1 DEF LiquiditySides
    <2>2. CASE action \in {"Remove", "Fee"} /\ e.kind \in GetsBoth
      BY <1>2, <1>3, <2>2 DEF LiquiditySides
    <2>3. QED BY <2>1, <2>2 DEF e
  <1>5. QED BY <1>2, <1>4 DEF RowsOfEventBelievable

\* The handlers with one coin, which is given or got.
LEMMA OneBelievable ==
  ASSUME NEW n \in DOMAIN topic, topic[n] \in DefiEvent,
         NEW action, NEW f, NEW rows, EntryScaled(topic[n].kind, f),
         \/ rows = Gives(action, f) /\ topic[n].kind \in GivesX \cup Inverted \cup LeftOut
         \/ rows = Gets(action, f) /\ topic[n].kind \in GetsX,
         \/ Flow({f}) = {<<topic[n].x, X(n)>>}
         \/ topic[n].kind \in Inverted \cup LeftOut
         \/ Shadowed(n)
  PROVE  RowsOfEventBelievable(n, rows)
  <1> DEFINE e == topic[n]
  <1>1. /\ Sides(Gives(action, f), Flow({f}), {}) /\ Sides(Gets(action, f), {}, Flow({f}))
        /\ RowsScaled(e.kind, rows)
    <2>1. (rows = Gives(action, f) \/ rows = Gets(action, f)) /\ EntryScaled(e.kind, f)
      OBVIOUS
    <2> HIDE DEF e
    <2>2. /\ GivenIn(Gives(action, f)) = Flow({f}) /\ GotIn(Gives(action, f)) = {}
          /\ GivenIn(Gets(action, f)) = {} /\ GotIn(Gets(action, f)) = Flow({f})
      BY <2>1, OneEntry
    <2>3. RowsScaled(e.kind, Gives(action, f)) /\ RowsScaled(e.kind, Gets(action, f))
      BY <2>1, OneEntry
    <2>4. QED BY <2>1, <2>2, <2>3 DEF Sides
  <1>2. CASE e.kind \in Inverted \cup LeftOut \/ Shadowed(n)
    BY <1>1, <1>2 DEF RowsOfEventBelievable
  <1>3. CASE Flow({f}) = {<<e.x, X(n)>>} /\ e.kind \notin Inverted \cup LeftOut
    <2>1. /\ e.kind \in GivesX => GivenBy(e, n) = {<<e.x, X(n)>>} /\ GotBy(e, n) = {}
          /\ e.kind \in GetsX => GivenBy(e, n) = {} /\ GotBy(e, n) = {<<e.x, X(n)>>}
      BY MeaningByKind
    <2>2. \/ rows = Gives(action, f) /\ e.kind \in GivesX
          \/ rows = Gets(action, f) /\ e.kind \in GetsX
      BY <1>3
    <2>3. Sides(rows, GivenBy(e, n), GotBy(e, n))
      BY <1>1, <1>3, <2>1, <2>2
    <2>4. QED BY <1>1, <2>3 DEF RowsOfEventBelievable
  <1>4. QED BY <1>2, <1>3

\* A set of places that is not empty has a least element.
LEMMA LeastExists ==
  ASSUME NEW N \in Nat, NEW S \in SUBSET (1 .. N), S # {}
  PROVE  \E m \in S : \A k \in S : m <= k
  <1> DEFINE places == 1 .. N
             order  == StrictSubsetOrdering(places)
             all    == {1 .. k : k \in S}
  <1>1. IsWellFoundedOn(order, SUBSET places)
    <2>1. IsFiniteSet(places)
      BY FS_Interval
    <2> HIDE DEF places
    <2>2. QED BY <2>1, FS_StrictSubsetOrderingWellFounded, FS_FiniteSubsetsOfFinite
  <1>2. all \subseteq SUBSET places /\ all # {}
    <2>1. \A k \in S : 1 .. k \subseteq places
      OBVIOUS
    <2> HIDE DEF places
    <2>2. QED BY <2>1
  <1>3. PICK least \in all : \A other \in all : <<other, least>> \notin order
    <2> HIDE DEF all, order
    <2>1. QED BY <1>1, <1>2, WFMin
  <1>4. PICK m \in S : least = 1 .. m
    OBVIOUS
  <1>5. ASSUME NEW k \in S, ~(m <= k) PROVE FALSE
    <2>1. 1 .. k \in all /\ 1 .. k \subseteq places /\ 1 .. m \subseteq places
      OBVIOUS
    <2>2. 1 .. k \subseteq 1 .. m /\ m \in 1 .. m /\ m \notin 1 .. k
      BY <1>5
    <2>3. <<1 .. k, 1 .. m>> \in order
      BY <2>1, <2>2 DEF StrictSubsetOrdering
    <2>4. QED BY <1>3, <1>4, <2>1, <2>3
  <1>6. QED BY <1>5

\* The first event of its kinds in the transaction of an event of navi, which
\* is that event or one before it.
LEMMA PoolCoinFirst ==
  ASSUME topic \in Seq(DefiEvent), NEW n \in DOMAIN topic, NEW side \in {Deposits, Withdraws},
         topic[n].kind \in side
  PROVE  /\ PoolCoin(topic, n, side) \in Coin
         /\ PoolCoin(topic, n, side) = topic[n].x \/ Shadowed(n)
  <1> DEFINE found == {m \in DOMAIN topic : topic[m].tx = topic[n].tx /\ topic[m].kind \in side}
             first == CHOOSE m \in found : \A k \in found : m <= k
  <1>1. DOMAIN topic = 1 .. Len(topic) /\ \A m \in DOMAIN topic : topic[m] \in DefiEvent
    BY ElementOfSeq
  <1>2. n \in found /\ found \subseteq Nat
    BY <1>1
  <1>3. \E m \in found : \A k \in found : m <= k
    <2>1. Len(topic) \in Nat /\ found \in SUBSET (1 .. Len(topic)) /\ found # {}
      BY <1>1, <1>2
    <2> HIDE DEF found
    <2>2. QED BY <2>1, LeastExists
  <1>4. first \in found /\ first <= n
    <2>1. first \in found /\ \A k \in found : first <= k
      <3> HIDE DEF found
      <3>1. QED BY <1>3
    <2> HIDE DEF first, found
    <2>2. QED BY <1>2, <2>1
  <1>5. PoolCoin(topic, n, side) = topic[first].x
    BY DEF PoolCoin
  <1> HIDE DEF first
  <1>6. first \in DOMAIN topic /\ topic[first].tx = topic[n].tx /\ topic[first].kind \in side
    BY <1>4
  <1>7. topic[first].x \in Coin
    BY <1>1, <1>6 DEF DefiEvent
  <1>8. first = n \/ first \in 1 .. n - 1
    BY <1>1, <1>4, <1>6
  <1>9. ASSUME topic[first].x # topic[n].x PROVE Shadowed(n)
    <2>1. first \in 1 .. n - 1
      BY <1>8, <1>9
    <2>2. QED BY <1>6, <1>9, <2>1 DEF Shadowed
  <1>10. QED BY <1>5, <1>7, <1>9

\* What the handlers are, by the kind of the event.
LEMMA HandlersOfBoth ==
  ASSUME NEW n, NEW prices, NEW decimals
  PROVE  LET e == topic[n]
             rows == Process(topic, n, prices, decimals)
         IN
         /\ e.kind \in {"AmAdd", "BmAdd", "CeAdd", "FxAdd", "KrAdd", "SsAdded"} =>
              rows \in BothRows("Add", e, n, prices, decimals)
         /\ e.kind = "TuMint" => rows \in BothRows("Mint", e, n, prices, decimals)
         /\ e.kind \in {"AmRemove", "BmRemove", "CeRemove", "FxRemove", "KrRemove",
                        "SsRemoved", "TuBurn"} =>
              rows \in BothRows("Remove", e, n, prices, decimals)
         /\ e.kind = "CeFee" => rows \in BothRows("Fee", e, n, prices, decimals)
  BY DEF Process, BothRows, BareLiquidity, AmAdd, BmAdd, AmRemove, BmRemove, CeAdd, FxAdd,
         KrAdd, SsLiquidity, TuMint, CeRemove, FxRemove, KrRemove, TuBurn, CeFee

\* An amount with nine decimals and no price, and a coin without an amount.
Unpriced(c, amount) == ByNine(c, amount, FALSE)
Unknowing(c)        == Entry(c, NoAmount, 0, FALSE)

\* The same for those with one coin.
LEMMA HandlersOfOne ==
  ASSUME NEW n, NEW prices, NEW decimals
  PROVE  LET e == topic[n]
             rows == Process(topic, n, prices, decimals)
         IN
         /\ e.kind \in {"ScCollateral", "ScRepay", "ScVeStake", "StStake"} =>
              \E action : rows = Gives(action, ByPrice(e.x, X(n), prices))
         /\ e.kind \in {"ScWithdraw", "ScReward", "ScIncentive", "StUnstake"} =>
              \E action : rows = Gets(action, ByPrice(e.x, X(n), prices))
         /\ e.kind = "CeReward" =>
              \E action : rows = Gets(action, ByNoPrice(e.x, X(n)))
         /\ e.kind \in {"AmStake", "AmUnstake", "CeStakeLP", "CeUnstakeLP", "ScStake"} =>
              \E action : rows = Gives(action, Unpriced(e.x, X(n)))
         /\ e.kind = "ScUnstake" =>
              \E action : rows = Gets(action, Unpriced(e.x, X(n)))
         /\ e.kind \in Deposits =>
              \E action : rows = Gives(action, ByPrice(PoolCoin(topic, n, Deposits), X(n), prices))
         /\ e.kind \in Withdraws =>
              \E action : rows = Gets(action, ByPrice(PoolCoin(topic, n, Withdraws), X(n), prices))
  BY DEF Unpriced, Process, ScCollateral, ScRepay, ScVeStake, StStake, CeReward, ScWithdraw, ScReward,
         ScIncentive, StUnstake, AmStake, AmUnstake, CeStakeLP, CeUnstakeLP, ScStake, ScUnstake,
         Deposits, Withdraws, NaMint, NaRepay, NaWithdraw, NaBorrow

\* And those of kriya, which save no amount.
LEMMA HandlersOfFarms ==
  ASSUME NEW n, NEW prices, NEW decimals, topic[n].kind \in {"KrStake", "KrUnstake", "KrClaim"}
  PROVE  \E action : Process(topic, n, prices, decimals) = Gives(action, Unknowing(topic[n].x))
  BY DEF Unknowing, Process, KrStake, KrUnstake, KrClaim

\* The handlers of an event that exchanges one coin for another.
LEMMA ExchangeBelievable ==
  ASSUME NEW n \in DOMAIN topic, topic[n] \in DefiEvent,
         topic[n].kind \in {"CeMint", "CeRedeem", "ScMint", "ScRedeem"},
         NEW prices, NEW decimals, Told(prices, decimals)
  PROVE  RowsOfEventBelievable(n, Process(topic, n, prices, decimals))
  <1> DEFINE e    == topic[n]
             rows == Process(topic, n, prices, decimals)
  <1>1. e.x \in Coin /\ e.y \in Coin /\ X(n) # NoAmount /\ Y(n) # NoAmount
    BY AmountsNamed DEF DefiEvent
  <1>2. PICK action, f, g : /\ rows = {Row(action, {f}, {g})}
                            /\ EntryScaled(e.kind, f) /\ EntryScaled(e.kind, g)
                            /\ e.kind # "CeMint" => Flow({f}) = {<<e.x, X(n)>>}
                            /\ Flow({g}) = {<<e.y, Y(n)>>}
    <2>1. CASE e.kind = "CeMint"
      <3> DEFINE f == Entry(e.x, NoAmount, 0, HasPrice(e.x, prices))
                 g == ByNine(e.y, Y(n), FALSE)
      <3>1. rows = {Row("Stake", {f}, {g})}
        BY <2>1 DEF Process, CeMint
      <3>2. EntryScaled(e.kind, f) /\ EntryScaled(e.kind, g)
        BY <1>1, EntriesScaled
      <3>3. Flow({g}) = {<<e.y, Y(n)>>}
        BY <1>1, FlowOfAmounts, Zenon
      <3> HIDE DEF f, g
      <3>4. QED BY <2>1, <3>1, <3>2, <3>3
    <2>2. CASE e.kind = "CeRedeem"
      <3> DEFINE f == ByNine(e.x, X(n), FALSE)
                 g == ByNine(e.y, Y(n), HasPrice(e.y, prices))
      <3>1. rows = {Row("Unstake", {f}, {g})}
        BY <2>2 DEF Process, CeRedeem
      <3>2. e.kind \in AlwaysNine
        BY <2>2 DEF AlwaysNine
      <3>3. EntryScaled(e.kind, f) /\ EntryScaled(e.kind, g)
        BY <1>1, <3>2, EntriesScaled
      <3>4. Flow({f}) = {<<e.x, X(n)>>} /\ Flow({g}) = {<<e.y, Y(n)>>}
        BY <1>1, FlowOfAmounts, Zenon
      <3> HIDE DEF f, g
      <3>5. QED BY <3>1, <3>3, <3>4
    <2>3. CASE e.kind = "ScMint"
      <3> DEFINE f == ByPrice(e.x, X(n), prices)
                 g == Entry(e.y, Y(n), PriceDecimals(e.x, prices), FALSE)
      <3>1. rows = {Row("Add", {f}, {g})}
        BY <2>3 DEF Process, ScMint
      <3>2. EntryScaled(e.kind, f) /\ EntryScaled(e.kind, g)
        BY <1>1, EntriesScaled
      <3>3. Flow({f}) = {<<e.x, X(n)>>}
        BY <1>1, FlowOfAmounts
      <3>4. Flow({g}) = {<<e.y, Y(n)>>}
        BY <1>1, FlowOfAmounts, Zenon
      <3> HIDE DEF f, g
      <3>5. QED BY <3>1, <3>2, <3>3, <3>4
    <2>4. CASE e.kind = "ScRedeem"
      <3> DEFINE f == Entry(e.x, X(n), PriceDecimals(e.y, prices), FALSE)
                 g == ByPrice(e.y, Y(n), prices)
      <3>1. rows = {Row("Remove", {f}, {g})}
        BY <2>4 DEF Process, ScRedeem
      <3>2. EntryScaled(e.kind, f) /\ EntryScaled(e.kind, g)
        BY <1>1, EntriesScaled
      <3>3. Flow({f}) = {<<e.x, X(n)>>}
        BY <1>1, FlowOfAmounts
      <3>4. Flow({g}) = {<<e.y, Y(n)>>}
        BY <1>1, FlowOfAmounts, Zenon
      <3> HIDE DEF f, g
      <3>5. QED BY <3>1, <3>2, <3>3, <3>4
    <2>5. QED BY <2>1, <2>2, <2>3, <2>4
  <1>3. /\ GivenIn(rows) = Flow({f}) /\ GotIn(rows) = Flow({g}) /\ RowsScaled(e.kind, rows)
    <2>1. \A h \in {f} \cup {g} : EntryScaled(e.kind, h)
      BY <1>2
    <2>2. rows = {Row(action, {f}, {g})}
      BY <1>2
    <2> HIDE DEF e, rows
    <2>3. GivenIn({Row(action, {f}, {g})}) = Flow({f})
      BY <2>1, OneRow
    <2>4. GotIn({Row(action, {f}, {g})}) = Flow({g})
      BY <2>1, OneRow
    <2>5. RowsScaled(e.kind, {Row(action, {f}, {g})})
      BY <2>1, OneRow
    <2>6. QED BY <2>2, <2>3, <2>4, <2>5
  <1>4. CASE e.kind = "CeMint"
    BY <1>3, <1>4 DEF RowsOfEventBelievable, LeftOut
  <1>5. CASE e.kind # "CeMint"
    <2>1. GivenBy(e, n) = {<<e.x, X(n)>>} /\ GotBy(e, n) = {<<e.y, Y(n)>>}
      BY MeaningByKind DEF Exchanges
    <2>2. Sides(rows, GivenBy(e, n), GotBy(e, n))
      BY <1>2, <1>3, <1>5, <2>1 DEF Sides
    <2>3. QED BY <1>3, <2>2 DEF RowsOfEventBelievable
  <1>6. QED BY <1>4, <1>5

\* The handlers whose rows lack amounts, and TuCollect, which has one of two.
LEMMA PartialBelievable ==
  ASSUME NEW n \in DOMAIN topic, topic[n] \in DefiEvent,
         topic[n].kind \in {"CeOpen", "CeClose", "TuCollect0", "TuCollect1"},
         NEW prices, NEW decimals, Told(prices, decimals)
  PROVE  RowsOfEventBelievable(n, Process(topic, n, prices, decimals))
  <1> DEFINE e    == topic[n]
             rows == Process(topic, n, prices, decimals)
  <1>1. e.x \in Coin /\ e.y \in Coin /\ X(n) # NoAmount /\ Y(n) # NoAmount
    BY AmountsNamed DEF DefiEvent
  <1>2. PICK action, f, g :
             /\ rows = {Liquidity(action, f, g)}
             /\ EntryScaled(e.kind, f) /\ EntryScaled(e.kind, g)
             /\ e.kind \in {"CeOpen", "CeClose"} => Flow({f}) = {} /\ Flow({g}) = {}
             /\ e.kind = "TuCollect0" => Flow({f}) = {<<e.x, X(n)>>} /\ Flow({g}) = {}
             /\ e.kind = "TuCollect1" => Flow({f}) = {} /\ Flow({g}) = {<<e.y, Y(n)>>}
             /\ e.kind \in {"TuCollect0", "TuCollect1"} => action = "Fee"
    <2>1. CASE e.kind \in {"CeOpen", "CeClose"}
      <3> DEFINE f == Entry(e.x, NoAmount, 0, FALSE)
                 g == Entry(e.y, NoAmount, 0, FALSE)
      <3>1. PICK action : rows = {Liquidity(action, f, g)}
        BY <2>1 DEF Process, CeOpen, CeClose, Unvalued
      <3>2. EntryScaled(e.kind, f) /\ EntryScaled(e.kind, g)
        BY <1>1, EntriesScaled
      <3>3. Flow({f}) = {} /\ Flow({g}) = {}
        BY FlowOfEntries
      <3> HIDE DEF f, g
      <3>4. QED BY <2>1, <3>1, <3>2, <3>3
    <2>2. CASE e.kind = "TuCollect0"
      <3> DEFINE f == ByPool(e.x, X(n), prices, decimals)
                 g == ByPool(e.y, NoAmount, prices, decimals)
      <3>1. rows = {Liquidity("Fee", f, g)}
        BY <2>2 DEF Process, TuCollect
      <3>2. EntryScaled(e.kind, f) /\ EntryScaled(e.kind, g)
        BY <1>1, EntriesScaled
      <3>3. Flow({f}) = {<<e.x, X(n)>>} /\ Flow({g}) = {}
        BY <1>1, FlowOfAmounts, FlowOfEntries DEF ByPool
      <3> HIDE DEF f, g
      <3>4. QED BY <2>2, <3>1, <3>2, <3>3
    <2>3. CASE e.kind = "TuCollect1"
      <3> DEFINE f == ByPool(e.x, NoAmount, prices, decimals)
                 g == ByPool(e.y, Y(n), prices, decimals)
      <3>1. rows = {Liquidity("Fee", f, g)}
        BY <2>3 DEF Process, TuCollect
      <3>2. EntryScaled(e.kind, f) /\ EntryScaled(e.kind, g)
        BY <1>1, EntriesScaled
      <3>3. Flow({f}) = {} /\ Flow({g}) = {<<e.y, Y(n)>>}
        BY <1>1, FlowOfAmounts, FlowOfEntries DEF ByPool
      <3> HIDE DEF f, g
      <3>4. QED BY <2>3, <3>1, <3>2, <3>3
    <2>4. QED BY <2>1, <2>2, <2>3
  <1>3. RowsScaled(e.kind, rows)
        /\ LiquiditySides(action, rows, Flow({f}) \cup Flow({g}))
    <2> DEFINE both == Flow({f}) \cup Flow({g})
    <2> HIDE DEF e, rows
    <2>1. RowsScaled(e.kind, rows)
      BY <1>2, LiquidityRow
    <2>2. LiquiditySides(action, rows, both)
      BY <1>2, LiquidityRow
    <2>3. QED BY <2>1, <2>2
  <1>4. CASE e.kind \in {"CeOpen", "CeClose"}
    <2>1. GivenBy(e, n) = {} /\ GotBy(e, n) = {}
      BY <1>4, MeaningByKind
    <2>2. Flow({f}) \cup Flow({g}) = {}
      BY <1>2, <1>4
    <2>3. Sides(rows, {}, {})
      BY <1>3, <2>2 DEF LiquiditySides
    <2>4. QED BY <1>3, <2>1, <2>3 DEF RowsOfEventBelievable
  <1>5. CASE e.kind = "TuCollect0"
    <2>1. GivenBy(e, n) = {} /\ GotBy(e, n) = {<<e.x, X(n)>>}
      BY <1>5, MeaningByKind DEF GetsX
    <2>2. Flow({f}) \cup Flow({g}) = {<<e.x, X(n)>>} /\ action = "Fee"
      BY <1>2, <1>5
    <2>3. Sides(rows, {}, {<<e.x, X(n)>>})
      BY <1>3, <2>2 DEF LiquiditySides
    <2>4. QED BY <1>3, <2>1, <2>3 DEF RowsOfEventBelievable
  <1>6. CASE e.kind = "TuCollect1"
    <2>1. GivenBy(e, n) = {} /\ GotBy(e, n) = {<<e.y, Y(n)>>}
      BY <1>6, MeaningByKind DEF GetsY
    <2>2. Flow({f}) \cup Flow({g}) = {<<e.y, Y(n)>>} /\ action = "Fee"
      BY <1>2, <1>6
    <2>3. Sides(rows, {}, {<<e.y, Y(n)>>})
      BY <1>3, <2>2 DEF LiquiditySides
    <2>4. QED BY <1>3, <2>1, <2>3 DEF RowsOfEventBelievable
  <1>7. QED BY <1>4, <1>5, <1>6

\* ScBorrow, which saves nothing, and AmReward, which turns its row around.
LEMMA OddBelievable ==
  ASSUME NEW n \in DOMAIN topic, topic[n] \in DefiEvent,
         topic[n].kind \in {"ScBorrow", "AmReward"},
         NEW prices, NEW decimals, Told(prices, decimals)
  PROVE  RowsOfEventBelievable(n, Process(topic, n, prices, decimals))
  <1> DEFINE e    == topic[n]
             rows == Process(topic, n, prices, decimals)
  <1>1. CASE e.kind = "ScBorrow"
    <2>1. rows = {}
      BY <1>1 DEF Process, ScBorrow
    <2>2. GivenBy(e, n) = {} /\ GotBy(e, n) = {}
      BY <1>1, MeaningByKind
    <2>3. GivenIn({}) = {} /\ GotIn({}) = {} /\ RowsScaled(e.kind, {})
      BY FlowOfEntries DEF GivenIn, GotIn, RowsScaled
    <2>4. QED BY <2>1, <2>2, <2>3 DEF RowsOfEventBelievable, Sides
  <1>2. CASE e.kind = "AmReward"
    <2> DEFINE both == {ByPrice(e.x, X(n), prices), ByPrice(e.y, Y(n), prices)}
    <2>1. rows = {Row("Reward", {[r EXCEPT !.coin = "none"]},
                                {Entry(r.coin, NoAmount, 0, FALSE)}) : r \in both}
      BY <1>2 DEF Process, AmReward
    <2>2. ASSUME NEW r \in both
          PROVE  /\ EntryScaled(e.kind, [r EXCEPT !.coin = "none"])
                 /\ EntryScaled(e.kind, Entry(r.coin, NoAmount, 0, FALSE))
      BY CoinAssumption DEF EntryScaled, Entry, ByPrice
    <2>3. ASSUME NEW row \in rows, NEW f \in row.input \cup row.output
          PROVE  EntryScaled(e.kind, f)
      <3> HIDE DEF both
      <3>1. PICK r \in both : row = Row("Reward", {[r EXCEPT !.coin = "none"]},
                                         {Entry(r.coin, NoAmount, 0, FALSE)})
        BY <2>1
      <3>2. f = [r EXCEPT !.coin = "none"] \/ f = Entry(r.coin, NoAmount, 0, FALSE)
        BY <2>3, <3>1 DEF Row
      <3>3. QED BY <2>2, <3>2
    <2>4. RowsScaled(e.kind, rows)
      BY <2>3 DEF RowsScaled
    <2>5. QED BY <1>2, <2>4 DEF RowsOfEventBelievable, Inverted
  <1>3. QED BY <1>1, <1>2

\* Whatever the kind of an event, and whatever its handler was told: what it makes
\* of the event can be believed.
LEMMA ProcessBelievable ==
  ASSUME topic \in Seq(DefiEvent), NEW n \in DOMAIN topic,
         NEW prices, NEW decimals, Told(prices, decimals)
  PROVE  RowsOfEventBelievable(n, Process(topic, n, prices, decimals))
  <1> DEFINE e    == topic[n]
             rows == Process(topic, n, prices, decimals)
  <1>1. e \in DefiEvent
    BY ElementOfSeq, LenProperties
  <1>2. e.kind \in Kind /\ e.x \in Coin /\ X(n) # NoAmount
    BY <1>1, AmountsNamed DEF DefiEvent
  <1>3. CASE e.kind \in {"AmAdd", "BmAdd", "CeAdd", "FxAdd", "KrAdd", "SsAdded", "TuMint"}
    <2>1. PICK action \in {"Add", "Mint"} :
             rows \in BothRows(action, e, n, prices, decimals)
      BY <1>3, HandlersOfBoth
    <2>2. e.kind \in GivesBoth
      BY <1>3 DEF GivesBoth
    <2>3. QED BY <1>1, <2>1, <2>2, BothBelievable
  <1>4. CASE e.kind \in {"AmRemove", "BmRemove", "CeRemove", "FxRemove", "KrRemove",
                         "SsRemoved", "TuBurn", "CeFee"}
    <2>1. PICK action \in {"Remove", "Fee"} :
             rows \in BothRows(action, e, n, prices, decimals)
      BY <1>4, HandlersOfBoth
    <2>2. e.kind \in GetsBoth
      BY <1>4 DEF GetsBoth
    <2>3. QED BY <1>1, <2>1, <2>2, BothBelievable
  <1>5. CASE e.kind \in {"ScCollateral", "ScRepay", "ScVeStake", "StStake"}
    <2>1. PICK action : rows = Gives(action, ByPrice(e.x, X(n), prices))
      BY <1>5, HandlersOfOne, Zenon
    <2>2. /\ EntryScaled(e.kind, ByPrice(e.x, X(n), prices)) /\ e.kind \in GivesX
          /\ Flow({ByPrice(e.x, X(n), prices)}) = {<<e.x, X(n)>>}
      BY <1>2, <1>5, EntriesScaled, FlowOfAmounts DEF GivesX
    <2>3. QED BY <1>1, <2>1, <2>2, OneBelievable
  <1>6. CASE e.kind \in {"ScWithdraw", "ScReward", "ScIncentive", "StUnstake"}
    <2>1. PICK action : rows = Gets(action, ByPrice(e.x, X(n), prices))
      BY <1>6, HandlersOfOne, Zenon
    <2>2. /\ EntryScaled(e.kind, ByPrice(e.x, X(n), prices)) /\ e.kind \in GetsX
          /\ Flow({ByPrice(e.x, X(n), prices)}) = {<<e.x, X(n)>>}
      BY <1>2, <1>6, EntriesScaled, FlowOfAmounts DEF GetsX
    <2>3. QED BY <1>1, <2>1, <2>2, OneBelievable
  <1>7. CASE e.kind = "CeReward"
    <2>1. PICK action : rows = Gets(action, ByNoPrice(e.x, X(n)))
      BY <1>7, HandlersOfOne, Zenon
    <2>2. e.kind \in GetsX
      BY <1>7 DEF GetsX
    <2>3. /\ EntryScaled(e.kind, ByNoPrice(e.x, X(n)))
          /\ Flow({ByNoPrice(e.x, X(n))}) = {<<e.x, X(n)>>}
      BY <1>2, EntriesScaled, FlowOfAmounts
    <2>4. QED BY <1>1, <2>1, <2>2, <2>3, OneBelievable
  <1>8. CASE e.kind \in {"AmStake", "AmUnstake", "CeStakeLP", "CeUnstakeLP", "ScStake"}
    <2>1. PICK action : rows = Gives(action, Unpriced(e.x, X(n)))
      BY <1>8, HandlersOfOne, Zenon
    <2>2. e.kind \in GivesX \cup Inverted \cup LeftOut
      BY <1>8 DEF GivesX, Inverted
    <2>3. /\ EntryScaled(e.kind, Unpriced(e.x, X(n)))
          /\ Flow({Unpriced(e.x, X(n))}) = {<<e.x, X(n)>>}
      BY <1>2, EntriesScaled, FlowOfAmounts DEF Unpriced
    <2>4. QED BY <1>1, <2>1, <2>2, <2>3, OneBelievable
  <1>9. CASE e.kind = "ScUnstake"
    <2>1. PICK action : rows = Gets(action, Unpriced(e.x, X(n)))
      BY <1>9, HandlersOfOne, Zenon
    <2>2. e.kind \in GetsX
      BY <1>9 DEF GetsX
    <2>3. /\ EntryScaled(e.kind, Unpriced(e.x, X(n)))
          /\ Flow({Unpriced(e.x, X(n))}) = {<<e.x, X(n)>>}
      BY <1>2, EntriesScaled, FlowOfAmounts DEF Unpriced
    <2>4. QED BY <1>1, <2>1, <2>2, <2>3, OneBelievable
  <1>10. CASE e.kind \in {"KrStake", "KrUnstake", "KrClaim"}
    <2>1. PICK action : rows = Gives(action, Unknowing(e.x))
      BY <1>10, HandlersOfFarms
    <2>2. e.kind \in GivesX \cup Inverted \cup LeftOut /\ e.kind \in Inverted \cup LeftOut
      BY <1>10 DEF LeftOut
    <2>3. EntryScaled(e.kind, Unknowing(e.x))
      BY <1>2, EntriesScaled DEF Unknowing
    <2>4. QED BY <1>1, <2>1, <2>2, <2>3, OneBelievable
  <1>11. CASE e.kind \in Deposits
    <2> DEFINE c == PoolCoin(topic, n, Deposits)
    <2>1. PICK action : rows = Gives(action, ByPrice(c, X(n), prices))
      BY <1>11, HandlersOfOne, Zenon
    <2>2. c \in Coin /\ (c = e.x \/ Shadowed(n))
      BY <1>11, PoolCoinFirst
    <2>3. e.kind \in GivesX
      BY <1>11 DEF Deposits, GivesX
    <2>4. /\ EntryScaled(e.kind, ByPrice(c, X(n), prices))
          /\ Flow({ByPrice(c, X(n), prices)}) = {<<c, X(n)>>}
      BY <1>2, <2>2, EntriesScaled, FlowOfAmounts
    <2> HIDE DEF c
    <2>5. QED BY <1>1, <2>1, <2>2, <2>3, <2>4, OneBelievable
  <1>12. CASE e.kind \in Withdraws
    <2> DEFINE c == PoolCoin(topic, n, Withdraws)
    <2>1. PICK action : rows = Gets(action, ByPrice(c, X(n), prices))
      BY <1>12, HandlersOfOne, Zenon
    <2>2. c \in Coin /\ (c = e.x \/ Shadowed(n))
      BY <1>12, PoolCoinFirst
    <2>3. e.kind \in GetsX
      BY <1>12 DEF Withdraws, GetsX
    <2>4. /\ EntryScaled(e.kind, ByPrice(c, X(n), prices))
          /\ Flow({ByPrice(c, X(n), prices)}) = {<<c, X(n)>>}
      BY <1>2, <2>2, EntriesScaled, FlowOfAmounts
    <2> HIDE DEF c
    <2>5. QED BY <1>1, <2>1, <2>2, <2>3, <2>4, OneBelievable
  <1>13. CASE e.kind \in {"CeMint", "CeRedeem", "ScMint", "ScRedeem"}
    BY <1>1, <1>13, ExchangeBelievable
  <1>14. CASE e.kind \in {"CeOpen", "CeClose", "TuCollect0", "TuCollect1"}
    BY <1>1, <1>14, PartialBelievable
  <1>15. CASE e.kind \in {"ScBorrow", "AmReward"}
    BY <1>1, <1>15, OddBelievable
  <1>16. QED
    <2> HIDE DEF e, rows
    <2>1. QED BY <1>2, <1>3, <1>4, <1>5, <1>6, <1>7, <1>8, <1>9, <1>10, <1>11, <1>12, <1>13,
                 <1>14, <1>15 DEF Kind, Deposits, Withdraws

(***************************************************************************)
(* Every row of the tables says what its event means, with the coins and   *)
(* amounts of the event, but for the kinds of events that the exceptions   *)
(* name; and an amount with a price is scaled by the decimals of its coin, *)
(* or by decimals that somebody has guessed for that coin, whatever prices *)
(* and guesses arrived when (the handlers in src/protocols of defi).       *)
(***************************************************************************)
THEOREM RowsSafe == DefiSpec => []RowsBelievable
  <1>1. DefiInv => RowsBelievable
    <2> SUFFICES ASSUME DefiInv PROVE RowsBelievable
      OBVIOUS
    <2>1. topic \in Seq(DefiEvent) /\ DOMAIN saved = DOMAIN topic
      BY DefiAssumption DEF DefiInv, DefiTyped
    <2>2. ASSUME NEW n \in DOMAIN topic, NEW k \in DOMAIN saved[n]
          PROVE  RowsOfEventBelievable(n, saved[n][k])
      <3>1. saved[n] \in Seq(PossibleRows(n)) /\ guesses \subseteq Coin \X {9, 18}
        BY DEF DefiInv, DefiTyped
      <3>2. saved[n][k] \in PossibleRows(n)
        <4> HIDE DEF PossibleRows
        <4>1. QED BY <2>2, <3>1, ElementOfSeq, LenProperties
      <3>3. PICK prices \in PossibleQuotes, decimals \in PoolDecimals :
               saved[n][k] = Process(topic, n, prices, decimals)
        BY <3>2 DEF PossibleRows
      <3>4. QED BY <2>1, <3>1, <3>3, ProcessBelievable DEF Told
    <2>3. RowsMirrorEvents
      BY <2>2 DEF RowsMirrorEvents, RowsOfEventBelievable, Sides
    <2>4. ValuesScaled
      <3> SUFFICES ASSUME NEW n \in DOMAIN topic, NEW k \in DOMAIN saved[n],
                          NEW row \in saved[n][k], NEW f \in row.input \cup row.output
                   PROVE  EntryScaled(topic[n].kind, f)
        BY DEF ValuesScaled, EntryScaled
      <3>1. RowsScaled(topic[n].kind, saved[n][k])
        BY <2>2 DEF RowsOfEventBelievable
      <3>2. QED BY <3>1 DEF RowsScaled
    <2>5. QED BY <2>3, <2>4 DEF RowsBelievable
  <1>2. QED BY <1>1, DefiInitInv, DefiStep, PTL DEF DefiSpec

\* Rows whose entries are entries.
RowsTyped(rows) == \A row \in rows : row.input \cup row.output \subseteq EntryType

\* Whether something has a price is TRUE or FALSE.
LEMMA Truth == ASSUME NEW p, NEW set PROVE (p \in set) \in BOOLEAN
  <1>1. CASE p \in set
    BY <1>1
  <1>2. CASE p \notin set
    BY <1>2
  <1>3. QED BY <1>1, <1>2

\* The entries that the handlers build are entries.
LEMMA EntriesTyped ==
  ASSUME NEW c \in Coin, NEW n \in Nat, NEW amount \in {X(n), Y(n), NoAmount},
         NEW prices, NEW decimals, Told(prices, decimals)
  PROVE  /\ ByPrice(c, amount, prices) \in EntryType
         /\ ByPool(c, amount, prices, decimals) \in EntryType
         /\ ByNoPrice(c, amount) \in EntryType
         /\ \A price \in BOOLEAN : ByNine(c, amount, price) \in EntryType
         /\ \A scale \in Nat, price \in BOOLEAN : Entry(c, amount, scale, price) \in EntryType
         /\ [ByPrice(c, amount, prices) EXCEPT !.coin = "none"] \in EntryType
  <1>1. amount \in (Nat \X {"x", "y"}) \cup {NoAmount}
    BY DEF X, Y
  <1>2. ASSUME NEW d \in Coin \cup {"none"}, NEW scale \in Nat, NEW price \in BOOLEAN
        PROVE  Entry(d, amount, scale, price) \in EntryType
    <2> DEFINE amounts == (Nat \X {"x", "y"}) \cup {NoAmount}
    <2>1. amount \in amounts
      BY <1>1
    <2> HIDE DEF amounts
    <2>2. Entry(d, amount, scale, price) \in
            [coin : Coin \cup {"none"}, amount : amounts, scale : Nat, price : BOOLEAN]
      BY <2>1, Zenon DEF Entry
    <2>3. QED BY <2>2 DEF EntryType, amounts
  <1>3. HasPrice(c, prices) \in BOOLEAN
    BY Truth DEF HasPrice
  <1>4. PriceDecimals(c, prices) \in Nat /\ decimals[c] \in Nat
    <2>1. HasPrice(c, prices) => prices[c] \in Nat
      BY DEF Told, PossibleQuotes, HasPrice
    <2>2. \A d \in Nat : OrNine(d) \in Nat
      BY DEF OrNine
    <2>3. PriceDecimals(c, prices) \in Nat
      BY <2>1, <2>2 DEF PriceDecimals
    <2>4. decimals[c] \in DecimalsTold(c)
      BY DEF Told, PoolDecimals
    <2>5. DecimalsTold(c) \subseteq Nat
      BY <2>2, CoinAssumption DEF DecimalsTold
    <2>6. QED BY <2>3, <2>4, <2>5
  <1>f. FALSE \in BOOLEAN /\ 9 \in Nat /\ 18 \in Nat
    OBVIOUS
  <1>5. ByPrice(c, amount, prices) \in EntryType
    BY <1>2, <1>3, <1>4, Zenon DEF ByPrice
  <1>6. ByPool(c, amount, prices, decimals) \in EntryType
    BY <1>2, <1>3, <1>4, <1>f, Zenon DEF ByPool
  <1>7. \A price \in BOOLEAN : ByNine(c, amount, price) \in EntryType
    BY <1>2, <1>f, Zenon DEF ByNine
  <1>8. [ByPrice(c, amount, prices) EXCEPT !.coin = "none"] \in EntryType
    <2>1. [ByPrice(c, amount, prices) EXCEPT !.coin = "none"] =
            Entry("none", amount, PriceDecimals(c, prices), HasPrice(c, prices))
      BY DEF ByPrice, Entry
    <2>2. Entry("none", amount, PriceDecimals(c, prices), HasPrice(c, prices)) \in EntryType
      BY <1>2, <1>3, <1>4, Zenon
    <2>3. QED BY <2>1, <2>2
  <1>9. \A scale \in Nat, price \in BOOLEAN : Entry(c, amount, scale, price) \in EntryType
    BY <1>2, Zenon
  <1>10. ByNoPrice(c, amount) \in EntryType
    BY <1>2, <1>f, Zenon DEF ByNoPrice
  <1>11. QED BY <1>5, <1>6, <1>7, <1>8, <1>9, <1>10

\* So are those of rows with one entry or two.
LEMMA RowTyped ==
  ASSUME NEW action, NEW input, NEW output, input \cup output \subseteq EntryType
  PROVE  RowsTyped({Row(action, input, output)})
  BY DEF RowsTyped, Row

LEMMA OneTyped ==
  ASSUME NEW action, NEW f \in EntryType
  PROVE  RowsTyped(Gives(action, f)) /\ RowsTyped(Gets(action, f))
  <1>1. {f} \cup {} \subseteq EntryType /\ {} \cup {f} \subseteq EntryType
    OBVIOUS
  <1>2. QED BY <1>1, RowTyped DEF Gives, Gets

LEMMA LiquidityTyped ==
  ASSUME NEW action, NEW f \in EntryType, NEW g \in EntryType
  PROVE  RowsTyped({Liquidity(action, f, g)})
  <1>1. {f, g} \cup {} \subseteq EntryType /\ {} \cup {f, g} \subseteq EntryType
    OBVIOUS
  <1>2. CASE action \in {"Add", "Mint"}
    BY <1>1, <1>2, RowTyped DEF Liquidity
  <1>3. CASE action \notin {"Add", "Mint"}
    BY <1>1, <1>3, RowTyped DEF Liquidity
  <1>4. QED BY <1>2, <1>3

\* Whatever the kind of an event, and whatever its handler was told: what it makes of
\* the event are rows of entries.
LEMMA ProcessTyped ==
  ASSUME topic \in Seq(DefiEvent), NEW n \in DOMAIN topic,
         NEW prices, NEW decimals, Told(prices, decimals)
  PROVE  RowsTyped(Process(topic, n, prices, decimals))
  <1> DEFINE e    == topic[n]
             rows == Process(topic, n, prices, decimals)
  <1>1. e \in DefiEvent /\ n \in Nat
    BY ElementOfSeq, LenProperties
  <1>2. e.kind \in Kind /\ e.x \in Coin /\ e.y \in Coin
    BY <1>1 DEF DefiEvent
  <1>3. ASSUME NEW c \in Coin, NEW amount \in {X(n), Y(n), NoAmount}
        PROVE  /\ ByPrice(c, amount, prices) \in EntryType
               /\ ByPool(c, amount, prices, decimals) \in EntryType
               /\ ByNoPrice(c, amount) \in EntryType
               /\ \A price \in BOOLEAN : ByNine(c, amount, price) \in EntryType
               /\ \A scale \in Nat, price \in BOOLEAN : Entry(c, amount, scale, price) \in EntryType
               /\ [ByPrice(c, amount, prices) EXCEPT !.coin = "none"] \in EntryType
    BY <1>1, EntriesTyped
  <1>4. ASSUME NEW action
        PROVE  /\ RowsTyped(PriceLiquidity(action, e, n, prices))
               /\ RowsTyped(PoolLiquidity(action, e, n, prices, decimals))
               /\ RowsTyped(BareLiquidity(action, e, n))
               /\ RowsTyped(Unvalued(action, e))
    <2>1. RowsTyped(PriceLiquidity(action, e, n, prices))
      <3>1. ByPrice(e.x, X(n), prices) \in EntryType /\ ByPrice(e.y, Y(n), prices) \in EntryType
        BY <1>2, <1>3
      <3>2. QED BY <3>1, LiquidityTyped, Zenon DEF PriceLiquidity
    <2>2. RowsTyped(PoolLiquidity(action, e, n, prices, decimals))
      <3>1. ByPool(e.x, X(n), prices, decimals) \in EntryType /\ ByPool(e.y, Y(n), prices, decimals) \in EntryType
        BY <1>2, <1>3
      <3>2. QED BY <3>1, LiquidityTyped, Zenon DEF PoolLiquidity
    <2>3. RowsTyped(Unvalued(action, e))
      <3>1. 0 \in Nat /\ FALSE \in BOOLEAN
        OBVIOUS
      <3>2. /\ Entry(e.x, NoAmount, 0, FALSE) \in EntryType
            /\ Entry(e.y, NoAmount, 0, FALSE) \in EntryType
        BY <1>2, <1>3, <3>1
      <3>3. QED BY <3>2, LiquidityTyped, Zenon DEF Unvalued
    <2>4. RowsTyped(BareLiquidity(action, e, n))
      <3>1. ByNoPrice(e.x, X(n)) \in EntryType /\ ByNoPrice(e.y, Y(n)) \in EntryType
        BY <1>2, <1>3
      <3>2. QED BY <3>1, LiquidityTyped, Zenon DEF BareLiquidity
    <2>5. QED BY <2>1, <2>2, <2>3, <2>4
  <1>5. CASE e.kind \in {"AmAdd", "BmAdd", "AmRemove", "BmRemove", "CeAdd", "FxAdd", "KrAdd",
                         "SsAdded", "TuMint", "CeRemove", "FxRemove", "KrRemove", "SsRemoved",
                         "TuBurn", "CeFee"}
    <2>1. PICK action :
             rows \in BothRows(action, e, n, prices, decimals)
      BY <1>5, HandlersOfBoth
    <2>2. QED BY <1>4, <2>1 DEF BothRows
  <1>6. CASE e.kind \in {"CeOpen", "CeClose"}
    <2>1. \E action : rows = Unvalued(action, e)
      BY <1>6 DEF Process, CeOpen, CeClose
    <2>2. QED BY <1>4, <2>1
  <1>7. CASE e.kind \in {"ScCollateral", "ScRepay", "ScVeStake", "StStake",
                         "ScWithdraw", "ScReward", "ScIncentive", "StUnstake"}
    <2>1. PICK action : \/ rows = Gives(action, ByPrice(e.x, X(n), prices))
                        \/ rows = Gets(action, ByPrice(e.x, X(n), prices))
      BY <1>7, HandlersOfOne, Zenon
    <2>2. ByPrice(e.x, X(n), prices) \in EntryType
      BY <1>2, <1>3
    <2>3. QED BY <2>1, <2>2, OneTyped
  <1>8. CASE e.kind = "CeReward"
    <2>1. PICK action : rows = Gets(action, ByNoPrice(e.x, X(n)))
      BY <1>8, HandlersOfOne, Zenon
    <2>2. ByNoPrice(e.x, X(n)) \in EntryType
      BY <1>2, <1>3
    <2>3. QED BY <2>1, <2>2, OneTyped
  <1>9. CASE e.kind \in {"AmStake", "AmUnstake", "CeStakeLP", "CeUnstakeLP", "ScStake",
                         "ScUnstake"}
    <2>1. PICK action : \/ rows = Gives(action, Unpriced(e.x, X(n)))
                        \/ rows = Gets(action, Unpriced(e.x, X(n)))
      BY <1>9, HandlersOfOne, Zenon
    <2>2. Unpriced(e.x, X(n)) \in EntryType
      BY <1>2, <1>3 DEF Unpriced
    <2>3. QED BY <2>1, <2>2, OneTyped
  <1>10. CASE e.kind \in {"KrStake", "KrUnstake", "KrClaim"}
    <2>1. PICK action : rows = Gives(action, Unknowing(e.x))
      BY <1>10, HandlersOfFarms
    <2>2. Unknowing(e.x) \in EntryType
      BY <1>2, <1>3 DEF Unknowing
    <2>3. QED BY <2>1, <2>2, OneTyped
  <1>11. CASE e.kind \in Deposits \cup Withdraws
    <2>1. PICK side \in {Deposits, Withdraws} : e.kind \in side
      BY <1>11
    <2> DEFINE c == PoolCoin(topic, n, side)
    <2>2. c \in Coin
      BY <2>1, PoolCoinFirst
    <2>3. \E action : \/ rows = Gives(action, ByPrice(c, X(n), prices))
                      \/ rows = Gets(action, ByPrice(c, X(n), prices))
      <3>1. CASE e.kind \in Deposits
        <4>1. side = Deposits
          BY <2>1, <3>1 DEF Deposits, Withdraws
        <4>2. QED BY <3>1, <4>1, HandlersOfOne
      <3>2. CASE e.kind \in Withdraws
        <4>1. side = Withdraws
          BY <2>1, <3>2 DEF Deposits, Withdraws
        <4>2. QED BY <3>2, <4>1, HandlersOfOne
      <3>3. QED BY <1>11, <3>1, <3>2
    <2> HIDE DEF c
    <2>4. ByPrice(c, X(n), prices) \in EntryType
      BY <1>3, <2>2
    <2>5. QED BY <2>3, <2>4, OneTyped
  <1>12. CASE e.kind \in {"CeMint", "CeRedeem", "ScMint", "ScRedeem"}
    <2>t. HasPrice(e.x, prices) \in BOOLEAN /\ HasPrice(e.y, prices) \in BOOLEAN
      BY Truth DEF HasPrice
    <2>f. FALSE \in BOOLEAN /\ 0 \in Nat
      OBVIOUS
    <2>1. PriceDecimals(e.x, prices) \in Nat /\ PriceDecimals(e.y, prices) \in Nat
      BY <1>2 DEF Told, PossibleQuotes, PriceDecimals, HasPrice, OrNine
    <2>2. /\ Entry(e.x, NoAmount, 0, HasPrice(e.x, prices)) \in EntryType
          /\ ByNine(e.y, Y(n), FALSE) \in EntryType
          /\ ByNine(e.x, X(n), FALSE) \in EntryType
          /\ ByNine(e.y, Y(n), HasPrice(e.y, prices)) \in EntryType
          /\ ByPrice(e.x, X(n), prices) \in EntryType
          /\ ByPrice(e.y, Y(n), prices) \in EntryType
          /\ Entry(e.y, Y(n), PriceDecimals(e.x, prices), FALSE) \in EntryType
          /\ Entry(e.x, X(n), PriceDecimals(e.y, prices), FALSE) \in EntryType
      <3>1. X(n) \in {X(n), Y(n), NoAmount} /\ Y(n) \in {X(n), Y(n), NoAmount}
            /\ NoAmount \in {X(n), Y(n), NoAmount}
        OBVIOUS
      <3>2. QED BY <1>2, <1>3, <2>t, <2>f, <2>1, <3>1, Zenon
    <2>3. ASSUME NEW action, NEW f \in EntryType, NEW g \in EntryType
          PROVE  RowsTyped({Row(action, {f}, {g})})
      BY RowTyped
    <2>4. CASE e.kind = "CeMint"
      <3> DEFINE f == Entry(e.x, NoAmount, 0, HasPrice(e.x, prices))
                 g == ByNine(e.y, Y(n), FALSE)
      <3>1. rows = {Row("Stake", {f}, {g})}
        BY <2>4 DEF Process, CeMint
      <3>2. f \in EntryType /\ g \in EntryType
        BY <2>2
      <3> HIDE DEF f, g, rows
      <3>3. RowsTyped({Row("Stake", {f}, {g})})
        BY <2>3, <3>2
      <3>4. RowsTyped(rows)
        BY <3>1, <3>3
      <3>5. QED BY <3>4 DEF rows
    <2>5. CASE e.kind = "CeRedeem"
      <3> DEFINE f == ByNine(e.x, X(n), FALSE)
                 g == ByNine(e.y, Y(n), HasPrice(e.y, prices))
      <3>1. rows = {Row("Unstake", {f}, {g})}
        BY <2>5 DEF Process, CeRedeem
      <3>2. f \in EntryType /\ g \in EntryType
        BY <2>2
      <3> HIDE DEF f, g, rows
      <3>3. RowsTyped({Row("Unstake", {f}, {g})})
        BY <2>3, <3>2
      <3>4. RowsTyped(rows)
        BY <3>1, <3>3
      <3>5. QED BY <3>4 DEF rows
    <2>6. CASE e.kind = "ScMint"
      <3> DEFINE f == ByPrice(e.x, X(n), prices)
                 g == Entry(e.y, Y(n), PriceDecimals(e.x, prices), FALSE)
      <3>1. rows = {Row("Add", {f}, {g})}
        BY <2>6 DEF Process, ScMint
      <3>2. f \in EntryType /\ g \in EntryType
        BY <2>2
      <3> HIDE DEF f, g, rows
      <3>3. RowsTyped({Row("Add", {f}, {g})})
        BY <2>3, <3>2
      <3>4. RowsTyped(rows)
        BY <3>1, <3>3
      <3>5. QED BY <3>4 DEF rows
    <2>7. CASE e.kind = "ScRedeem"
      <3> DEFINE f == Entry(e.x, X(n), PriceDecimals(e.y, prices), FALSE)
                 g == ByPrice(e.y, Y(n), prices)
      <3>1. rows = {Row("Remove", {f}, {g})}
        BY <2>7 DEF Process, ScRedeem
      <3>2. f \in EntryType /\ g \in EntryType
        BY <2>2
      <3> HIDE DEF f, g, rows
      <3>3. RowsTyped({Row("Remove", {f}, {g})})
        BY <2>3, <3>2
      <3>4. RowsTyped(rows)
        BY <3>1, <3>3
      <3>5. QED BY <3>4 DEF rows
    <2>8. QED BY <1>12, <2>4, <2>5, <2>6, <2>7
  <1>13. CASE e.kind \in {"TuCollect0", "TuCollect1"}
    <2> DEFINE a0 == IF e.kind = "TuCollect0" THEN X(n) ELSE NoAmount
               a1 == IF e.kind = "TuCollect0" THEN NoAmount ELSE Y(n)
    <2>1. rows = {Liquidity("Fee", ByPool(e.x, a0, prices, decimals), ByPool(e.y, a1, prices, decimals))}
      BY <1>13 DEF Process, TuCollect
    <2>2. a0 \in {X(n), Y(n), NoAmount} /\ a1 \in {X(n), Y(n), NoAmount}
      OBVIOUS
    <2> HIDE DEF a0, a1
    <2>3. ByPool(e.x, a0, prices, decimals) \in EntryType /\ ByPool(e.y, a1, prices, decimals) \in EntryType
      BY <1>2, <1>3, <2>2
    <2>4. QED BY <2>1, <2>3, LiquidityTyped
  <1>14. CASE e.kind = "AmReward"
    <2> DEFINE both == {ByPrice(e.x, X(n), prices), ByPrice(e.y, Y(n), prices)}
    <2>1. rows = {Row("Reward", {[r EXCEPT !.coin = "none"]},
                                {Entry(r.coin, NoAmount, 0, FALSE)}) : r \in both}
      BY <1>14 DEF Process, AmReward
    <2>2. ASSUME NEW r \in both
          PROVE  /\ [r EXCEPT !.coin = "none"] \in EntryType
                 /\ Entry(r.coin, NoAmount, 0, FALSE) \in EntryType
      <3>1. PICK c \in Coin, amount \in {X(n), Y(n)} : r = ByPrice(c, amount, prices)
        BY <1>2
      <3>2. r.coin = c
        BY <3>1 DEF ByPrice, Entry
      <3>3. [r EXCEPT !.coin = "none"] \in EntryType
        BY <1>3, <3>1
      <3>4. Entry(c, NoAmount, 0, FALSE) \in EntryType
        BY <1>3
      <3>5. QED BY <3>2, <3>3, <3>4
    <2>3. ASSUME NEW row \in rows
          PROVE  row.input \cup row.output \subseteq EntryType
      <3> HIDE DEF both
      <3>1. PICK r \in both : row = Row("Reward", {[r EXCEPT !.coin = "none"]},
                                         {Entry(r.coin, NoAmount, 0, FALSE)})
        BY <2>1
      <3>2. RowsTyped({row})
        BY <2>2, <3>1, RowTyped
      <3>3. QED BY <3>2 DEF RowsTyped
    <2>4. QED BY <2>3 DEF RowsTyped
  <1>15. CASE e.kind = "ScBorrow"
    BY <1>15 DEF Process, ScBorrow, RowsTyped
  <1>16. \/ e.kind \in Deposits \cup Withdraws
         \/ e.kind \in {"AmAdd", "BmAdd", "AmRemove", "BmRemove", "CeAdd", "FxAdd", "KrAdd",
                         "SsAdded", "TuMint", "CeRemove", "FxRemove", "KrRemove", "SsRemoved",
                         "TuBurn", "CeFee"}
         \/ e.kind \in {"CeOpen", "CeClose"}
         \/ e.kind \in {"ScCollateral", "ScRepay", "ScVeStake", "StStake",
                         "ScWithdraw", "ScReward", "ScIncentive", "StUnstake"}
         \/ e.kind = "CeReward"
         \/ e.kind \in {"AmStake", "AmUnstake", "CeStakeLP", "CeUnstakeLP", "ScStake",
                         "ScUnstake"}
         \/ e.kind \in {"KrStake", "KrUnstake", "KrClaim"}
         \/ e.kind \in {"CeMint", "CeRedeem", "ScMint", "ScRedeem"}
         \/ e.kind \in {"TuCollect0", "TuCollect1"}
         \/ e.kind = "AmReward" \/ e.kind = "ScBorrow"
    <2> HIDE DEF e
    <2>1. QED BY <1>2 DEF Kind, Deposits, Withdraws
  <1> HIDE DEF e, rows
  <1>17. RowsTyped(rows)
    BY <1>5, <1>6, <1>7, <1>8, <1>9, <1>10, <1>11, <1>12, <1>13, <1>14, <1>15, <1>16, Zenon DEF rows
  <1>18. QED BY <1>17 DEF rows

\* Whatever the topic, the prices and the faults: the offsets are in order, and the
\* tables have rows of entries.
LEMMA DefiTypes == DefiInv => DefiTypeOK
  <1> SUFFICES ASSUME DefiInv PROVE DefiTypeOK
    OBVIOUS
  <1>1. DefiTyped /\ DefiOrdered
    BY DEF DefiInv
  <1>2. topic \in Seq(DefiEvent)
    BY <1>1, DefiAssumption DEF DefiTyped
  <1>3. ASSUME NEW n \in DOMAIN saved, NEW k \in DOMAIN saved[n], NEW row \in saved[n][k]
        PROVE  row.input \cup row.output \subseteq EntryType
    <2>1. /\ n \in DOMAIN topic /\ saved[n] \in Seq(PossibleRows(n))
          /\ guesses \subseteq Coin \X {9, 18}
      BY <1>1 DEF DefiTyped
    <2>2. saved[n][k] \in PossibleRows(n)
      <3> HIDE DEF PossibleRows
      <3>1. QED BY <2>1
    <2>3. PICK prices \in PossibleQuotes, decimals \in PoolDecimals :
             saved[n][k] = Process(topic, n, prices, decimals)
      BY <2>2 DEF PossibleRows
    <2>4. QED BY <1>2, <2>1, <2>3, ProcessTyped DEF RowsTyped, Told
  <1>4. /\ losses \in 0 .. MaxLoss /\ replays \in 0 .. losses
        /\ acked \in 0 .. resolved /\ resolved \in 0 .. reached /\ reached \in 0 .. Len(topic)
    BY <1>1, DefiAssumption, DefiLengths DEF DefiTyped, DefiOrdered
  <1>5. pending \subseteq (resolved + 1) .. reached
    BY <1>1 DEF DefiTyped, DefiOrdered
  <1>6. DOMAIN priced \subseteq Coin /\ \A c \in DOMAIN priced : priced[c] \in Nat
    BY <1>1 DEF DefiTyped, PossibleQuotes
  <1>7. QED BY <1>1, <1>3, <1>4, <1>5, <1>6 DEF DefiTyped, DefiTypeOK

(***************************************************************************)
(* Type correctness of the live process of defi.                           *)
(***************************************************************************)
THEOREM DefiTypeCorrect == DefiSpec => []DefiTypeOK
  <1>1. QED BY DefiInitInv, DefiStep, DefiTypes, PTL DEF DefiSpec

-----------------------------------------------------------------------------
(***************************************************************************)
(* What the handlers know about pools and tokens.                          *)
(***************************************************************************)
\* d may be taken for the decimals of x if these tokens were guessed: GuessesTraced.
Traced(those, x, d) ==
  d \in Nat /\ (d = OrGuess(Decimals[x]) \/ (d \in {9, 18} /\ x \in those))

\* info is about these two tokens, their addresses written as told.
InfoOf(those, pair, info, normalized) ==
  /\ info \in [token : [{1, 2} -> Token \X BOOLEAN], decimals : [{1, 2} -> Nat]]
  /\ \A k \in {1, 2} :
        /\ info.token[k] = IF normalized THEN <<pair[k], FALSE>> ELSE Spelled(pair[k])
        /\ Traced(those, pair[k], info.decimals[k])

TaskPlace == {"start", "query", "object", "looking", "done", "dropped"}

CacheTyped ==
  /\ task \in Mixes
  /\ prepared \subseteq Service
  /\ poolCache \in [Service -> [Pool -> InfoType]]
  /\ metadata \in [Service -> [Token -> Nat]]
  /\ cacheData \in [Service -> [Token -> Nat]]
  /\ poolRows \in [Pool -> SUBSET InfoType]
  /\ tokenRows \in [Token -> Nat]
  /\ poolWrites \subseteq Service \X Pool \X InfoType
  /\ tokenWrites \subseteq Service \X Token \X Nat
  /\ pc \in [Task -> TaskPlace]
  /\ lookup \in [Task -> [{1, 2} -> {"idle", "asking", "known", "failed"} \X Nat]]
  /\ used \in [Task -> InfoType]
  /\ guessed \subseteq Token

\* Decimals that are remembered anywhere.
DecimalsTraced ==
  /\ \A s \in Service, x \in Token :
        /\ metadata[s][x] = Unknown \/ Traced(guessed, x, metadata[s][x])
        /\ cacheData[s][x] = Unknown \/ Traced(guessed, x, cacheData[s][x])
  /\ \A x \in Token : tokenRows[x] = Unknown \/ Traced(guessed, x, tokenRows[x])
  /\ \A w \in tokenWrites : Traced(guessed, w[2], w[3])
  /\ \A t \in Task, k \in {1, 2} :
        lookup[t][k][1] = "known" => Traced(guessed, TokenOf(t, k), lookup[t][k][2])

\* Pools that are remembered anywhere.
PoolsTraced ==
  /\ \A s \in Service, p \in Pool :
        poolCache[s][p] = NoInfo \/ InfoOf(guessed, Tokens[p], poolCache[s][p], TRUE)
  /\ \A p \in Pool : \A info \in poolRows[p] : InfoOf(guessed, Tokens[p], info, TRUE)
  /\ \A w \in poolWrites : InfoOf(guessed, Tokens[w[2]], w[3], TRUE)

\* What a task has worked with.
UsedTraced ==
  \A t \in Task : used[t] = NoInfo \/ InfoOf(guessed, TokensOf(SwapOf(t)), used[t], HasPool(t))

CacheInv == CacheTyped /\ DecimalsTraced /\ PoolsTraced /\ UsedTraced

-----------------------------------------------------------------------------
\* What the tasks are handling.
LEMMA TaskTypes ==
  ASSUME task \in Mixes
  PROVE  /\ task \in [Task -> Handled]
         /\ \A t \in Task :
              /\ ServiceOf(t) \in Service /\ SwapOf(t) \in Swap
              /\ SwapOf(t).protocol \in Protocol /\ PoolOf(t) \in Pool
              /\ \A k \in {1, 2} : TokenOf(t, k) \in Token
         /\ \A t, u \in Task :
              PoolOf(t) = PoolOf(u) => SwapOf(t).protocol = SwapOf(u).protocol
  <1>1. task \in [Task -> Handled]
    BY CacheAssumption
  <1>2. ASSUME NEW t \in Task
        PROVE  /\ ServiceOf(t) \in Service /\ SwapOf(t) \in Swap
               /\ SwapOf(t).protocol \in Protocol /\ PoolOf(t) \in Pool
    BY <1>1 DEF Handled, ServiceOf, SwapOf, PoolOf, Swap
  <1>3. ASSUME NEW t \in Task, NEW k \in {1, 2} PROVE TokenOf(t, k) \in Token
    BY <1>2, AdapterAssumption DEF TokenOf, TokensOf, PoolOf, Swap
  <1>4. \A t, u \in Task : PoolOf(t) = PoolOf(u) => SwapOf(t).protocol = SwapOf(u).protocol
    BY CacheAssumption DEF PoolOf, SwapOf
  <1>5. QED BY <1>1, <1>2, <1>3, <1>4

\* What may be taken for true can be later, too, as guesses are not forgotten.
LEMMA TracedStays ==
  ASSUME NEW before, NEW after, before \subseteq after
  PROVE  /\ \A x, d : Traced(before, x, d) => Traced(after, x, d)
         /\ \A pair, info, normalized :
              InfoOf(before, pair, info, normalized) => InfoOf(after, pair, info, normalized)
  <1>1. \A x, d : Traced(before, x, d) => Traced(after, x, d)
    BY DEF Traced
  <1>2. QED BY <1>1 DEF InfoOf

\* Of the parts of CacheInv those are kept whose variables do not change:
\* DecimalsTraced.
LEMMA SameDecimals ==
  ASSUME CacheTyped, DecimalsTraced, guessed \subseteq guessed',
         UNCHANGED <<task, metadata, cacheData, tokenRows, tokenWrites, lookup>>
  PROVE  DecimalsTraced'
  BY TracedStays DEF DecimalsTraced, TokenOf, PoolOf, SwapOf

\* PoolsTraced.
LEMMA SamePools ==
  ASSUME PoolsTraced, guessed \subseteq guessed', UNCHANGED <<poolCache, poolRows, poolWrites>>
  PROVE  PoolsTraced'
  BY TracedStays DEF PoolsTraced

\* UsedTraced.
LEMMA SameUsed ==
  ASSUME UsedTraced, guessed \subseteq guessed', UNCHANGED <<task, used>>
  PROVE  UsedTraced'
  BY TracedStays DEF UsedTraced, PoolOf, SwapOf, HasPool

-----------------------------------------------------------------------------
\* In the beginning nothing is known.
LEMMA CacheInitInv == CacheInit => CacheInv
  <1> SUFFICES ASSUME CacheInit PROVE CacheInv
    OBVIOUS
  <1>1. CacheTyped
    BY DEF CacheInit, CacheTyped, InfoType, NoInfo, Unknown, Idle, TaskPlace
  <1>2. DecimalsTraced /\ PoolsTraced /\ UsedTraced
    BY DEF CacheInit, DecimalsTraced, PoolsTraced, UsedTraced, Idle
  <1>3. QED BY <1>1, <1>2 DEF CacheInv

\* What the caches hit is right for the token, and depends on it only.
LEMMA HitTraced ==
  ASSUME CacheInv, NEW t \in Task, NEW k \in {1, 2}
  PROVE  /\ Hit(t, k) \in Nat
         /\ Hit(t, k) = Unknown \/ Traced(guessed, TokenOf(t, k), Hit(t, k))
         /\ \A j \in {1, 2} : TokenOf(t, j) = TokenOf(t, k) => Hit(t, j) = Hit(t, k)
  <1>1. CacheTyped /\ DecimalsTraced
    BY DEF CacheInv
  <1>2. ServiceOf(t) \in Service /\ TokenOf(t, k) \in Token
    BY <1>1, TaskTypes DEF CacheTyped
  <1>3. /\ metadata[ServiceOf(t)][TokenOf(t, k)] \in Nat
        /\ cacheData[ServiceOf(t)][TokenOf(t, k)] \in Nat
    BY <1>1, <1>2 DEF CacheTyped
  <1>4. /\ \/ metadata[ServiceOf(t)][TokenOf(t, k)] = Unknown
           \/ Traced(guessed, TokenOf(t, k), metadata[ServiceOf(t)][TokenOf(t, k)])
        /\ \/ cacheData[ServiceOf(t)][TokenOf(t, k)] = Unknown
           \/ Traced(guessed, TokenOf(t, k), cacheData[ServiceOf(t)][TokenOf(t, k)])
    BY <1>1, <1>2 DEF DecimalsTraced
  <1>5. Hit(t, k) \in Nat /\ (Hit(t, k) = Unknown \/ Traced(guessed, TokenOf(t, k), Hit(t, k)))
    BY <1>3, <1>4 DEF Hit, OrGuess, Unknown
  <1>6. ASSUME NEW j \in {1, 2}, TokenOf(t, j) = TokenOf(t, k) PROVE Hit(t, j) = Hit(t, k)
    BY <1>6 DEF Hit
  <1>7. QED BY <1>5, <1>6

\* Ask takes what the caches hit.
LEMMA AskInv ==
  ASSUME CacheInv, NEW t \in Task, Ask(t),
         UNCHANGED <<task, prepared, poolCache, metadata, tables, writes, used, guessed>>
  PROVE  CacheInv'
  <1>1. CacheTyped /\ DecimalsTraced /\ PoolsTraced /\ UsedTraced
    BY DEF CacheInv
  <1>2. UNCHANGED <<task, prepared, poolCache, metadata, poolRows, tokenRows, poolWrites,
                    tokenWrites, used, guessed>>
    BY DEF tables, writes
  <1>3. ServiceOf(t) \in Service /\ \A k \in {1, 2} : TokenOf(t, k) \in Token
    BY <1>1, TaskTypes DEF CacheTyped
  <1>4. ASSUME NEW x \in Token
        PROVE  /\ cacheData'[ServiceOf(t)][x] \in Nat
               /\ cacheData'[ServiceOf(t)][x] = Unknown \/ Traced(guessed, x, cacheData'[ServiceOf(t)][x])
    <2>1. CASE \E k \in {1, 2} : x = TokenOf(t, k) /\ Hit(t, k) # Unknown
      <3> DEFINE j == CHOOSE k \in {1, 2} : x = TokenOf(t, k)
      <3>1. j \in {1, 2} /\ x = TokenOf(t, j)
        BY <2>1
      <3>2. cacheData'[ServiceOf(t)][x] = Hit(t, j)
        BY <1>1, <1>3, <2>1 DEF Ask, CacheTyped
      <3> HIDE DEF j
      <3>3. QED BY <3>1, <3>2, HitTraced
    <2>2. CASE ~\E k \in {1, 2} : x = TokenOf(t, k) /\ Hit(t, k) # Unknown
      <3>1. cacheData'[ServiceOf(t)][x] = cacheData[ServiceOf(t)][x]
        BY <1>1, <1>3, <2>2 DEF Ask, CacheTyped
      <3>2. QED BY <1>1, <1>3, <3>1 DEF CacheTyped, DecimalsTraced
    <2>3. QED BY <2>1, <2>2
  <1>5. /\ cacheData' \in [Service -> [Token -> Nat]]
        /\ \A s \in Service : s # ServiceOf(t) => cacheData'[s] = cacheData[s]
    <2> DEFINE new == [x \in Token |->
                         IF \E k \in {1, 2} : x = TokenOf(t, k) /\ Hit(t, k) # Unknown
                         THEN Hit(t, CHOOSE k \in {1, 2} : x = TokenOf(t, k))
                         ELSE cacheData[ServiceOf(t)][x]]
    <2>1. cacheData' = [cacheData EXCEPT ![ServiceOf(t)] = new] /\ new = [x \in Token |-> new[x]]
      BY DEF Ask
    <2> HIDE DEF new
    <2>2. new = cacheData'[ServiceOf(t)]
      BY <1>1, <1>3, <2>1 DEF CacheTyped
    <2>3. new \in [Token -> Nat]
      BY <1>4, <2>1, <2>2
    <2>4. QED BY <1>1, <1>3, <2>1, <2>3 DEF CacheTyped
  <1>6. ASSUME NEW k \in {1, 2}
        PROVE  /\ lookup'[t][k] \in {"idle", "asking", "known", "failed"} \X Nat
               /\ lookup'[t][k][1] = "known" => Traced(guessed, TokenOf(t, k), lookup'[t][k][2])
    <2>1. lookup'[t][k] = IF Hit(t, k) = Unknown THEN Asking(0) ELSE Known(Hit(t, k))
      BY <1>1 DEF Ask, CacheTyped
    <2>2. QED BY <2>1, HitTraced DEF Asking, Known
  <1>7. /\ lookup' \in [Task -> [{1, 2} -> {"idle", "asking", "known", "failed"} \X Nat]]
        /\ \A u \in Task : u # t => lookup'[u] = lookup[u]
    <2> DEFINE new == [k \in {1, 2} |->
                         IF Hit(t, k) = Unknown THEN Asking(0) ELSE Known(Hit(t, k))]
    <2>1. lookup' = [lookup EXCEPT ![t] = new] /\ new = [k \in {1, 2} |-> new[k]]
      BY DEF Ask
    <2> HIDE DEF new
    <2>2. new = lookup'[t]
      BY <1>1, <2>1 DEF CacheTyped
    <2>3. new \in [{1, 2} -> {"idle", "asking", "known", "failed"} \X Nat]
      BY <1>6, <2>1, <2>2
    <2>4. QED BY <1>1, <2>1, <2>3 DEF CacheTyped
  <1>8. CacheTyped'
    <2>1. pc' \in [Task -> TaskPlace]
      BY <1>1 DEF Ask, CacheTyped, TaskPlace
    <2>2. QED BY <1>1, <1>2, <1>5, <1>7, <2>1 DEF CacheTyped
  <1>9. DecimalsTraced'
    <2>2. \A u \in Task, k \in {1, 2} :
             lookup'[u][k][1] = "known" => Traced(guessed, TokenOf(u, k), lookup'[u][k][2])
      BY <1>1, <1>6, <1>7 DEF DecimalsTraced
    <2>3. \A s \in Service, x \in Token :
             cacheData'[s][x] = Unknown \/ Traced(guessed, x, cacheData'[s][x])
      BY <1>1, <1>4, <1>5 DEF DecimalsTraced
    <2>4. \A u \in Task, k \in {1, 2} : TokenOf(u, k)' = TokenOf(u, k)
      BY <1>2 DEF TokenOf, PoolOf, SwapOf
    <2>5. QED BY <1>1, <1>2, <2>2, <2>3, <2>4 DEF DecimalsTraced
  <1>10. PoolsTraced' /\ UsedTraced'
    BY <1>1, <1>2, SamePools, SameUsed
  <1>11. QED BY <1>8, <1>9, <1>10 DEF CacheInv

\* An info is one, and not the lack of one.
LEMMA InfoTyped ==
  ASSUME NEW those, NEW pair, NEW info, NEW normalized, InfoOf(those, pair, info, normalized)
  PROVE  info \in InfoType
  BY DEF InfoOf, InfoType

\* The tokens of a task that has a pool are those of the pool.
LEMMA TokensOfPool == \A t \in Task : HasPool(t) => TokensOf(SwapOf(t)) = Tokens[PoolOf(t)]
  BY DEF HasPool, PoolProtocol, TokensOf, PoolOf

\* A task ends with an info about its pool.
LEMMA EndsInv ==
  ASSUME CacheInv, NEW t \in Task, NEW info, Ends(t, info),
         InfoOf(guessed, TokensOf(SwapOf(t)), info, HasPool(t)),
         UNCHANGED <<task, guessed>>
  PROVE  /\ used' \in [Task -> InfoType] /\ pc' \in [Task -> TaskPlace]
         /\ UsedTraced'
  <1>1. CacheTyped /\ UsedTraced
    BY DEF CacheInv
  <1>2. info \in InfoType
    BY InfoTyped
  <1>3. /\ used' = [used EXCEPT ![t] = info] /\ pc' = [pc EXCEPT ![t] = "done"]
        /\ used \in [Task -> InfoType] /\ pc \in [Task -> TaskPlace]
    BY <1>1 DEF Ends, CacheTyped
  <1>4. used' \in [Task -> InfoType] /\ pc' \in [Task -> TaskPlace]
    BY <1>2, <1>3 DEF TaskPlace
  <1>5. UsedTraced'
    <2> SUFFICES ASSUME NEW u \in Task
                 PROVE  used'[u] = NoInfo \/ InfoOf(guessed, TokensOf(SwapOf(u)), used'[u], HasPool(u))
      BY DEF UsedTraced, PoolOf, HasPool, SwapOf
    <2>1. CASE u = t
      BY <1>3, <2>1
    <2>2. CASE u # t
      BY <1>1, <1>3, <2>2 DEF UsedTraced
    <2>3. QED BY <2>1, <2>2
  <1>6. QED BY <1>4, <1>5

\* Prepare reads both tables.
LEMMA PrepareInv == ASSUME CacheInv, NEW s \in Service, Prepare(s) PROVE CacheInv'
  <1>1. CacheTyped /\ DecimalsTraced /\ PoolsTraced /\ UsedTraced
    BY DEF CacheInv
  <1>2. /\ UNCHANGED <<task, cacheData, poolRows, tokenRows, poolWrites, tokenWrites, pc,
                       lookup, used, guessed>>
        /\ prepared' = prepared \cup {s} /\ metadata' = [metadata EXCEPT ![s] = tokenRows]
    BY DEF Prepare, tables, writes
  <1>3. PICK rows \in [Pool -> UNION {poolRows[p] : p \in Pool} \cup {NoInfo}] :
          /\ \A p \in Pool : IF poolRows[p] = {} THEN rows[p] = NoInfo
                                                 ELSE rows[p] \in poolRows[p]
          /\ poolCache' = [poolCache EXCEPT ![s] = rows]
    BY DEF Prepare
  <1>4. NoInfo \in InfoType
    BY DEF NoInfo, InfoType
  <1>5. \A p \in Pool : \/ rows[p] = NoInfo
                        \/ rows[p] \in poolRows[p] /\ InfoOf(guessed, Tokens[p], rows[p], TRUE)
    BY <1>1, <1>3 DEF PoolsTraced
  <1>6. rows \in [Pool -> InfoType]
    <2>1. \A p \in Pool : rows[p] \in InfoType
      BY <1>1, <1>4, <1>5 DEF CacheTyped
    <2>2. QED BY <1>3, <2>1
  <1>7. CacheTyped'
    BY <1>1, <1>2, <1>3, <1>6 DEF CacheTyped
  <1>8. DecimalsTraced'
    <2>1. \A r \in Service, x \in Token :
             metadata'[r][x] = metadata[r][x] \/ metadata'[r][x] = tokenRows[x]
      BY <1>1, <1>2 DEF CacheTyped
    <2>2. \A r \in Service, x \in Token :
             metadata'[r][x] = Unknown \/ Traced(guessed, x, metadata'[r][x])
      BY <1>1, <2>1 DEF DecimalsTraced
    <2>3. QED BY <1>1, <1>2, <2>2 DEF DecimalsTraced, TokenOf, PoolOf, SwapOf
  <1>9. \A r \in Service, p \in Pool :
           poolCache'[r][p] = poolCache[r][p] \/ poolCache'[r][p] = rows[p]
    BY <1>1, <1>3 DEF CacheTyped
  <1>10. PoolsTraced'
    <2>1. \A r \in Service, p \in Pool :
             poolCache'[r][p] = NoInfo \/ InfoOf(guessed, Tokens[p], poolCache'[r][p], TRUE)
      BY <1>1, <1>5, <1>9 DEF PoolsTraced
    <2>2. QED BY <1>1, <1>2, <2>1 DEF PoolsTraced
  <1>11. UsedTraced'
    BY <1>1, <1>2, SameUsed
  <1>12. QED BY <1>7, <1>8, <1>10, <1>11 DEF CacheInv

\* The steps of a task that do not look decimals up.
LEMMA StartPoolInv == ASSUME CacheInv, NEW t \in Task, StartPool(t) PROVE CacheInv'
  <1>1. CacheTyped /\ DecimalsTraced /\ PoolsTraced /\ UsedTraced
    BY DEF CacheInv
  <1>2. /\ UNCHANGED <<task, prepared, poolCache, metadata, cacheData, poolRows, tokenRows,
                       poolWrites, tokenWrites, lookup, guessed>>
        /\ HasPool(t)
    BY DEF StartPool, caches, tables, writes
  <1>3. DecimalsTraced' /\ PoolsTraced'
    BY <1>1, <1>2, SameDecimals, SamePools
  <1>4. ServiceOf(t) \in Service /\ PoolOf(t) \in Pool
    BY <1>1, TaskTypes DEF CacheTyped
  <1> DEFINE cached == poolCache[ServiceOf(t)][PoolOf(t)]
  <1>5. CASE cached # NoInfo /\ Ends(t, cached)
    <2>1. InfoOf(guessed, TokensOf(SwapOf(t)), cached, HasPool(t))
      BY <1>1, <1>2, <1>4, <1>5, TokensOfPool DEF PoolsTraced
    <2>4. /\ used' \in [Task -> InfoType] /\ pc' \in [Task -> TaskPlace]
          /\ UsedTraced'
      <3> HIDE DEF cached
      <3>1. QED BY <1>2, <1>5, <2>1, EndsInv
    <2>5. CacheTyped'
      BY <1>1, <1>2, <2>4 DEF CacheTyped
    <2>6. QED BY <1>3, <2>4, <2>5 DEF CacheInv
  <1>6. CASE pc' = [pc EXCEPT ![t] = "query"] /\ used' = used
    <2>1. CacheTyped'
      BY <1>1, <1>2, <1>6 DEF CacheTyped, TaskPlace
    <2>3. UsedTraced'
      BY <1>1, <1>2, <1>6, SameUsed
    <2>4. QED BY <1>3, <2>1, <2>3 DEF CacheInv
  <1>7. QED BY <1>5, <1>6 DEF StartPool

\* FindFirst remembers what the table has, or leaves it to the chain.
LEMMA FindFirstInv ==
  ASSUME CacheInv, NEW t \in Task, HasPool(t), FindFirst(t)
  PROVE  CacheInv'
  <1>1. CacheTyped /\ DecimalsTraced /\ PoolsTraced /\ UsedTraced
    BY DEF CacheInv
  <1>2. UNCHANGED <<task, prepared, metadata, cacheData, poolRows, tokenRows,
                    poolWrites, tokenWrites, lookup, guessed>>
    BY DEF FindFirst, tables, writes
  <1>3. DecimalsTraced'
    BY <1>1, <1>2, SameDecimals
  <1>4. ServiceOf(t) \in Service /\ PoolOf(t) \in Pool
    BY <1>1, TaskTypes DEF CacheTyped
  <1>5. ASSUME NEW info \in poolRows[PoolOf(t)],
               poolCache' = [poolCache EXCEPT ![ServiceOf(t)][PoolOf(t)] = info],
               Ends(t, info)
        PROVE  CacheInv'
    <2>1. InfoOf(guessed, Tokens[PoolOf(t)], info, TRUE)
      BY <1>1, <1>4 DEF PoolsTraced
    <2>2. info \in InfoType
      BY <2>1, InfoTyped
    <2>3. \A s \in Service, p \in Pool :
             poolCache'[s][p] = poolCache[s][p] \/ (p = PoolOf(t) /\ poolCache'[s][p] = info)
      BY <1>1, <1>4, <1>5 DEF CacheTyped
    <2>4. PoolsTraced'
      <3>1. \A s \in Service, p \in Pool :
               poolCache'[s][p] = NoInfo \/ InfoOf(guessed, Tokens[p], poolCache'[s][p], TRUE)
        BY <1>1, <2>1, <2>3 DEF PoolsTraced
      <3>2. QED BY <1>1, <1>2, <3>1 DEF PoolsTraced
    <2>5. InfoOf(guessed, TokensOf(SwapOf(t)), info, HasPool(t))
      BY <2>1, TokensOfPool
    <2>6. /\ used' \in [Task -> InfoType] /\ pc' \in [Task -> TaskPlace]
          /\ UsedTraced'
      BY <1>2, <1>5, <2>5, EndsInv
    <2>7. poolCache' \in [Service -> [Pool -> InfoType]]
      BY <1>1, <1>5, <2>2 DEF CacheTyped
    <2>8. CacheTyped'
      BY <1>1, <1>2, <2>6, <2>7 DEF CacheTyped
    <2>9. QED BY <1>3, <2>4, <2>6, <2>8 DEF CacheInv
  <1>6. CASE pc' = [pc EXCEPT ![t] = "object"] /\ UNCHANGED <<poolCache, used>>
    <2>1. CacheTyped'
      BY <1>1, <1>2, <1>6 DEF CacheTyped, TaskPlace
    <2>3. PoolsTraced' /\ UsedTraced'
      BY <1>1, <1>2, <1>6, SamePools, SameUsed
    <2>4. QED BY <1>3, <2>1, <2>3 DEF CacheInv
  <1>7. QED BY <1>5, <1>6 DEF FindFirst

\* A task gives up.
LEMMA ThrowsInv == ASSUME CacheInv, NEW t \in Task, GetObjectThrows(t) PROVE CacheInv'
  <1>1. CacheTyped /\ DecimalsTraced /\ PoolsTraced /\ UsedTraced
    BY DEF CacheInv
  <1>2. /\ UNCHANGED <<task, prepared, poolCache, metadata, cacheData, poolRows, tokenRows,
                       poolWrites, tokenWrites, lookup, used, guessed>>
        /\ pc' = [pc EXCEPT ![t] = "dropped"]
    BY DEF GetObjectThrows, caches, tables, writes
  <1>3. CacheTyped'
    BY <1>1, <1>2 DEF CacheTyped, TaskPlace
  <1>5. DecimalsTraced' /\ PoolsTraced' /\ UsedTraced'
    BY <1>1, <1>2, SameDecimals, SamePools, SameUsed
  <1>6. QED BY <1>3, <1>5 DEF CacheInv

\* One lookup changes, one token may be guessed, one task may give up.
LEMMA LookupInv ==
  ASSUME CacheInv, NEW t \in Task, NEW k \in {1, 2},
         NEW new \in {"idle", "asking", "known", "failed"} \X Nat,
         lookup' = [lookup EXCEPT ![t][k] = new],
         guessed' \in {guessed, guessed \cup {TokenOf(t, k)}},
         new[1] = "known" => Traced(guessed', TokenOf(t, k), new[2]),
         pc' \in {pc, [pc EXCEPT ![t] = "dropped"]},
         metadata' \in [Service -> [Token -> Nat]], cacheData' \in [Service -> [Token -> Nat]],
         \A s \in Service, x \in Token :
            /\ \/ metadata'[s][x] = metadata[s][x]
               \/ Traced(guessed', x, metadata'[s][x])
            /\ \/ cacheData'[s][x] = cacheData[s][x]
               \/ Traced(guessed', x, cacheData'[s][x]),
         tokenWrites' \subseteq Service \X Token \X Nat,
         \A w \in tokenWrites' : w \in tokenWrites \/ Traced(guessed', w[2], w[3]),
         UNCHANGED <<task, prepared, poolCache, tables, poolWrites, used>>
  PROVE  CacheInv'
  <1>1. CacheTyped /\ DecimalsTraced /\ PoolsTraced /\ UsedTraced
    BY DEF CacheInv
  <1>2. UNCHANGED <<poolRows, tokenRows>>
    BY DEF tables
  <1>3. TokenOf(t, k) \in Token
    BY <1>1, TaskTypes DEF CacheTyped
  <1>4. guessed \subseteq guessed' /\ guessed' \subseteq Token
    BY <1>1, <1>3 DEF CacheTyped
  <1>5. /\ lookup' \in [Task -> [{1, 2} -> {"idle", "asking", "known", "failed"} \X Nat]]
        /\ \A u \in Task, j \in {1, 2} :
              lookup'[u][j] = lookup[u][j] \/ (u = t /\ j = k /\ lookup'[u][j] = new)
    BY <1>1 DEF CacheTyped
  <1>6. pc' \in [Task -> TaskPlace]
    BY <1>1 DEF CacheTyped, TaskPlace
  <1>7. CacheTyped'
    BY <1>1, <1>2, <1>4, <1>5, <1>6 DEF CacheTyped
  <1>8. DecimalsTraced'
    <2>1. \A x, d : Traced(guessed, x, d) => Traced(guessed', x, d)
      BY <1>4, TracedStays
    <2>2. \A s \in Service, x \in Token :
             /\ metadata'[s][x] = Unknown \/ Traced(guessed', x, metadata'[s][x])
             /\ cacheData'[s][x] = Unknown \/ Traced(guessed', x, cacheData'[s][x])
      BY <1>1, <2>1 DEF DecimalsTraced
    <2>3. \A x \in Token : tokenRows[x] = Unknown \/ Traced(guessed', x, tokenRows[x])
      BY <1>1, <2>1 DEF DecimalsTraced
    <2>4. \A w \in tokenWrites' : Traced(guessed', w[2], w[3])
      BY <1>1, <2>1 DEF DecimalsTraced
    <2>5. \A u \in Task, j \in {1, 2} :
             lookup'[u][j][1] = "known" => Traced(guessed', TokenOf(u, j), lookup'[u][j][2])
      BY <1>1, <1>5, <2>1 DEF DecimalsTraced
    <2>6. \A u \in Task, j \in {1, 2} : TokenOf(u, j)' = TokenOf(u, j)
      BY DEF TokenOf, PoolOf, SwapOf
    <2>7. QED BY <1>2, <2>2, <2>3, <2>4, <2>5, <2>6 DEF DecimalsTraced
  <1>9. PoolsTraced' /\ UsedTraced'
    BY <1>1, <1>2, <1>4, SamePools, SameUsed
  <1>10. QED BY <1>7, <1>8, <1>9 DEF CacheInv

\* getCoinMetadata answers: with the decimals, or not knowing the coin.
LEMMA AnswerInv ==
  ASSUME CacheInv, NEW t \in Task, NEW k \in {1, 2}, Answer(t, k)
  PROVE  CacheInv'
  <1> DEFINE s == ServiceOf(t)
             x == TokenOf(t, k)
  <1>1. CacheTyped
    BY DEF CacheInv
  <1>2. s \in Service /\ x \in Token /\ Decimals[x] \in Nat
    BY <1>1, TaskTypes, CacheAssumption DEF CacheTyped
  <1>3. PICK known \in (IF x = NoToken THEN {FALSE} ELSE BOOLEAN) :
          LET d == IF known THEN OrGuess(Decimals[x]) ELSE Guess
          IN /\ IF known THEN UNCHANGED <<guessed, errors>>
                         ELSE AskedInVain(x) /\ guessed' = guessed \cup {x}
             /\ metadata' = [metadata EXCEPT ![s][x] = d]
             /\ tokenWrites' = tokenWrites \cup {<<s, x, d>>}
             /\ cacheData' = [cacheData EXCEPT ![s][x] = d]
             /\ lookup' = [lookup EXCEPT ![t][k] = Known(d)]
    BY DEF Answer
  <1> DEFINE d == IF known THEN OrGuess(Decimals[x]) ELSE Guess
  <1>4. /\ metadata' = [metadata EXCEPT ![s][x] = d]
        /\ tokenWrites' = tokenWrites \cup {<<s, x, d>>}
        /\ cacheData' = [cacheData EXCEPT ![s][x] = d]
        /\ lookup' = [lookup EXCEPT ![t][k] = Known(d)]
        /\ guessed' \in {guessed, guessed \cup {x}}
        /\ ~known => guessed' = guessed \cup {x}
    BY <1>3
  <1>5. Traced(guessed', x, d)
    BY <1>2, <1>3, <1>4 DEF Traced, OrGuess, Guess
  <1>6. UNCHANGED <<task, prepared, poolCache, tables, poolWrites, pc, used>>
    BY DEF Answer
  <1> HIDE DEF d, s, x
  <1>7. d \in Nat
    BY <1>5 DEF Traced
  <1>8. /\ metadata' \in [Service -> [Token -> Nat]] /\ cacheData' \in [Service -> [Token -> Nat]]
        /\ \A r \in Service, y \in Token :
              /\ metadata'[r][y] = metadata[r][y] \/ (y = x /\ metadata'[r][y] = d)
              /\ cacheData'[r][y] = cacheData[r][y] \/ (y = x /\ cacheData'[r][y] = d)
    BY <1>1, <1>2, <1>4, <1>7 DEF CacheTyped
  <1>9. \A r \in Service, y \in Token :
           /\ metadata'[r][y] = metadata[r][y] \/ Traced(guessed', y, metadata'[r][y])
           /\ cacheData'[r][y] = cacheData[r][y] \/ Traced(guessed', y, cacheData'[r][y])
    BY <1>5, <1>8
  <1>10. /\ tokenWrites' \subseteq Service \X Token \X Nat
         /\ \A w \in tokenWrites' : w \in tokenWrites \/ Traced(guessed', w[2], w[3])
    BY <1>1, <1>2, <1>4, <1>5, <1>7 DEF CacheTyped
  <1>11. /\ Known(d) \in {"idle", "asking", "known", "failed"} \X Nat /\ Known(d)[2] = d
    BY <1>7 DEF Known
  <1>12. QED BY <1>4, <1>5, <1>6, <1>8, <1>9, <1>10, <1>11, LookupInv DEF x

\* cacheFn of the swap process fails: again, for good, or with a guess.
LEMMA AnswerErrorSwapInv ==
  ASSUME CacheInv, NEW t \in Task, NEW k \in {1, 2}, AnswerErrorSwap(t, k)
  PROVE  CacheInv'
  <1> DEFINE all == {"idle", "asking", "known", "failed"} \X Nat
  <1>1. CacheTyped
    BY DEF CacheInv
  <1>2. UNCHANGED <<task, prepared, poolCache, metadata, cacheData, tables, poolWrites,
                    tokenWrites, used>>
    BY DEF AnswerErrorSwap, caches, writes
  <1>3. /\ metadata' \in [Service -> [Token -> Nat]] /\ cacheData' \in [Service -> [Token -> Nat]]
        /\ tokenWrites' \subseteq Service \X Token \X Nat
    BY <1>1, <1>2 DEF CacheTyped
  <1>4. Errors(t, k) \in Nat
    BY <1>1 DEF CacheTyped, Errors
  <1>5. PICK new \in all :
          /\ lookup' = [lookup EXCEPT ![t][k] = new]
          /\ guessed' \in {guessed, guessed \cup {TokenOf(t, k)}}
          /\ new[1] = "known" => new[2] = Guess /\ TokenOf(t, k) \in guessed'
          /\ pc' \in {pc, [pc EXCEPT ![t] = "dropped"]}
    <2>1. CASE Errors(t, k) + 1 < MaxTry
      <3>1. Asking(Errors(t, k) + 1) \in all /\ Asking(Errors(t, k) + 1)[1] # "known"
        BY <1>4 DEF Asking
      <3>2. /\ lookup' = [lookup EXCEPT ![t][k] = Asking(Errors(t, k) + 1)]
            /\ UNCHANGED <<pc, guessed>>
        BY <2>1 DEF AnswerErrorSwap
      <3> HIDE DEF all
      <3>3. QED BY <3>1, <3>2
    <2>2. CASE ~(Errors(t, k) + 1 < MaxTry) /\ ThrowOnError(t, k)
      <3>1. Failed \in all /\ Failed[1] # "known"
        BY DEF Failed
      <3>2. /\ lookup' = [lookup EXCEPT ![t][k] = Failed]
            /\ pc' = [pc EXCEPT ![t] = "dropped"] /\ UNCHANGED guessed
        BY <2>2 DEF AnswerErrorSwap
      <3> HIDE DEF all
      <3>3. QED BY <3>1, <3>2
    <2>3. CASE ~(Errors(t, k) + 1 < MaxTry) /\ ~ThrowOnError(t, k)
      <3>1. Known(Guess) \in all /\ Known(Guess)[2] = Guess
        BY DEF Known, Guess
      <3>2. /\ lookup' = [lookup EXCEPT ![t][k] = Known(Guess)]
            /\ guessed' = guessed \cup {TokenOf(t, k)} /\ UNCHANGED pc
        BY <2>3 DEF AnswerErrorSwap
      <3> HIDE DEF all
      <3>3. QED BY <3>1, <3>2
    <2>4. QED BY <2>1, <2>2, <2>3
  <1>6. new[1] = "known" => Traced(guessed', TokenOf(t, k), new[2])
    BY <1>5 DEF Traced, Guess
  <1>7. QED BY <1>2, <1>3, <1>5, <1>6, LookupInv

\* cacheFn of the defi process fails: its default is cached.
LEMMA AnswerErrorDefiInv ==
  ASSUME CacheInv, NEW t \in Task, NEW k \in {1, 2}, AnswerErrorDefi(t, k)
  PROVE  CacheInv'
  <1> DEFINE x == TokenOf(t, k)
             d == DefaultOf(t)
  <1>1. CacheTyped
    BY DEF CacheInv
  <1>2. x \in Token /\ d \in {9, 18} /\ "defi" \in Service
    BY <1>1, TaskTypes DEF CacheTyped, DefaultOf, Service
  <1>3. /\ cacheData' = [cacheData EXCEPT !["defi"][x] = d]
        /\ lookup' = [lookup EXCEPT ![t][k] = Known(d)] /\ guessed' = guessed \cup {x}
        /\ UNCHANGED <<task, prepared, poolCache, metadata, tables, poolWrites, tokenWrites,
                       pc, used>>
    BY DEF AnswerErrorDefi, writes
  <1>4. Traced(guessed', x, d)
    BY <1>2, <1>3 DEF Traced
  <1> HIDE DEF d, x
  <1>5. /\ metadata' \in [Service -> [Token -> Nat]] /\ cacheData' \in [Service -> [Token -> Nat]]
        /\ tokenWrites' \subseteq Service \X Token \X Nat
        /\ \A r \in Service, y \in Token :
              cacheData'[r][y] = cacheData[r][y] \/ (y = x /\ cacheData'[r][y] = d)
    BY <1>1, <1>2, <1>3 DEF CacheTyped
  <1>6. \A r \in Service, y \in Token :
           cacheData'[r][y] = cacheData[r][y] \/ Traced(guessed', y, cacheData'[r][y])
    BY <1>4, <1>5
  <1>7. /\ Known(d) \in {"idle", "asking", "known", "failed"} \X Nat /\ Known(d)[2] = d
    BY <1>2 DEF Known
  <1>8. QED BY <1>3, <1>4, <1>5, <1>6, <1>7, LookupInv DEF x

\* The two spellings of an address.
LEMMA Spellings ==
  ASSUME NEW x \in Token
  PROVE  /\ Spelled(x) \in Token \X BOOLEAN
         /\ NormalizedTokenAddress(Spelled(x)) = <<x, FALSE>>
  <1> DEFINE padded == x \in Padded
  <1>1. padded \in BOOLEAN /\ Spelled(x) = <<x, padded>>
    BY DEF Spelled
  <1> HIDE DEF padded
  <1>2. <<x, padded>> \in Token \X BOOLEAN /\ <<x, padded>>[1] = x
    BY <1>1
  <1>3. QED BY <1>1, <1>2 DEF NormalizedTokenAddress

\* The address that the chain spells is the plain one if nothing was padded.
LEMMA SpelledPlain ==
  ASSUME NEW x, NEW y
  PROVE  Spelled(x) = <<y, FALSE>> <=> x = y /\ x \notin Padded
  <1> DEFINE padded == x \in Padded
  <1>1. padded \in BOOLEAN /\ Spelled(x) = <<x, padded>>
    BY DEF Spelled
  <1> HIDE DEF padded
  <1>2. <<x, padded>> = <<y, FALSE>> <=> x = y /\ ~padded
    BY <1>1
  <1>3. QED BY <1>1, <1>2 DEF padded

\* What a task makes of its lookups.
LEMMA SettledInfo ==
  ASSUME CacheInv, NEW t \in Task, \A k \in {1, 2} : lookup[t][k][1] = "known"
  PROVE  /\ InfoOf(guessed, TokensOf(SwapOf(t)), Info(t), FALSE)
         /\ InfoOf(guessed, TokensOf(SwapOf(t)), Normalized(Info(t)), TRUE)
  <1>1. CacheTyped /\ DecimalsTraced
    BY DEF CacheInv
  <1> DEFINE pair == TokensOf(SwapOf(t))
  <1>2. \A k \in {1, 2} : TokenOf(t, k) = pair[k] /\ TokenOf(t, k) \in Token
    BY <1>1, TaskTypes DEF CacheTyped, TokenOf
  <1>3. \A k \in {1, 2} : /\ Traced(guessed, TokenOf(t, k), lookup[t][k][2])
                          /\ lookup[t][k][2] \in Nat
    BY <1>1 DEF DecimalsTraced, CacheTyped
  <1>4. \A k \in {1, 2} : Spelled(TokenOf(t, k)) \in Token \X BOOLEAN
                          /\ NormalizedTokenAddress(Spelled(TokenOf(t, k))) = <<TokenOf(t, k), FALSE>>
    BY <1>2, Spellings
  <1>5. InfoOf(guessed, TokensOf(SwapOf(t)), Info(t), FALSE)
    BY <1>2, <1>3, <1>4 DEF InfoOf, Info
  <1>6. /\ Normalized(Info(t)) = [token |-> [k \in {1, 2} |-> <<TokenOf(t, k), FALSE>>],
                                  decimals |-> [k \in {1, 2} |-> lookup[t][k][2]]]
    <2> DEFINE f == [k \in {1, 2} |-> Spelled(TokenOf(t, k))]
               g == [k \in {1, 2} |-> lookup[t][k][2]]
    <2>1. Info(t) = [token |-> f, decimals |-> g]
      BY DEF Info
    <2>2. \A k \in {1, 2} : NormalizedTokenAddress(f[k]) = <<TokenOf(t, k), FALSE>>
      BY <1>4
    <2> HIDE DEF f
    <2>3. Normalized(Info(t)) = [token |-> [k \in {1, 2} |-> NormalizedTokenAddress(f[k])],
                                 decimals |-> g]
      <3> HIDE DEF g
      <3>1. QED BY <2>1 DEF Normalized
    <2>4. QED BY <2>2, <2>3
  <1>7. InfoOf(guessed, TokensOf(SwapOf(t)), Normalized(Info(t)), TRUE)
    <2>1. \A k \in {1, 2} : <<TokenOf(t, k), FALSE>> \in Token \X BOOLEAN
      BY <1>2
    <2> DEFINE info == [token |-> [k \in {1, 2} |-> <<TokenOf(t, k), FALSE>>],
                        decimals |-> [k \in {1, 2} |-> lookup[t][k][2]]]
    <2>2. info \in [token : [{1, 2} -> Token \X BOOLEAN], decimals : [{1, 2} -> Nat]]
      BY <1>3, <2>1
    <2>3. \A k \in {1, 2} : /\ info.token[k] = <<pair[k], FALSE>>
                            /\ Traced(guessed, pair[k], info.decimals[k])
      BY <1>2, <1>3
    <2>4. Normalized(Info(t)) = info
      BY <1>6
    <2> HIDE DEF info
    <2>5. QED BY <2>2, <2>3, <2>4 DEF InfoOf
  <1>8. QED BY <1>5, <1>7

\* Settle remembers the pool and ends the task.
LEMMA SettleInv == ASSUME CacheInv, NEW t \in Task, Settle(t) PROVE CacheInv'
  <1>1. CacheTyped /\ DecimalsTraced /\ PoolsTraced /\ UsedTraced
    BY DEF CacheInv
  <1>2. /\ UNCHANGED <<task, prepared, metadata, cacheData, poolRows, tokenRows, tokenWrites, guessed>>
        /\ lookup' = [lookup EXCEPT ![t] = [k \in {1, 2} |-> Idle]]
        /\ pc[t] = "looking" /\ \A k \in {1, 2} : lookup[t][k][1] = "known"
    BY DEF Settle, tables
  <1>3. ServiceOf(t) \in Service /\ PoolOf(t) \in Pool
    BY <1>1, TaskTypes DEF CacheTyped
  <1>4. /\ lookup' \in [Task -> [{1, 2} -> {"idle", "asking", "known", "failed"} \X Nat]]
        /\ \A u \in Task, k \in {1, 2} :
              lookup'[u][k] = lookup[u][k] \/ lookup'[u][k][1] = "idle"
    BY <1>1, <1>2 DEF CacheTyped, Idle
  <1>5. DecimalsTraced'
    BY <1>1, <1>2, <1>4 DEF DecimalsTraced, TokenOf, PoolOf, SwapOf
  <1>6. CASE HasPool(t)
    <2> DEFINE info == Normalized(Info(t))
    <2>1. /\ poolCache' = [poolCache EXCEPT ![ServiceOf(t)][PoolOf(t)] = info]
          /\ poolWrites' = poolWrites \cup {<<ServiceOf(t), PoolOf(t), info>>}
          /\ Ends(t, info)
      BY <1>6 DEF Settle
    <2>2. InfoOf(guessed, Tokens[PoolOf(t)], info, TRUE)
      BY <1>2, <1>6, SettledInfo, TokensOfPool
    <2> HIDE DEF info
    <2>3. info \in InfoType
      BY <2>2, InfoTyped
    <2>4. \A s \in Service, p \in Pool :
             \/ poolCache'[s][p] = poolCache[s][p]
             \/ s = ServiceOf(t) /\ p = PoolOf(t) /\ poolCache'[s][p] = info
      BY <1>1, <1>3, <2>1 DEF CacheTyped
    <2>5. PoolsTraced'
      <3>1. \A s \in Service, p \in Pool :
               poolCache'[s][p] = NoInfo \/ InfoOf(guessed, Tokens[p], poolCache'[s][p], TRUE)
        BY <1>1, <2>2, <2>4 DEF PoolsTraced
      <3>2. \A w \in poolWrites' : InfoOf(guessed, Tokens[w[2]], w[3], TRUE)
        <4> SUFFICES ASSUME NEW w \in poolWrites' PROVE InfoOf(guessed, Tokens[w[2]], w[3], TRUE)
          OBVIOUS
        <4>1. CASE w \in poolWrites
          BY <1>1, <4>1 DEF PoolsTraced
        <4>2. CASE w = <<ServiceOf(t), PoolOf(t), info>>
          BY <2>2, <4>2
        <4>3. QED BY <2>1, <4>1, <4>2
      <3>3. QED BY <1>1, <1>2, <3>1, <3>2 DEF PoolsTraced
    <2>6. InfoOf(guessed, TokensOf(SwapOf(t)), info, HasPool(t))
      BY <1>6, <2>2, TokensOfPool
    <2>7. /\ used' \in [Task -> InfoType] /\ pc' \in [Task -> TaskPlace]
          /\ UsedTraced'
      BY <1>2, <2>1, <2>6, EndsInv
    <2>8. poolCache' \in [Service -> [Pool -> InfoType]]
          /\ poolWrites' \subseteq Service \X Pool \X InfoType
      BY <1>1, <1>3, <2>1, <2>3 DEF CacheTyped
    <2>9. CacheTyped'
      BY <1>1, <1>2, <1>4, <2>7, <2>8 DEF CacheTyped
    <2>10. QED BY <1>5, <2>5, <2>7, <2>9 DEF CacheInv
  <1>7. CASE ~HasPool(t)
    <2>1. Ends(t, Info(t)) /\ UNCHANGED <<poolCache, poolWrites>>
      BY <1>7 DEF Settle
    <2>2. InfoOf(guessed, TokensOf(SwapOf(t)), Info(t), HasPool(t))
      BY <1>2, <1>7, SettledInfo DEF InfoOf
    <2>3. PoolsTraced'
      BY <1>1, <1>2, <2>1, SamePools
    <2>5. /\ used' \in [Task -> InfoType] /\ pc' \in [Task -> TaskPlace]
          /\ UsedTraced'
      BY <1>2, <2>1, <2>2, EndsInv
    <2>6. CacheTyped'
      BY <1>1, <1>2, <1>4, <2>1, <2>5 DEF CacheTyped
    <2>7. QED BY <1>5, <2>3, <2>5, <2>6 DEF CacheInv
  <1>8. QED BY <1>6, <1>7

\* The writes reach the tables, or do not.
LEMMA StorePoolInv == ASSUME CacheInv, NEW w \in poolWrites, StorePool(w) PROVE CacheInv'
  <1>1. CacheTyped /\ DecimalsTraced /\ PoolsTraced /\ UsedTraced
    BY DEF CacheInv
  <1>2. /\ UNCHANGED <<task, prepared, poolCache, metadata, cacheData, tokenRows, tokenWrites,
                       pc, lookup, used, guessed>>
        /\ poolWrites' = poolWrites \ {w}
    BY DEF StorePool, caches
  <1>3. /\ w[2] \in Pool /\ w[3] \in InfoType /\ InfoOf(guessed, Tokens[w[2]], w[3], TRUE)
    BY <1>1 DEF CacheTyped, PoolsTraced
  <1>4. poolRows' = poolRows \/ poolRows' = [poolRows EXCEPT ![w[2]] = @ \cup {w[3]}]
    BY DEF StorePool
  <1>5. /\ poolRows' \in [Pool -> SUBSET InfoType]
        /\ \A p \in Pool : /\ poolRows[p] \subseteq poolRows'[p]
                           /\ poolRows'[p] \subseteq poolRows[p] \cup
                                (IF p = w[2] THEN {w[3]} ELSE {})
    <2>1. poolRows \in [Pool -> SUBSET InfoType]
      BY <1>1 DEF CacheTyped
    <2>2. CASE poolRows' = poolRows
      BY <2>1, <2>2
    <2>3. CASE poolRows' = [poolRows EXCEPT ![w[2]] = @ \cup {w[3]}]
      <3>1. poolRows[w[2]] \cup {w[3]} \in SUBSET InfoType
        BY <1>3, <2>1
      <3>2. poolRows' \in [Pool -> SUBSET InfoType]
        BY <1>3, <2>1, <2>3, <3>1
      <3>3. \A p \in Pool : poolRows'[p] = IF p = w[2] THEN poolRows[p] \cup {w[3]} ELSE poolRows[p]
        BY <1>3, <2>1, <2>3
      <3>4. QED BY <3>2, <3>3
    <2>4. QED BY <1>4, <2>2, <2>3
  <1>6. CacheTyped'
    BY <1>1, <1>2, <1>5 DEF CacheTyped
  <1>7. PoolsTraced'
    <2>1. \A p \in Pool : \A info \in poolRows'[p] : InfoOf(guessed, Tokens[p], info, TRUE)
      BY <1>1, <1>3, <1>5 DEF PoolsTraced
    <2>2. QED BY <1>1, <1>2, <2>1 DEF PoolsTraced
  <1>8. DecimalsTraced' /\ UsedTraced'
    BY <1>1, <1>2, SameDecimals, SameUsed
  <1>9. QED BY <1>6, <1>7, <1>8 DEF CacheInv

\* The upsert of a token.
LEMMA StoreTokenInv == ASSUME CacheInv, NEW w \in tokenWrites, StoreToken(w) PROVE CacheInv'
  <1>1. CacheTyped /\ DecimalsTraced /\ PoolsTraced /\ UsedTraced
    BY DEF CacheInv
  <1>2. /\ UNCHANGED <<task, prepared, poolCache, metadata, cacheData, poolRows, poolWrites,
                       pc, lookup, used, guessed>>
        /\ tokenWrites' = tokenWrites \ {w}
    BY DEF StoreToken, caches
  <1>3. w[2] \in Token /\ w[3] \in Nat /\ Traced(guessed, w[2], w[3])
    BY <1>1 DEF CacheTyped, DecimalsTraced
  <1>4. tokenRows' = tokenRows \/ tokenRows' = [tokenRows EXCEPT ![w[2]] = w[3]]
    BY DEF StoreToken
  <1>5. /\ tokenRows' \in [Token -> Nat]
        /\ \A x \in Token : tokenRows'[x] = tokenRows[x] \/ (x = w[2] /\ tokenRows'[x] = w[3])
    BY <1>1, <1>3, <1>4 DEF CacheTyped
  <1>6. CacheTyped'
    BY <1>1, <1>2, <1>5 DEF CacheTyped
  <1>7. DecimalsTraced'
    <2>1. \A x \in Token : tokenRows'[x] = Unknown \/ Traced(guessed, x, tokenRows'[x])
      BY <1>1, <1>3, <1>5 DEF DecimalsTraced
    <2>2. QED BY <1>1, <1>2, <2>1 DEF DecimalsTraced, TokenOf, PoolOf, SwapOf
  <1>8. PoolsTraced' /\ UsedTraced'
    BY <1>1, <1>2, SamePools, SameUsed
  <1>9. QED BY <1>6, <1>7, <1>8 DEF CacheInv

\* A process dies and forgets what it had in memory.
LEMMA RestartInv == ASSUME CacheInv, NEW s \in Service, Restart(s) PROVE CacheInv'
  <1>1. CacheTyped /\ DecimalsTraced /\ PoolsTraced /\ UsedTraced
    BY DEF CacheInv
  <1>2. /\ UNCHANGED <<task, poolRows, tokenRows, guessed>>
        /\ prepared' \subseteq Service
        /\ poolWrites' \subseteq poolWrites /\ tokenWrites' \subseteq tokenWrites
    BY <1>1 DEF Restart, tables, CacheTyped
  <1>3. /\ poolCache' \in [Service -> [Pool -> InfoType]]
        /\ \A r \in Service, p \in Pool :
              poolCache'[r][p] = poolCache[r][p] \/ poolCache'[r][p] = NoInfo
    <2>1. NoInfo \in InfoType
      BY DEF NoInfo, InfoType
    <2>2. QED BY <1>1, <2>1 DEF Restart, CacheTyped
  <1>4. /\ metadata' \in [Service -> [Token -> Nat]] /\ cacheData' \in [Service -> [Token -> Nat]]
        /\ \A r \in Service, x \in Token :
              /\ metadata'[r][x] = metadata[r][x] \/ metadata'[r][x] = Unknown
              /\ cacheData'[r][x] = cacheData[r][x] \/ cacheData'[r][x] = Unknown
    BY <1>1 DEF Restart, CacheTyped, Unknown
  <1>5. /\ pc' \in [Task -> TaskPlace]
        /\ \A t \in Task : pc'[t] = pc[t] \/ pc'[t] = "start"
    BY <1>1 DEF Restart, CacheTyped, TaskPlace
  <1>6. /\ lookup' \in [Task -> [{1, 2} -> {"idle", "asking", "known", "failed"} \X Nat]]
        /\ \A t \in Task, k \in {1, 2} :
              lookup'[t][k] = lookup[t][k] \/ lookup'[t][k][1] = "idle"
    BY <1>1 DEF Restart, CacheTyped, Idle
  <1>7. /\ used' \in [Task -> InfoType]
        /\ \A t \in Task : used'[t] = used[t] \/ used'[t] = NoInfo
    BY <1>1 DEF Restart, CacheTyped, NoInfo, InfoType
  <1>8. CacheTyped'
    BY <1>1, <1>2, <1>3, <1>4, <1>5, <1>6, <1>7 DEF CacheTyped
  <1>9. DecimalsTraced'
    <2>1. \A r \in Service, x \in Token :
             /\ metadata'[r][x] = Unknown \/ Traced(guessed, x, metadata'[r][x])
             /\ cacheData'[r][x] = Unknown \/ Traced(guessed, x, cacheData'[r][x])
      BY <1>1, <1>4 DEF DecimalsTraced
    <2>2. \A t \in Task, k \in {1, 2} :
             lookup'[t][k][1] = "known" => Traced(guessed, TokenOf(t, k), lookup'[t][k][2])
      BY <1>1, <1>6 DEF DecimalsTraced
    <2>3. QED BY <1>1, <1>2, <2>1, <2>2 DEF DecimalsTraced, TokenOf, PoolOf, SwapOf
  <1>10. PoolsTraced'
    <2>1. \A r \in Service, p \in Pool :
             poolCache'[r][p] = NoInfo \/ InfoOf(guessed, Tokens[p], poolCache'[r][p], TRUE)
      BY <1>1, <1>3 DEF PoolsTraced
    <2>2. QED BY <1>1, <1>2, <2>1 DEF PoolsTraced
  <1>11. UsedTraced'
    BY <1>1, <1>2, <1>7 DEF UsedTraced, PoolOf, HasPool, SwapOf
  <1>12. QED BY <1>8, <1>9, <1>10, <1>11 DEF CacheInv

\* The other steps look decimals up, or are about to.
LEMMA LookInv ==
  ASSUME CacheInv, NEW t \in Task, GetObject(t) \/ StartToken(t)
  PROVE  CacheInv'
  <1>1. CacheTyped /\ DecimalsTraced /\ PoolsTraced /\ UsedTraced
    BY DEF CacheInv
  <1>2. UNCHANGED <<task, prepared, poolCache, metadata, tables, writes, used, guessed>>
    BY DEF GetObject, StartToken
  <1>4. CASE Ask(t)
    BY <1>2, <1>4, AskInv
  <1>5. CASE pc' = [pc EXCEPT ![t] = "object"] /\ UNCHANGED <<cacheData, lookup>>
    <2>1. CacheTyped'
      BY <1>1, <1>2, <1>5 DEF CacheTyped, TaskPlace, tables, writes
    <2>3. DecimalsTraced' /\ PoolsTraced' /\ UsedTraced'
      BY <1>1, <1>2, <1>5, SameDecimals, SamePools, SameUsed DEF tables, writes
    <2>4. QED BY <2>1, <2>3 DEF CacheInv
  <1>6. QED BY <1>4, <1>5 DEF GetObject, StartToken

\* Only the tasks that have a pool ask the table for it.
AtPool == \A t \in Task : pc[t] = "query" => HasPool(t)

\* Steps of a task put no other task there.
LEMMA AtPoolStep ==
  ASSUME CacheInv, AtPool, [CacheNext]_cacheVars
  PROVE  AtPool'
  <1>1. pc \in [Task -> TaskPlace]
    BY DEF CacheInv, CacheTyped
  <1>2. task' = task
    BY DEF CacheNext, TaskStep, AnswerStep, cacheVars, Prepare, Restart, StartPool, StartToken,
           FindFirst, GetObject, GetObjectThrows, Settle, Answer, AnswerErrorSwap,
           AnswerErrorDefi, StorePool, StoreToken
  <1>3. \A t \in Task : pc'[t] = pc[t] \/ pc'[t] # "query" \/ HasPool(t)
    <2>1. CASE \E s \in Service : Prepare(s) \/ Restart(s)
      BY <1>1, <2>1 DEF Prepare, Restart
    <2>2. ASSUME NEW t \in Task, TaskStep(t)
          PROVE  \A u \in Task : pc'[u] = pc[u] \/ pc'[u] # "query" \/ HasPool(u)
      BY <1>1, <2>2 DEF TaskStep, StartPool, StartToken, FindFirst, GetObject, GetObjectThrows,
                        Settle, Ask, Ends
    <2>3. ASSUME NEW t \in Task, NEW k \in {1, 2}, AnswerStep(t, k)
          PROVE  \A u \in Task : pc'[u] = pc[u] \/ pc'[u] # "query" \/ HasPool(u)
      BY <1>1, <2>3 DEF AnswerStep, Answer, AnswerErrorSwap, AnswerErrorDefi
    <2>4. CASE \/ \E w \in poolWrites : StorePool(w)
               \/ \E w \in tokenWrites : StoreToken(w)
               \/ UNCHANGED cacheVars
      BY <2>4 DEF StorePool, StoreToken, cacheVars
    <2>5. QED BY <2>1, <2>2, <2>3, <2>4 DEF CacheNext
  <1>4. QED BY <1>2, <1>3 DEF AtPool, HasPool, SwapOf

\* Every step of the tasks, and of the writes nobody waits for, keeps the
\* invariant.
LEMMA CacheStep ==
  ASSUME CacheInv, AtPool, [CacheNext]_cacheVars
  PROVE  CacheInv'
  <1>1. CASE \E s \in Service : Prepare(s)
    BY <1>1, PrepareInv
  <1>2. CASE \E s \in Service : Restart(s)
    BY <1>2, RestartInv
  <1>3. ASSUME NEW t \in Task, TaskStep(t) PROVE CacheInv'
    <2>1. CASE StartPool(t)
      BY <2>1, StartPoolInv
    <2>2. CASE StartToken(t) \/ GetObject(t)
      BY <2>2, LookInv
    <2>3. CASE FindFirst(t)
      <3>1. HasPool(t)
        BY <2>3 DEF AtPool, FindFirst
      <3>2. QED BY <2>3, <3>1, FindFirstInv
    <2>4. CASE GetObjectThrows(t)
      BY <2>4, ThrowsInv
    <2>5. CASE Settle(t)
      BY <2>5, SettleInv
    <2>6. QED BY <1>3, <2>1, <2>2, <2>3, <2>4, <2>5 DEF TaskStep
  <1>4. ASSUME NEW t \in Task, NEW k \in {1, 2}, AnswerStep(t, k) PROVE CacheInv'
    BY <1>4, AnswerInv, AnswerErrorSwapInv, AnswerErrorDefiInv DEF AnswerStep
  <1>5. CASE \E w \in poolWrites : StorePool(w)
    BY <1>5, StorePoolInv
  <1>6. CASE \E w \in tokenWrites : StoreToken(w)
    BY <1>6, StoreTokenInv
  <1>7. CASE UNCHANGED cacheVars
    <2>1. UNCHANGED <<task, prepared, poolCache, metadata, cacheData, poolRows, tokenRows,
                      poolWrites, tokenWrites, pc, lookup, used, guessed>>
      BY <1>7 DEF cacheVars, caches, tables, writes
    <2>2. CacheTyped'
      BY <2>1 DEF CacheInv, CacheTyped
    <2>3. DecimalsTraced' /\ PoolsTraced' /\ UsedTraced'
      BY <2>1, SameDecimals, SamePools, SameUsed DEF CacheInv
    <2>4. QED BY <2>2, <2>3 DEF CacheInv
  <1>8. QED BY <1>1, <1>2, <1>3, <1>4, <1>5, <1>6, <1>7 DEF CacheNext

\* Both are kept together.
LEMMA CacheAlways == CacheSpec => [](CacheInv /\ AtPool)
  <1>1. CacheInit => CacheInv /\ AtPool
    BY CacheInitInv DEF CacheInit, AtPool
  <1>2. CacheInv /\ AtPool /\ [CacheNext]_cacheVars => (CacheInv /\ AtPool)'
    BY CacheStep, AtPoolStep
  <1>3. QED BY <1>1, <1>2, PTL DEF CacheSpec

(***************************************************************************)
(* The decimals a handler works with are those of the tokens of its own    *)
(* event, 9 for a token without, or 9 or 18 that were guessed for that     *)
(* very token by someone before: whatever the handlers, the writes nobody  *)
(* waits for and the restarts of both processes do to each other           *)
(* (getPoolInfo and cacheFn of src/utils.ts).                              *)
(***************************************************************************)
THEOREM InfoSafe == CacheSpec => []GuessesTraced
  <1>1. CacheInv => GuessesTraced
    <2> SUFFICES ASSUME CacheInv, NEW t \in Task, used[t] # NoInfo, NEW k \in {1, 2}
                 PROVE  Traced(guessed, TokenOf(t, k), used[t].decimals[k])
      BY DEF GuessesTraced, Traced
    <2>1. QED BY DEF CacheInv, UsedTraced, InfoOf, TokenOf
  <1>2. QED BY <1>1, CacheAlways, PTL

\* A lookup has not begun, goes on, or has ended; a task that looks nothing up has
\* none; and a task is done when it has worked with an info.
LookupType == {Idle, Failed} \cup ({"asking", "known"} \X Nat)

LookupsTyped == \A t \in Task, k \in {1, 2} : lookup[t][k] \in LookupType

TasksEnded ==
  \A t \in Task :
     /\ pc[t] = "done" <=> used[t] # NoInfo
     /\ pc[t] \notin {"looking", "dropped"} => \A k \in {1, 2} : lookup[t][k] = Idle

CacheCounted ==
  /\ errors \in 0 .. MaxErr
  /\ \A w \in tokenWrites : w[3] # Unknown

CacheStrong == CacheInv /\ AtPool /\ LookupsTyped /\ TasksEnded /\ CacheCounted

\* An info about a pool is not the lack of one.
LEMMA InfoThere ==
  ASSUME NEW those, NEW pair, NEW info, NEW normalized, InfoOf(those, pair, info, normalized)
  PROVE  info # NoInfo
  <1>1. info.token[1] \in Token \X BOOLEAN
    BY DEF InfoOf
  <1>2. DOMAIN info.token = {1, 2}
    BY DEF InfoOf
  <1>3. DOMAIN <<>> = {}
    OBVIOUS
  <1>4. info.token # <<>>
    BY <1>2, <1>3
  <1>5. QED BY <1>4 DEF NoInfo

\* Errors are bounded, and no write to the table of tokens lacks its decimals.
LEMMA CacheCountedStep ==
  ASSUME CacheInv, CacheCounted, [CacheNext]_cacheVars
  PROVE  CacheCounted'
  <1>1. errors' = errors \/ SpendError
    <2>1. CASE \E t \in Task : TaskStep(t)
      BY <2>1 DEF TaskStep, StartPool, StartToken, FindFirst, GetObject, GetObjectThrows, Settle
    <2>2. ASSUME NEW t \in Task, NEW k \in {1, 2}, AnswerStep(t, k)
          PROVE  errors' = errors \/ SpendError
      BY <2>2 DEF AskedInVain, AnswerStep, Answer, AnswerErrorSwap, AnswerErrorDefi
    <2>3. CASE UNCHANGED cacheVars
      BY <2>3 DEF cacheVars
    <2>4. QED BY <2>1, <2>2, <2>3 DEF CacheNext, Prepare, Restart, StorePool, StoreToken
  <1>2. errors' \in 0 .. MaxErr
    BY <1>1, CacheAssumption DEF SpendError, CacheCounted
  <1>3. ASSUME NEW t \in Task, NEW k \in {1, 2}, Answer(t, k)
        PROVE  \A w \in tokenWrites' : w[3] # Unknown
    <2>1. PICK d \in Nat : d # Unknown /\ tokenWrites' = tokenWrites \cup {<<ServiceOf(t), TokenOf(t, k), d>>}
      <3>1. PICK known \in BOOLEAN :
               tokenWrites' = tokenWrites \cup
                  {<<ServiceOf(t), TokenOf(t, k), IF known THEN OrGuess(Decimals[TokenOf(t, k)]) ELSE Guess>>}
        BY <1>3 DEF Answer
      <3>2. Decimals[TokenOf(t, k)] \in Nat
        BY TaskTypes, CacheAssumption DEF CacheInv, CacheTyped
      <3>3. /\ (IF known THEN OrGuess(Decimals[TokenOf(t, k)]) ELSE Guess) \in Nat
            /\ (IF known THEN OrGuess(Decimals[TokenOf(t, k)]) ELSE Guess) # Unknown
        BY <3>2 DEF OrGuess, Guess, Unknown
      <3>4. QED BY <3>1, <3>3
    <2>2. QED BY <2>1 DEF CacheCounted
  <1>4. CASE tokenWrites' \subseteq tokenWrites
    BY <1>2, <1>4 DEF CacheCounted
  <1>5. CASE \E t \in Task, k \in {1, 2} : Answer(t, k)
    BY <1>2, <1>3, <1>5 DEF CacheCounted
  <1>6. tokenWrites' \subseteq tokenWrites \/ \E t \in Task, k \in {1, 2} : Answer(t, k)
    BY DEF CacheNext, TaskStep, AnswerStep, cacheVars, writes, Prepare, Restart, StartPool,
           StartToken, FindFirst, GetObject, GetObjectThrows, Settle, AnswerErrorSwap,
           AnswerErrorDefi, StorePool, StoreToken
  <1>7. QED BY <1>4, <1>5, <1>6

\* Where the lookups of the task t end up, and those of no other task change.
LookupGoes(t) ==
  /\ \A u \in Task \ {t} : lookup'[u] = lookup[u]
  /\ \A k \in {1, 2} : lookup'[t][k] = lookup[t][k] \/ lookup'[t][k] \in LookupType

LEMMA LookupTypes ==
  /\ Idle \in LookupType /\ Failed \in LookupType
  /\ \A n \in Nat : Asking(n) \in LookupType /\ Known(n) \in LookupType
  BY DEF LookupType, Asking, Known

LEMMA AskGoes == ASSUME CacheInv, NEW t \in Task, Ask(t) PROVE LookupGoes(t)
  <1>1. \A k \in {1, 2} : Hit(t, k) \in Nat
    BY HitTraced
  <1>2. \A k \in {1, 2} :
           lookup'[t][k] = IF Hit(t, k) = Unknown THEN Asking(0) ELSE Known(Hit(t, k))
    BY DEF Ask, CacheInv, CacheTyped
  <1>3. \A u \in Task \ {t} : lookup'[u] = lookup[u]
    BY DEF Ask, CacheInv, CacheTyped
  <1>4. QED BY <1>1, <1>2, <1>3, LookupTypes DEF LookupGoes

LEMMA TaskGoes == ASSUME CacheInv, NEW t \in Task, TaskStep(t) PROVE LookupGoes(t)
  <1>1. CASE StartPool(t) \/ FindFirst(t) \/ GetObjectThrows(t)
    BY <1>1 DEF StartPool, FindFirst, GetObjectThrows, LookupGoes
  <1>2. CASE StartToken(t) \/ GetObject(t)
    BY <1>2, AskGoes DEF StartToken, GetObject, LookupGoes
  <1>3. CASE Settle(t)
    <2>1. lookup' = [lookup EXCEPT ![t] = [k \in {1, 2} |-> Idle]]
      BY <1>3 DEF Settle
    <2>2. lookup \in [Task -> [{1, 2} -> {"idle", "asking", "known", "failed"} \X Nat]]
      BY DEF CacheInv, CacheTyped
    <2>3. QED BY <2>1, <2>2, LookupTypes DEF LookupGoes
  <1>4. QED BY <1>1, <1>2, <1>3 DEF TaskStep

\* An answer is for a lookup that goes on.
LEMMA AnswerGoes ==
  ASSUME CacheInv, NEW t \in Task, NEW k \in {1, 2}, AnswerStep(t, k)
  PROVE  /\ LookupGoes(t) /\ lookup[t][k][1] = "asking"
         /\ pc' = pc \/ pc' = [pc EXCEPT ![t] = "dropped"]
         /\ used' = used
  <1>0. /\ lookup \in [Task -> [{1, 2} -> {"idle", "asking", "known", "failed"} \X Nat]]
        /\ TokenOf(t, k) \in Token /\ Decimals[TokenOf(t, k)] \in Nat
    BY TaskTypes, CacheAssumption DEF CacheInv, CacheTyped
  <1>1. PICK new \in LookupType : lookup' = [lookup EXCEPT ![t][k] = new]
    <2>1. CASE Answer(t, k)
      <3>1. PICK known \in BOOLEAN :
               lookup' = [lookup EXCEPT ![t][k] =
                            Known(IF known THEN OrGuess(Decimals[TokenOf(t, k)]) ELSE Guess)]
        BY <2>1 DEF Answer
      <3>2. (IF known THEN OrGuess(Decimals[TokenOf(t, k)]) ELSE Guess) \in Nat
        BY <1>0 DEF OrGuess, Guess
      <3>3. QED BY <3>1, <3>2, LookupTypes
    <2>2. CASE AnswerErrorSwap(t, k)
      <3>1. Errors(t, k) + 1 \in Nat /\ Guess \in Nat
        BY <1>0 DEF Errors, Guess
      <3>2. \/ lookup' = [lookup EXCEPT ![t][k] = Asking(Errors(t, k) + 1)]
            \/ lookup' = [lookup EXCEPT ![t][k] = Failed]
            \/ lookup' = [lookup EXCEPT ![t][k] = Known(Guess)]
        BY <2>2 DEF AnswerErrorSwap
      <3>3. QED BY <3>1, <3>2, LookupTypes
    <2>3. CASE AnswerErrorDefi(t, k)
      <3>1. DefaultOf(t) \in Nat
        BY DEF DefaultOf
      <3>2. QED BY <2>3, <3>1, LookupTypes DEF AnswerErrorDefi
    <2>4. QED BY <2>1, <2>2, <2>3 DEF AnswerStep
  <1>2. LookupGoes(t)
    BY <1>0, <1>1 DEF LookupGoes
  <1>3. /\ lookup[t][k][1] = "asking" /\ used' = used
        /\ pc' = pc \/ pc' = [pc EXCEPT ![t] = "dropped"]
    BY DEF AnswerStep, Answer, AnswerErrorSwap, AnswerErrorDefi
  <1>4. QED BY <1>2, <1>3

\* The lookups keep their type.
LEMMA LookupsStep ==
  ASSUME CacheInv, LookupsTyped, [CacheNext]_cacheVars
  PROVE  LookupsTyped'
  <1>1. CASE \E t \in Task : LookupGoes(t)
    BY <1>1 DEF LookupGoes, LookupsTyped
  <1>2. ASSUME NEW s \in Service, Restart(s) PROVE LookupsTyped'
    <2>1. \A t \in Task : lookup'[t] = [k \in {1, 2} |-> Idle] \/ lookup'[t] = lookup[t]
      BY <1>2 DEF Restart
    <2>2. QED BY <2>1, LookupTypes DEF LookupsTyped
  <1>3. CASE lookup' = lookup
    BY <1>3 DEF LookupsTyped
  <1>4. \/ \E t \in Task : LookupGoes(t)
        \/ \E s \in Service : Restart(s)
        \/ lookup' = lookup
    BY TaskGoes, AnswerGoes DEF CacheNext, Prepare, StorePool, StoreToken, cacheVars
  <1>5. QED BY <1>1, <1>2, <1>3, <1>4

\* A task is done when it has an info, and looks things up at its place only.
LEMMA TasksStep ==
  ASSUME CacheInv, AtPool, TasksEnded, [CacheNext]_cacheVars
  PROVE  TasksEnded'
  <1> DEFINE Ended(t) == /\ pc[t] = "done" <=> used[t] # NoInfo
                         /\ pc[t] \notin {"looking", "dropped"} =>
                               \A k \in {1, 2} : lookup[t][k] = Idle
             Ended1(t) == /\ pc'[t] = "done" <=> used'[t] # NoInfo
                          /\ pc'[t] \notin {"looking", "dropped"} =>
                               \A k \in {1, 2} : lookup'[t][k] = Idle
  <1>0. /\ \A t \in Task : Ended(t)
        /\ (\A t \in Task : Ended1(t)) => TasksEnded'
    BY DEF TasksEnded
  <1>t. CacheTyped /\ PoolsTraced
    BY DEF CacheInv
  <1>f. pc \in [Task -> TaskPlace] /\ used \in [Task -> InfoType]
        /\ lookup \in [Task -> [{1, 2} -> {"idle", "asking", "known", "failed"} \X Nat]]
    BY <1>t DEF CacheTyped
  \* Other tasks are where they were.
  <1>1. ASSUME NEW t \in Task, NEW there,
               pc' = pc \/ pc' = [pc EXCEPT ![t] = there],
               used' = used \/ \E info : used' = [used EXCEPT ![t] = info],
               \A u \in Task \ {t} : lookup'[u] = lookup[u],
               Ended1(t)
        PROVE  TasksEnded'
    <2>1. \A u \in Task \ {t} : pc'[u] = pc[u] /\ used'[u] = used[u]
      BY <1>f, <1>1
    <2>2. \A u \in Task \ {t} : Ended1(u)
      BY <1>0, <1>1, <2>1
    <2>3. QED BY <1>0, <1>1, <2>2
  <1>2. ASSUME NEW t \in Task, TaskStep(t) PROVE TasksEnded'
    <2>0. /\ \A u \in Task \ {t} : lookup'[u] = lookup[u]
          /\ ServiceOf(t) \in Service /\ PoolOf(t) \in Pool
      BY <1>2, <1>t, TaskGoes, TaskTypes DEF LookupGoes, CacheTyped
    <2>1. ASSUME NEW info, Ends(t, info), info # NoInfo, \A k \in {1, 2} : lookup'[t][k] = Idle
          PROVE  TasksEnded'
      <3>1. pc' = [pc EXCEPT ![t] = "done"] /\ used' = [used EXCEPT ![t] = info]
        BY <2>1 DEF Ends
      <3>2. Ended1(t)
        BY <1>f, <2>1, <3>1
      <3> HIDE DEF Ended1
      <3>3. QED BY <1>1, <2>0, <3>1, <3>2
    <2>2. ASSUME NEW there \in {"query", "object", "looking", "dropped"}, pc[t] # "done",
                 pc' = [pc EXCEPT ![t] = there], used' = used,
                 there \in {"looking", "dropped"} \/ \A k \in {1, 2} : lookup'[t][k] = Idle
          PROVE  TasksEnded'
      <3>1. Ended1(t)
        BY <1>0, <1>f, <2>2
      <3> HIDE DEF Ended1
      <3>2. QED BY <1>1, <2>0, <2>2, <3>1
    <2>3. CASE StartPool(t)
      <3>1. pc[t] = "start" /\ lookup' = lookup /\ \A k \in {1, 2} : lookup[t][k] = Idle
        BY <1>0, <2>3 DEF StartPool
      <3>2. \/ \E info : info # NoInfo /\ Ends(t, info)
            \/ pc' = [pc EXCEPT ![t] = "query"] /\ used' = used
        BY <2>3 DEF StartPool
      <3>3. QED BY <2>1, <2>2, <3>1, <3>2
    <2>4. CASE FindFirst(t)
      <3>1. pc[t] = "query" /\ lookup' = lookup /\ \A k \in {1, 2} : lookup[t][k] = Idle
        BY <1>0, <2>4 DEF FindFirst
      <3>2. \/ \E info \in poolRows[PoolOf(t)] : Ends(t, info)
            \/ pc' = [pc EXCEPT ![t] = "object"] /\ used' = used
        BY <2>4 DEF FindFirst
      <3>3. \A info \in poolRows[PoolOf(t)] : info # NoInfo
        BY <1>t, <2>0, InfoThere DEF PoolsTraced
      <3>4. QED BY <2>1, <2>2, <3>1, <3>2, <3>3
    <2>5. CASE StartToken(t)
      <3>1. pc[t] = "start" /\ used' = used /\ \A k \in {1, 2} : lookup[t][k] = Idle
        BY <1>0, <2>5 DEF StartToken
      <3>2. \/ pc' = [pc EXCEPT ![t] = "object"] /\ lookup' = lookup
            \/ pc' = [pc EXCEPT ![t] = "looking"]
        BY <2>5 DEF StartToken, Ask
      <3>3. QED BY <2>2, <3>1, <3>2
    <2>6. CASE GetObject(t) \/ GetObjectThrows(t)
      <3>1. pc[t] = "object" /\ used' = used
        BY <2>6 DEF GetObject, GetObjectThrows
      <3>2. \/ pc' = [pc EXCEPT ![t] = "looking"]
            \/ pc' = [pc EXCEPT ![t] = "dropped"]
        BY <2>6 DEF GetObject, GetObjectThrows, Ask
      <3>3. QED BY <2>2, <3>1, <3>2
    <2>7. CASE Settle(t)
      <3>1. Info(t) # NoInfo /\ Normalized(Info(t)) # NoInfo
        BY <2>7, SettledInfo, InfoThere DEF Settle
      <3>2. \A k \in {1, 2} : lookup'[t][k] = Idle
        BY <1>f, <2>7 DEF Settle
      <3>3. Ends(t, Info(t)) \/ Ends(t, Normalized(Info(t)))
        BY <2>7 DEF Settle
      <3>4. QED BY <2>1, <3>1, <3>2, <3>3
    <2>8. QED BY <1>2, <2>3, <2>4, <2>5, <2>6, <2>7 DEF TaskStep
  <1>3. ASSUME NEW t \in Task, NEW k \in {1, 2}, AnswerStep(t, k) PROVE TasksEnded'
    <2>1. /\ \A u \in Task \ {t} : lookup'[u] = lookup[u]
          /\ lookup[t][k][1] = "asking" /\ used' = used
          /\ pc' = pc \/ pc' = [pc EXCEPT ![t] = "dropped"]
      BY <1>3, AnswerGoes DEF LookupGoes
    <2>2. lookup[t][k] # Idle
      BY <2>1 DEF Idle
    <2>3. pc[t] \in {"looking", "dropped"} /\ used[t] = NoInfo
      BY <1>0, <2>2
    <2>4. Ended1(t)
      BY <1>f, <2>1, <2>3
    <2> HIDE DEF Ended1
    <2>5. QED BY <1>1, <2>1, <2>4
  <1>4. ASSUME NEW s \in Service, Restart(s) PROVE TasksEnded'
    <2>1. ASSUME NEW t \in Task PROVE Ended1(t)
      <3>1. CASE ServiceOf(t) = s
        <4>1. pc'[t] = "start" /\ lookup'[t] = [k \in {1, 2} |-> Idle] /\ used'[t] = NoInfo
          BY <1>4, <3>1 DEF Restart
        <4>2. QED BY <4>1
      <3>2. CASE ServiceOf(t) # s
        <4>1. pc'[t] = pc[t] /\ lookup'[t] = lookup[t] /\ used'[t] = used[t]
          BY <1>4, <3>2 DEF Restart
        <4>2. QED BY <1>0, <4>1
      <3>3. QED BY <3>1, <3>2
    <2> HIDE DEF Ended1
    <2>2. QED BY <1>0, <2>1
  <1>5. CASE UNCHANGED <<pc, used, lookup>>
    BY <1>5 DEF TasksEnded
  <1>6. QED BY <1>2, <1>3, <1>4, <1>5
           DEF CacheNext, Prepare, StorePool, StoreToken, cacheVars

\* So everything is kept together.
LEMMA CacheStrongInit == CacheInit => CacheStrong
  <1> SUFFICES ASSUME CacheInit PROVE CacheStrong
    OBVIOUS
  <1>1. CacheInv /\ AtPool
    BY CacheInitInv DEF CacheInit, AtPool
  <1>2. LookupsTyped /\ TasksEnded
    BY DEF CacheInit, LookupsTyped, TasksEnded, LookupType
  <1>3. CacheCounted
    BY CacheAssumption DEF CacheInit, CacheCounted
  <1>4. QED BY <1>1, <1>2, <1>3 DEF CacheStrong

LEMMA CacheStrongStep == CacheStrong /\ [CacheNext]_cacheVars => CacheStrong'
  BY CacheStep, AtPoolStep, LookupsStep, TasksStep, CacheCountedStep DEF CacheStrong

\* Whatever the chain, the caches and the tables tell, and whenever: state of its type.
LEMMA CacheTypes == CacheStrong => CacheTypeOK
  <1> SUFFICES ASSUME CacheStrong PROVE CacheTypeOK
    OBVIOUS
  <1>1. CacheTyped /\ PoolsTraced /\ LookupsTyped /\ TasksEnded /\ CacheCounted
    BY DEF CacheStrong, CacheInv
  <1>2. \A p \in Pool : poolRows[p] \subseteq InfoType \ {NoInfo}
    <2>1. ASSUME NEW p \in Pool, NEW info \in poolRows[p]
          PROVE  info \in InfoType /\ info # NoInfo
      BY <1>1, InfoTyped, InfoThere DEF PoolsTraced
    <2>2. QED BY <2>1
  <1>3. tokenWrites \subseteq Service \X Token \X (Nat \ {Unknown})
    BY <1>1 DEF CacheTyped, CacheCounted
  <1>4. lookup \in [Task -> [{1, 2} -> {Idle, Failed} \cup ({"asking", "known"} \X Nat)]]
    <2>1. \A t \in Task : lookup[t] \in [{1, 2} -> LookupType]
      BY <1>1 DEF CacheTyped, LookupsTyped
    <2>2. lookup \in [Task -> [{1, 2} -> LookupType]]
      BY <1>1, <2>1 DEF CacheTyped
    <2>3. QED BY <2>2 DEF LookupType
  <1>5. \A t \in Task : used[t] \in InfoType /\ (pc[t] = "done" <=> used[t] # NoInfo)
    BY <1>1 DEF CacheTyped, TasksEnded
  <1>6. QED BY <1>1, <1>2, <1>3, <1>4, <1>5 DEF CacheTyped, CacheCounted, TaskPlace, CacheTypeOK

(***************************************************************************)
(* Type correctness of the caches: a task has worked with an info if and   *)
(* only if it is done, a row of a pool is never the lack of one, and no    *)
(* token is stored without decimals.                                       *)
(***************************************************************************)
THEOREM CacheTypeCorrect == CacheSpec => []CacheTypeOK
  <1>1. QED BY CacheStrongInit, CacheStrongStep, CacheTypes, PTL DEF CacheSpec

-----------------------------------------------------------------------------
\* The trade from the token at a place of the pool to the other one.
TradeFrom(from, s, info) ==
  [from |-> info.token[from], to |-> info.token[3 - from],
   in   |-> <<Paid(s), info.decimals[from]>>, out |-> <<Received(s), info.decimals[3 - from]>>]

\* The adapters take the token paid for the first of the trade, whatever their
\* events look like, Kriya's turned trades aside.
LEMMA AdaptedFrom ==
  ASSUME NEW s \in Swap, NEW those, NEW info,
         InfoOf(those, TokensOf(s), info, s.protocol \in PoolProtocol)
  PROVE  Adapted(s, info) = TradeFrom(IF Turnable(s) THEN Received(s) ELSE Paid(s), s, info)
  <1>1. /\ s.protocol \in Protocol /\ s.aToB \in BOOLEAN /\ s.pool \in Pool
        /\ Paid(s) = (IF s.aToB THEN 1 ELSE 2) /\ Received(s) = (IF s.aToB THEN 2 ELSE 1)
    BY DEF Swap, Paid, Received
  <1>2. CASE s.protocol = "Kriya"
    <2>1. /\ Adapted(s, info) = Kriya(s, info)
          /\ Kriya(s, info) = Directed(KriyaFromA(s, info), Paid(s), Received(s), info)
      BY <1>2 DEF Adapted, Kriya, AmountIn, AmountOut
    <2>2. info.token[1] = <<Tokens[s.pool][1], FALSE>>
      BY <1>2 DEF InfoOf, PoolProtocol, TokensOf
    <2>3. Tokens[s.pool][1] # Tokens[s.pool][2]
      BY <1>1, AdapterAssumption
    <2>4. KriyaFromA(s, info) <=> s.aToB /\ Tokens[s.pool][1] \notin Padded
      <3>1. KriyaFromA(s, info) <=>
              Spelled(Tokens[s.pool][Paid(s)]) = <<Tokens[s.pool][1], FALSE>>
        BY <2>2 DEF KriyaFromA, TypeWrapped
      <3>2. KriyaFromA(s, info) <=> /\ Tokens[s.pool][Paid(s)] = Tokens[s.pool][1]
                                    /\ Tokens[s.pool][Paid(s)] \notin Padded
        BY <3>1, SpelledPlain
      <3>3. QED BY <1>1, <2>3, <3>2
    <2>5. Turnable(s) <=> s.aToB /\ Tokens[s.pool][1] \in Padded
      BY <1>2 DEF Turnable
    <2>6. QED BY <1>1, <2>1, <2>4, <2>5 DEF Directed, TradeFrom
  <1>3. CASE s.protocol # "Kriya"
    <2>1. ~Turnable(s)
      BY <1>3 DEF Turnable
    <2>2. CASE s.protocol \in {"Cetus", "SuiSwap"}
      BY <1>1, <2>1, <2>2 DEF Adapted, Cetus, SuiSwap, AmountIn, AmountOut, Directed, TradeFrom
    <2>3. CASE s.protocol \in {"Turbos", "FlowXV3"}
      BY <1>1, <2>1, <2>3 DEF Adapted, Turbos, FlowXV3, Directed, TradeFrom
    <2>4. CASE s.protocol \in {"FlowXV2", "BlueMove"}
      BY <1>1, <2>1, <2>4 DEF Adapted, FlowXV2, BlueMove, AmountXIn, AmountYIn, AmountXOut,
                               AmountYOut, None, Directed, TradeFrom
    <2>5. CASE s.protocol \in {"Aftermath", "AftermathV2"}
      BY <1>1, <2>1, <2>5 DEF Adapted, Aftermath, AftermathV2, InOrder, AmountIn, AmountOut,
                               Directed, TradeFrom
    <2>6. QED BY <1>1, <1>3, <2>2, <2>3, <2>4, <2>5 DEF Protocol, PoolProtocol, TokenProtocol
  <1>4. QED BY <1>2, <1>3

(***************************************************************************)
(* The trade that a handler of the swap process saves names the token that *)
(* was paid and the one received, with the amount of each and the decimals *)
(* that the info of its pool has for it; but for Kriya's turned trades,    *)
(* and the tokens that flowX.ts does not know (the protocols of swap/src). *)
(***************************************************************************)
THEOREM TradesSafe == CacheSpec => []TradesMirrorSwaps
  <1>1. CacheInv => TradesMirrorSwaps
    <2> SUFFICES ASSUME CacheInv, NEW t \in Task, used[t] # NoInfo
                 PROVE  Mirrors(Trade(SwapOf(t), used[t]), SwapOf(t), used[t])
      BY DEF TradesMirrorSwaps
    <2> DEFINE s    == SwapOf(t)
               info == used[t]
               from == IF Turnable(s) THEN Received(s) ELSE Paid(s)
    <2>1. s \in Swap
      BY TaskTypes DEF CacheInv, CacheTyped
    <2>2. InfoOf(guessed, TokensOf(s), info, s.protocol \in PoolProtocol)
      BY DEF CacheInv, UsedTraced, HasPool
    <2> HIDE DEF s, info
    <2>3. Adapted(s, info) = TradeFrom(from, s, info)
      BY <2>1, <2>2, AdaptedFrom
    <2>4. from \in {1, 2} /\ 3 - from \in {1, 2}
      BY <2>1 DEF Swap, Paid, Received
    <2> HIDE DEF from
    <2>5. \A k \in {1, 2} :
             NormalizedTokenAddress(info.token[k]) = <<TokensOf(s)[k], FALSE>>
      BY <2>2 DEF InfoOf, NormalizedTokenAddress, Spelled
    <2>6. \A k \in {1, 2} : Names(<<TokensOf(s)[k], FALSE>>, s, k)
      BY DEF TokensOf, Names
    <2>7. MirrorsFrom(from, Trade(s, info), s, info)
      <3> DEFINE trade == TradeFrom(from, s, info)
      <3>1. /\ Names(NormalizedTokenAddress(trade.from), s, from)
            /\ Names(NormalizedTokenAddress(trade.to), s, 3 - from)
            /\ trade.in = <<Paid(s), info.decimals[from]>>
            /\ trade.out = <<Received(s), info.decimals[3 - from]>>
            /\ DOMAIN trade = {"from", "to", "in", "out"}
        BY <2>4, <2>5, <2>6 DEF TradeFrom
      <3>2. Trade(s, info) = [trade EXCEPT !.from = NormalizedTokenAddress(@),
                                           !.to = NormalizedTokenAddress(@)]
        BY <2>3 DEF Trade
      <3> HIDE DEF trade
      <3>3. QED BY <3>1, <3>2 DEF MirrorsFrom
    <2>8. Mirrors(Trade(s, info), s, info)
      BY <2>7 DEF Mirrors, from
    <2>9. QED BY <2>8 DEF s, info
  <1>2. QED BY <1>1, CacheAlways, PTL


-----------------------------------------------------------------------------
(***************************************************************************)
(* The server of defi.                                                     *)
(*                                                                         *)
(* The invariant is how long a read may have been behind: by the time its  *)
(* request has taken, if it was read from the chain; by that of its        *)
(* request, of one whose EXPIRE came late and by the life of the entry, if *)
(* it was found in Redis.                                                  *)
(***************************************************************************)
Steps == {"get", "page1", "page2", "set", "expire", "end", "failed"}

Stages == {"idle", "context", "looked", "answered", "refused", "dead"}

FetchRecord ==
  [at : Steps, shows : SUBSET PlacesOf(kind), orphan : BOOLEAN]

AnswerRecord ==
  [shown : SUBSET Guises(kind), why : {"none", "context", "call", "idle"}]

EntryRecord == [shows : SUBSET PlacesOf(kind), ttl : 0 .. Unlimited, orphan : BOOLEAN]

PositionTyped ==
  /\ kind \in HoldingKinds
  /\ place \in PlacesOf(kind) \cup {"gone"} /\ page \in Pages
  /\ still \in Nat /\ still <= LongAgo
  /\ redis \in EntryRecord
  /\ stage \in [Request -> Stages]
  /\ spent \in [Request -> 0 .. FetchTime]
  /\ fetch \in [Request -> FetchRecord]
  /\ answer \in [Request -> AnswerRecord]

\* What is shown is not where the holding is now.
Stale(shows) == shows # Seen(List)

\* A read of the chain is right but for what moved since the request began.
ChainKept(r) ==
  /\ stage[r] = "idle" => fetch[r] = NoFetch
  /\ At(r) \in {"get", "page1"} => fetch[r].shows = {}
  /\ At(r) = "page2" => /\ List = "obj"
                        /\ still > spent[r] => fetch[r].shows = IF page = "page1" THEN Seen(List) ELSE {}
  /\ At(r) \in {"set", "expire"} /\ Stale(fetch[r].shows) => still <= spent[r]

\* What a request found may have been behind for as long as an entry may be.
FoundKept(r) ==
  stage[r] = "context" /\ At(r) = "end" /\ ~fetch[r].orphan /\ Stale(fetch[r].shows) =>
    still < Ttl + 2 * FetchTime + spent[r]

\* What is shown is where the holding is, and no more than that to no avail.
TrulyShown(shown) ==
  /\ shown \ {"empty"} = {place} \cap Place
  /\ "empty" \in shown => ShowsEmpty(kind, place)

\* So may its answer.
AnswerKept(r) ==
  stage[r] = "looked" =>
    \/ answer[r].why = "call"
    \/ answer[r].why = "idle" /\ kind = "KrPool"
    \/ fetch[r].orphan
    \/ TrulyShown(answer[r].shown)
    \/ still < Ttl + 2 * FetchTime + spent[r]

\* A request looks for positions with its list at hand.
FetchAhead(r) == stage[r] = "looked" => HasList(r)

RequestKept(r) == ChainKept(r) /\ FoundKept(r) /\ AnswerKept(r) /\ FetchAhead(r)

\* An entry that will go is not behind for longer than its life, after the
\* last EXPIRE of those who may still send one.
EntryKept ==
  /\ redis.ttl = 0 => redis = NoEntry
  /\ redis.orphan => redis.ttl = Unlimited /\ \A r \in Request : At(r) # "expire"
  /\ ~redis.orphan /\ redis.ttl = Unlimited =>
       \E r \in Request : At(r) = "expire" /\ (Stale(redis.shows) => still <= spent[r])
  /\ redis.ttl \in 1 .. Ttl /\ Stale(redis.shows) => still + redis.ttl <= Ttl + 2 * FetchTime
  /\ \A r \in Request : At(r) = "expire" /\ redis.ttl # 0 /\ Stale(redis.shows) =>
       still <= FetchTime + spent[r]

PositionInv == PositionTyped /\ (\A r \in Request : RequestKept(r)) /\ EntryKept

-----------------------------------------------------------------------------
\* Where a list is read from, one pair of a kind and a place after the other.
LEMMA ReadPlaces ==
  ASSUME NEW k \in HoldingKind, NEW p \in Place
  PROVE  /\ (k = "AmPool" \/ k = "ScCoin") /\ p = "wallet" => ReadFrom(k, p) = "holding"
         /\ (k = "CePool" \/ k = "CeVe" \/ k = "ScVe") /\ p = "staked" => ReadFrom(k, p) = "obj"
         /\ k = "KrPool" => ReadFrom(k, p) = "obj"
         /\ ReadFrom(k, p) = "holding" => (k = "AmPool" \/ k = "ScCoin") /\ p = "wallet"
         /\ ReadFrom(k, p) \in {"holding", "obj", "call"}
<1> DEFINE pair == <<k, p>>
           holding == {<<"AmPool", "wallet">>, <<"ScCoin", "wallet">>}
           obj == {<<"CePool", "staked">>, <<"CeVe", "staked">>, <<"ScVe", "staked">>,
                   <<"KrPool", "wallet">>, <<"KrPool", "staked">>}
<1>1. pair \in holding <=> (k = "AmPool" \/ k = "ScCoin") /\ p = "wallet"
  OBVIOUS
<1>2. pair \in obj <=> \/ (k = "CePool" \/ k = "CeVe" \/ k = "ScVe") /\ p = "staked"
                       \/ k = "KrPool"
  BY DEF Place
<1>3. ReadFrom(k, p) = CASE pair \in holding -> "holding" [] pair \in obj -> "obj" [] OTHER -> "call"
  BY DEF ReadFrom
<1> HIDE DEF pair, holding, obj
<1>4. ~(pair \in holding /\ pair \in obj)
  BY <1>1, <1>2
<1> QED
  BY <1>1, <1>2, <1>3, <1>4

\* The list that is followed shows the holding wherever a call does not.
LEMMA ListShows ==
  ASSUME kind \in HoldingKind
  PROVE  /\ List \in {"obj", "holding"}
         /\ \A p \in PlacesOf(kind) : p \in Place /\ ReadFrom(kind, p) \in {List, "call"}
<1>1. \A p \in PlacesOf(kind) : p \in Place
  BY DEF PlacesOf, Place
<1>2. List = "obj" <=> \E p \in Place : ReadFrom(kind, p) = "obj"
  BY DEF List
<1>3. List \in {"obj", "holding"} /\ (List # "obj" => List = "holding")
  BY DEF List
<1>4. ASSUME NEW p \in PlacesOf(kind), ReadFrom(kind, p) = "holding"
      PROVE  List # "obj"
  <2>1. kind = "AmPool" \/ kind = "ScCoin"
    BY <1>1, <1>4, ReadPlaces
  <2>2. \A q \in Place : ReadFrom(kind, q) # "obj"
    BY <2>1 DEF Place, ReadFrom
  <2> QED
    BY <1>2, <2>2
<1>5. \A p \in PlacesOf(kind) : ReadFrom(kind, p) = "obj" => List = "obj"
  BY <1>1, <1>2
<1> QED
  BY <1>1, <1>3, <1>4, <1>5, ReadPlaces

\* So a list that is not stale, and the calls, are the truth.
LEMMA TruthShown ==
  ASSUME kind \in HoldingKind, place \in PlacesOf(kind) \cup {"gone"}
  PROVE  /\ TrulyShown(Seen(List) \cup Called)
         /\ Seen(List) \subseteq PlacesOf(kind) /\ Called \subseteq Guises(kind)
<1>1. \A p \in PlacesOf(kind) : p \in Place /\ ReadFrom(kind, p) \in {List, "call"}
  BY ListShows
<1>2. "gone" \notin Place /\ "empty" \notin Place
  BY DEF Place
<1>3. Seen(List) \cup Seen("call") = {place} \cap Place
  BY <1>1, <1>2 DEF Seen
<1>4. Seen(List) \subseteq PlacesOf(kind) /\ Seen("call") \subseteq PlacesOf(kind)
  BY <1>1, <1>2 DEF Seen
<1>5. TrulyShown(Seen(List) \cup Called)
  BY <1>2, <1>3 DEF TrulyShown, Called
<1>6. Called \subseteq Guises(kind)
  BY <1>4 DEF Called, Guises, ShowsEmpty
<1> QED
  BY <1>4, <1>5, <1>6

\* At the start nobody has asked, and the holding has long been where it is.
LEMMA PositionInvInit == PositionInit => PositionInv
<1> SUFFICES ASSUME PositionInit
             PROVE  PositionInv
  OBVIOUS
<1>1. \A r \in Request : fetch[r] = NoFetch /\ stage[r] = "idle" /\ At(r) = "end"
  BY DEF PositionInit, At, NoFetch
<1>2. \A r \in Request : RequestKept(r)
  BY <1>1 DEF RequestKept, ChainKept, FoundKept, AnswerKept, FetchAhead
<1>3. redis = NoEntry /\ redis.ttl = 0 /\ redis.orphan = FALSE /\ Unlimited > 0 /\ 0 \in 0 .. Unlimited
  BY PositionAssumption DEF PositionInit, NoEntry, Unlimited
<1>4. EntryKept
  BY <1>1, <1>3, PositionAssumption DEF EntryKept
<1>5. PositionTyped
  <2>1. redis \in EntryRecord
    BY <1>3 DEF NoEntry, EntryRecord
  <2>2. NoFetch \in FetchRecord /\ NoAnswer \in AnswerRecord
    BY DEF NoFetch, NoAnswer, FetchRecord, AnswerRecord, Steps
  <2>3. still \in Nat /\ still <= LongAgo
    BY PositionAssumption DEF PositionInit, LongAgo
  <2>4. 0 \in 0 .. FetchTime
    BY PositionAssumption
  <2> QED
    BY <2>1, <2>2, <2>3, <2>4 DEF PositionTyped, PositionInit, Stages
<1> QED
  BY <1>2, <1>4, <1>5 DEF PositionInv

-----------------------------------------------------------------------------
\* A step of one request keeps what is known of the others.
LEMMA OthersKept ==
  ASSUME PositionInv, NEW r \in Request, UNCHANGED holdingVars,
         \A q \in Request \ {r} : /\ fetch'[q] = fetch[q] /\ stage'[q] = stage[q]
                                  /\ spent'[q] = spent[q] /\ answer'[q] = answer[q],
         RequestKept(r)'
  PROVE  \A q \in Request : RequestKept(q)'
<1>1. /\ kind' = kind /\ place' = place /\ page' = page /\ still' = still
      /\ List' = List /\ Seen(List)' = Seen(List)
  BY DEF holdingVars, List, Seen
<1>2. ASSUME NEW q \in Request \ {r}
      PROVE  RequestKept(q)'
  <2>1. /\ fetch'[q] = fetch[q] /\ stage'[q] = stage[q] /\ spent'[q] = spent[q] /\ answer'[q] = answer[q]
        /\ RequestKept(q)
    BY DEF PositionInv
  <2>2. ChainKept(q)'
    BY <1>1, <2>1 DEF RequestKept, ChainKept, At, Stale, NoFetch
  <2>3. FoundKept(q)' /\ AnswerKept(q)' /\ FetchAhead(q)'
    BY <1>1, <2>1 DEF RequestKept, FoundKept, AnswerKept, TrulyShown, FetchAhead, HasList, At, Stale
  <2> QED
    BY <2>2, <2>3 DEF RequestKept
<1> QED
  BY <1>2

\* A step that does not touch the entry, nor who may still send an EXPIRE.
LEMMA EntrySame ==
  ASSUME PositionInv, UNCHANGED holdingVars, redis' = redis, spent' = spent,
         \A q \in Request : (At(q) = "expire")' <=> At(q) = "expire"
  PROVE  EntryKept'
<1>1. Seen(List)' = Seen(List) /\ still' = still
  BY DEF holdingVars, List, Seen
<1>2. \A shows : Stale(shows)' <=> Stale(shows)
  BY <1>1 DEF Stale
<1>3. EntryKept
  BY DEF PositionInv
<1> QED
  BY <1>1, <1>2, <1>3 DEF EntryKept

\* The times of requests.
LEMMA SpentBounds ==
  ASSUME PositionInv
  PROVE  /\ \A r \in Request : spent[r] \in Nat /\ spent[r] <= FetchTime
         /\ still \in Nat /\ Ttl \in Nat \ {0} /\ FetchTime \in Nat \ {0}
         /\ kind \in HoldingKind /\ redis.ttl \in Nat /\ redis.ttl <= Ttl + 1
BY PositionAssumption DEF PositionInv, PositionTyped, EntryRecord, Unlimited

\* The types when the holding stays.
LEMMA TypedStep ==
  ASSUME PositionTyped, UNCHANGED holdingVars, redis' \in EntryRecord,
         stage' \in [Request -> Stages], spent' \in [Request -> 0 .. FetchTime],
         fetch' \in [Request -> FetchRecord], answer' \in [Request -> AnswerRecord]
  PROVE  PositionTyped'
<1>1. /\ kind' = kind /\ place' = place /\ page' = page /\ still' = still
      /\ EntryRecord' = EntryRecord /\ FetchRecord' = FetchRecord /\ AnswerRecord' = AnswerRecord
      /\ Pages' = Pages
  BY DEF holdingVars, EntryRecord, FetchRecord, AnswerRecord, Pages, List
<1> QED
  BY <1>1 DEF PositionTyped

\* A read goes to its next step.
LEMMA GoesTyped ==
  ASSUME PositionTyped, NEW r \in Request, NEW at \in Steps, Goes(r, at)
  PROVE  /\ fetch' \in [Request -> FetchRecord]
         /\ fetch'[r].at = at /\ fetch'[r].shows = fetch[r].shows
         /\ fetch'[r].orphan = fetch[r].orphan
         /\ \A q \in Request \ {r} : fetch'[q] = fetch[q]
<1>1. /\ fetch \in [Request -> FetchRecord] /\ fetch[r] \in FetchRecord
      /\ fetch' = [fetch EXCEPT ![r] = [fetch[r] EXCEPT !.at = at]]
  BY DEF PositionTyped, Goes
<1> DEFINE new == [fetch[r] EXCEPT !.at = at]
<1>2. /\ new \in FetchRecord /\ new.at = at /\ new.shows = fetch[r].shows
      /\ new.orphan = fetch[r].orphan
  BY <1>1 DEF FetchRecord
<1> HIDE DEF new
<1> QED
  BY <1>1, <1>2 DEF new

\* A request begins.
LEMMA AskStep ==
  ASSUME PositionInv, NEW r \in Request, AskPositions(r)
  PROVE  PositionInv'
<1>1. /\ stage[r] = "idle" /\ fetch[r] = NoFetch
      /\ UNCHANGED <<holdingVars, redis, answer>>
      /\ stage' = [stage EXCEPT ![r] = "context"] /\ spent' = [spent EXCEPT ![r] = 0]
      /\ fetch' = [fetch EXCEPT ![r].at = "get"]
  BY DEF AskPositions, Goes, PositionInv, RequestKept, ChainKept
<1>2. /\ fetch'[r].at = "get" /\ fetch'[r].shows = {} /\ stage'[r] = "context"
      /\ \A q \in Request \ {r} : fetch'[q] = fetch[q] /\ stage'[q] = stage[q] /\ spent'[q] = spent[q]
  BY <1>1 DEF PositionInv, PositionTyped, NoFetch
<1>3. RequestKept(r)'
  BY <1>2 DEF RequestKept, ChainKept, FoundKept, AnswerKept, FetchAhead, At
<1>4. \A q \in Request : RequestKept(q)'
  BY <1>1, <1>2, <1>3, OthersKept
<1>5. EntryKept'
  <2>1. Seen(List)' = Seen(List) /\ still' = still /\ redis' = redis
    BY <1>1 DEF holdingVars, List, Seen
  <2>2. At(r) # "expire" /\ fetch'[r].at # "expire"
    BY <1>1, <1>2 DEF At, NoFetch
  <2>3. \A q \in Request : /\ (At(q) = "expire")' <=> At(q) = "expire"
                           /\ At(q) = "expire" => spent'[q] = spent[q]
    BY <1>2, <2>2 DEF At
  <2> QED
    BY <2>1, <2>3 DEF PositionInv, EntryKept, Stale, NoEntry, Unlimited
<1>6. PositionTyped'
  <2>1. PositionTyped /\ "get" \in Steps /\ Goes(r, "get") /\ 0 \in 0 .. FetchTime
    BY PositionAssumption DEF PositionInv, Steps, AskPositions
  <2>2. fetch' \in [Request -> FetchRecord]
    BY <2>1, GoesTyped
  <2>3. stage' \in [Request -> Stages] /\ spent' \in [Request -> 0 .. FetchTime]
    BY <1>1, <2>1 DEF PositionTyped, Stages
  <2>4. redis' \in EntryRecord /\ answer' \in [Request -> AnswerRecord]
    BY <1>1, <2>1 DEF PositionTyped
  <2> QED
    BY <1>1, <2>1, <2>2, <2>3, <2>4, TypedStep
<1> QED
  BY <1>4, <1>5, <1>6 DEF PositionInv

\* A step of one request that leaves the entry alone.
LEMMA RequestAlone ==
  ASSUME PositionInv, NEW r \in Request, UNCHANGED <<holdingVars, redis, spent>>,
         fetch' \in [Request -> FetchRecord], stage' \in [Request -> Stages],
         answer' \in [Request -> AnswerRecord],
         \A q \in Request \ {r} : /\ fetch'[q] = fetch[q] /\ stage'[q] = stage[q]
                                  /\ answer'[q] = answer[q],
         fetch'[r].at = "expire" <=> fetch[r].at = "expire",
         RequestKept(r)'
  PROVE  PositionInv'
<1>1. \A q \in Request : RequestKept(q)'
  BY OthersKept
<1>2. EntryKept'
  <2>1. \A q \in Request : (At(q) = "expire")' <=> At(q) = "expire"
    BY DEF At
  <2> QED
    BY <2>1, EntrySame
<1>3. PositionTyped'
  BY TypedStep DEF PositionInv, PositionTyped
<1> QED
  BY <1>1, <1>2, <1>3 DEF PositionInv

\* What an entry that is found was behind at most.
LEMMA FoundBound ==
  ASSUME PositionInv, redis # NoEntry, ~redis.orphan, Stale(redis.shows)
  PROVE  still < Ttl + 2 * FetchTime
<1>1. redis.ttl # 0 /\ redis.ttl \in Nat /\ redis.ttl <= Ttl + 1
      /\ still \in Nat /\ Ttl \in Nat \ {0} /\ FetchTime \in Nat \ {0}
  BY SpentBounds DEF PositionInv, EntryKept
<1>2. CASE redis.ttl = Unlimited
  <2>1. PICK r \in Request : still <= spent[r]
    BY <1>2 DEF PositionInv, EntryKept
  <2> QED
    BY <1>1, <2>1, SpentBounds
<1>3. CASE redis.ttl # Unlimited
  <2>1. redis.ttl \in 1 .. Ttl
    BY <1>1, <1>3 DEF Unlimited
  <2>2. still + redis.ttl <= Ttl + 2 * FetchTime
    BY <2>1 DEF PositionInv, EntryKept
  <2> QED
    BY <1>1, <2>2
<1> QED
  BY <1>2, <1>3

\* The entry is found, or is not.
LEMMA GetStep ==
  ASSUME PositionInv, NEW r \in Request, GetCache(r)
  PROVE  PositionInv'
<1>1. /\ At(r) = "get" /\ UNCHANGED <<holdingVars, redis, stage, spent, answer>>
      /\ stage[r] # "idle" /\ PositionTyped /\ fetch[r].shows = {}
  BY DEF GetCache, PositionInv, RequestKept, ChainKept, NoFetch, At
<1>2. Seen(List)' = Seen(List) /\ still' = still /\ kind' = kind
  BY <1>1 DEF holdingVars, List, Seen
<1>3. /\ stage' \in [Request -> Stages] /\ answer' \in [Request -> AnswerRecord]
      /\ \A q \in Request \ {r} : stage'[q] = stage[q] /\ answer'[q] = answer[q]
      /\ stage'[r] = stage[r] /\ answer'[r] = answer[r] /\ spent'[r] = spent[r]
  BY <1>1 DEF PositionTyped
<1>4. CASE redis # NoEntry
  <2> DEFINE found == [at |-> "end", shows |-> redis.shows, orphan |-> redis.orphan]
  <2>1. fetch' = [fetch EXCEPT ![r] = found]
    BY <1>4 DEF GetCache
  <2>2. found \in FetchRecord /\ found.at = "end" /\ found.shows = redis.shows
        /\ found.orphan = redis.orphan
    BY <1>1 DEF PositionTyped, EntryRecord, FetchRecord, Steps
  <2> HIDE DEF found
  <2>3. /\ fetch' \in [Request -> FetchRecord] /\ fetch'[r] = found
        /\ \A q \in Request \ {r} : fetch'[q] = fetch[q]
    BY <1>1, <2>1, <2>2 DEF PositionTyped
  <2>4. ChainKept(r)'
    BY <1>1, <1>3, <2>2, <2>3 DEF ChainKept, At
  <2>5. FoundKept(r)'
    <3>1. ~redis.orphan /\ Stale(redis.shows) => still < Ttl + 2 * FetchTime + spent[r]
      BY <1>4, FoundBound, SpentBounds
    <3> QED
      BY <1>2, <1>3, <2>2, <2>3, <3>1 DEF FoundKept, Stale
  <2>6. AnswerKept(r)' /\ FetchAhead(r)'
    <3>1. stage[r] # "looked"
      BY <1>1 DEF PositionInv, RequestKept, FetchAhead, HasList
    <3> QED
      BY <1>3, <3>1 DEF AnswerKept, FetchAhead
  <2> QED
    BY <1>1, <1>3, <2>2, <2>3, <2>4, <2>5, <2>6, RequestAlone DEF RequestKept, At
<1>5. CASE redis = NoEntry
  <2>1. Goes(r, "page1") /\ "page1" \in Steps
    BY <1>5 DEF GetCache, Steps
  <2>2. /\ fetch' \in [Request -> FetchRecord]
        /\ fetch'[r].at = "page1" /\ fetch'[r].shows = {}
        /\ \A q \in Request \ {r} : fetch'[q] = fetch[q]
    BY <1>1, <2>1, GoesTyped
  <2>3. ChainKept(r)' /\ FoundKept(r)'
    BY <1>1, <1>3, <2>2 DEF ChainKept, FoundKept, At
  <2>4. AnswerKept(r)' /\ FetchAhead(r)'
    <3>1. stage[r] # "looked"
      BY <1>1 DEF PositionInv, RequestKept, FetchAhead, HasList
    <3> QED
      BY <1>3, <3>1 DEF AnswerKept, FetchAhead
  <2> QED
    BY <1>1, <1>3, <2>2, <2>3, <2>4, RequestAlone DEF RequestKept, At
<1> QED
  BY <1>4, <1>5

\* A page of the list is read.
LEMMA PageOfList ==
  ASSUME PositionInv, NEW r \in Request, ReadPage(r)
  PROVE  PositionInv'
<1>1. /\ At(r) \in {"page1", "page2"} /\ UNCHANGED <<holdingVars, redis, stage, spent, answer>>
      /\ stage[r] # "idle" /\ stage[r] # "looked" /\ PositionTyped
      /\ fetch[r] \in FetchRecord
  BY DEF ReadPage, PositionInv, RequestKept, ChainKept, FetchAhead, HasList, NoFetch, At, PositionTyped
<1>2. Seen(List)' = Seen(List) /\ still' = still /\ kind' = kind /\ List' = List /\ page' = page
  BY <1>1 DEF holdingVars, List, Seen
<1>3. /\ stage' \in [Request -> Stages] /\ answer' \in [Request -> AnswerRecord]
      /\ \A q \in Request \ {r} : stage'[q] = stage[q] /\ answer'[q] = answer[q]
      /\ stage'[r] = stage[r] /\ answer'[r] = answer[r] /\ spent'[r] = spent[r]
  BY <1>1 DEF PositionTyped
<1> DEFINE next == IF At(r) = "page1" /\ "page2" \in Pages THEN "page2" ELSE "set"
           new  == [fetch[r] EXCEPT !.at = next, !.shows = @ \cup OnPage(r)]
<1>4. fetch' = [fetch EXCEPT ![r] = new]
  BY DEF ReadPage, At
<1>5. OnPage(r) \subseteq PlacesOf(kind)
  BY <1>1, TruthShown, SpentBounds DEF OnPage, PositionTyped
<1>6. next \in {"page2", "set"}
  OBVIOUS
<1> HIDE DEF next
<1>7. /\ new \in FetchRecord /\ new.at = next /\ new.shows = fetch[r].shows \cup OnPage(r)
  BY <1>1, <1>5, <1>6 DEF FetchRecord, Steps
<1> HIDE DEF new
<1>8. /\ fetch' \in [Request -> FetchRecord] /\ fetch'[r] = new
      /\ \A q \in Request \ {r} : fetch'[q] = fetch[q]
  BY <1>1, <1>4, <1>7 DEF PositionTyped
<1>9. ChainKept(r)'
  <2>1. page \in Pages /\ (List # "obj" => Pages = {"page1"}) /\ (List = "obj" => Pages = {"page1", "page2"})
    BY <1>1 DEF PositionTyped, Pages
  <2>2. CASE At(r) = "page1"
    <3>1. new.shows = IF page = "page1" THEN Seen(List) ELSE {}
      BY <1>7, <2>2 DEF PositionInv, RequestKept, ChainKept, OnPage
    <3>2. CASE List = "obj"
      <4>1. next = "page2"
        BY <2>1, <2>2, <3>2 DEF next
      <4> QED
        BY <1>1, <1>2, <1>3, <1>7, <1>8, <3>1, <3>2, <4>1 DEF ChainKept, At
    <3>3. CASE List # "obj"
      <4>1. next = "set" /\ page = "page1"
        BY <2>1, <2>2, <3>3 DEF next
      <4> QED
        BY <1>1, <1>2, <1>3, <1>7, <1>8, <3>1, <4>1 DEF ChainKept, At, Stale
    <3> QED
      BY <3>2, <3>3
  <2>3. CASE At(r) = "page2"
    <3>1. next = "set"
      BY <2>3 DEF next
    <3>2. List = "obj" /\ (still > spent[r] => fetch[r].shows = IF page = "page1" THEN Seen(List) ELSE {})
      BY <2>3 DEF PositionInv, RequestKept, ChainKept
    <3>3. still > spent[r] => new.shows = Seen(List)
      BY <1>7, <2>1, <2>3, <3>2 DEF OnPage
    <3>4. Stale(new.shows) => still <= spent[r]
      BY <3>3, SpentBounds DEF Stale
    <3> QED
      BY <1>1, <1>2, <1>3, <1>7, <1>8, <3>1, <3>4 DEF ChainKept, At, Stale
  <2> QED
    BY <1>1, <2>2, <2>3
<1>10. FoundKept(r)' /\ AnswerKept(r)' /\ FetchAhead(r)'
  BY <1>1, <1>3, <1>6, <1>7, <1>8 DEF FoundKept, AnswerKept, FetchAhead, At
<1> QED
  BY <1>1, <1>3, <1>6, <1>7, <1>8, <1>9, <1>10, RequestAlone DEF RequestKept, At

\* A read that goes on as it is, to the end or to nothing.
LEMMA ReadOn ==
  ASSUME PositionInv, NEW r \in Request, NEW at \in {"expire", "end", "failed"}, Goes(r, at),
         UNCHANGED <<holdingVars, stage, spent, answer>>,
         \/ at # "failed" /\ At(r) \in {"set", "expire"}
         \/ at = "failed" /\ At(r) \in {"get", "page1", "page2"}
  PROVE  /\ fetch' \in [Request -> FetchRecord] /\ fetch'[r].at = at
         /\ \A q \in Request \ {r} : fetch'[q] = fetch[q]
         /\ RequestKept(r)'
<1>1. /\ PositionTyped /\ at \in Steps /\ stage[r] # "idle" /\ fetch[r] # NoFetch
      /\ at = "failed" /\ At(r) \in {"get", "page1", "page2"} => stage[r] # "looked"
  BY DEF PositionInv, Steps, RequestKept, ChainKept, FetchAhead, HasList, NoFetch, At
<1>2. Seen(List)' = Seen(List) /\ still' = still /\ kind' = kind /\ List' = List /\ place' = place
  BY DEF holdingVars, List, Seen
<1>3. /\ fetch' \in [Request -> FetchRecord]
      /\ fetch'[r].at = at /\ fetch'[r].shows = fetch[r].shows
      /\ fetch'[r].orphan = fetch[r].orphan
      /\ \A q \in Request \ {r} : fetch'[q] = fetch[q]
  BY <1>1, GoesTyped
<1>4. ChainKept(r) /\ AnswerKept(r)
  BY DEF PositionInv, RequestKept
<1>5. ChainKept(r)'
  BY <1>1, <1>2, <1>3, <1>4 DEF ChainKept, At, Stale
<1>6. FoundKept(r)'
  <2>1. at = "end" /\ Stale(fetch[r].shows) => still <= spent[r]
    BY <1>4 DEF ChainKept, At
  <2> QED
    BY <1>2, <1>3, <2>1, SpentBounds DEF FoundKept, At, Stale
<1>7. AnswerKept(r)'
  BY <1>2, <1>3, <1>4 DEF AnswerKept, TrulyShown
<1>8. FetchAhead(r)'
  BY <1>1, <1>3 DEF FetchAhead, HasList, At
<1> QED
  BY <1>3, <1>5, <1>6, <1>7, <1>8 DEF RequestKept

\* SET: the entry is what the request has read.
LEMMA SetStep ==
  ASSUME PositionInv, NEW r \in Request, SetEntry(r)
  PROVE  PositionInv'
<1>1. /\ At(r) = "set" /\ Goes(r, "expire") /\ UNCHANGED <<holdingVars, stage, spent, answer>>
      /\ redis' = [shows |-> fetch[r].shows, ttl |-> Unlimited, orphan |-> FALSE]
  BY DEF SetEntry
<1>2. /\ fetch' \in [Request -> FetchRecord] /\ fetch'[r].at = "expire"
      /\ \A q \in Request \ {r} : fetch'[q] = fetch[q]
      /\ RequestKept(r)'
  BY <1>1, ReadOn
<1>3. \A q \in Request : RequestKept(q)'
  BY <1>1, <1>2, OthersKept
<1>4. /\ redis'.ttl = Unlimited /\ redis'.shows = fetch[r].shows /\ redis'.orphan = FALSE
      /\ Unlimited \notin 1 .. Ttl /\ Unlimited # 0 /\ Unlimited \in 0 .. Unlimited
  BY <1>1, PositionAssumption DEF Unlimited
<1>5. Seen(List)' = Seen(List) /\ still' = still
  BY <1>1 DEF holdingVars, List, Seen
<1>6. EntryKept'
  <2>1. Stale(fetch[r].shows) => still <= spent[r]
    BY <1>1 DEF PositionInv, RequestKept, ChainKept
  <2>2. \A q \in Request : Stale(fetch[r].shows) => still <= FetchTime + spent[q]
    BY <2>1, SpentBounds
  <2>3. Unlimited' = Unlimited
    BY DEF Unlimited
  <2> QED
    BY <1>1, <1>2, <1>4, <1>5, <2>1, <2>2, <2>3 DEF EntryKept, At, Stale
<1>7. PositionTyped'
  <2>1. PositionTyped /\ fetch[r] \in FetchRecord
    BY DEF PositionInv, PositionTyped
  <2>2. redis' \in EntryRecord
    BY <1>1, <1>4, <2>1 DEF EntryRecord, FetchRecord
  <2> QED
    BY <1>1, <1>2, <2>1, <2>2, TypedStep DEF PositionTyped
<1> QED
  BY <1>3, <1>6, <1>7 DEF PositionInv

\* EXPIRE: the entry, whose ever it is by now, will go.
LEMMA ExpireStep ==
  ASSUME PositionInv, NEW r \in Request, ExpireEntry(r)
  PROVE  PositionInv'
<1>1. /\ At(r) = "expire" /\ Goes(r, "end") /\ UNCHANGED <<holdingVars, stage, spent, answer>>
      /\ redis' = IF redis = NoEntry THEN redis ELSE [redis EXCEPT !.ttl = Ttl]
      /\ redis \in EntryRecord /\ ~redis.orphan /\ PositionTyped
  BY DEF ExpireEntry, PositionInv, EntryKept, PositionTyped
<1>2. /\ fetch' \in [Request -> FetchRecord] /\ fetch'[r].at = "end"
      /\ \A q \in Request \ {r} : fetch'[q] = fetch[q]
      /\ RequestKept(r)'
  BY <1>1, ReadOn
<1>3. \A q \in Request : RequestKept(q)'
  BY <1>1, <1>2, OthersKept
<1>4. Seen(List)' = Seen(List) /\ still' = still /\ Unlimited' = Unlimited /\ NoEntry' = NoEntry
  BY <1>1 DEF holdingVars, List, Seen, Unlimited, NoEntry
<1>5. CASE redis = NoEntry
  <2>1. redis' = redis /\ redis.ttl = 0 /\ redis.orphan = FALSE /\ Unlimited # 0 /\ 0 \notin 1 .. Ttl
    BY <1>1, <1>5, PositionAssumption DEF NoEntry, Unlimited
  <2>2. EntryKept'
    BY <1>4, <1>5, <2>1 DEF EntryKept
  <2>3. PositionTyped'
    BY <1>1, <1>2, <2>1, TypedStep DEF PositionTyped
  <2> QED
    BY <1>3, <2>2, <2>3 DEF PositionInv
<1>6. CASE redis # NoEntry
  <2>1. /\ redis'.ttl = Ttl /\ redis'.shows = redis.shows /\ redis'.orphan = redis.orphan
        /\ redis' \in EntryRecord /\ Ttl # Unlimited /\ Ttl # 0 /\ redis.ttl # 0
    BY <1>1, <1>6, PositionAssumption DEF EntryRecord, Unlimited, PositionInv, EntryKept
  <2>2. Stale(redis.shows) => still <= FetchTime + spent[r]
    BY <1>1, <2>1 DEF PositionInv, EntryKept
  <2>3. Stale(redis.shows) => still + Ttl <= Ttl + 2 * FetchTime
    BY <2>2, SpentBounds
  <2>4. \A q \in Request : (At(q) = "expire")' => At(q) = "expire"
    BY <1>1, <1>2 DEF At
  <2>5. EntryKept'
    BY <1>1, <1>4, <2>1, <2>3, <2>4 DEF PositionInv, EntryKept, Stale
  <2>6. PositionTyped'
    BY <1>1, <1>2, <2>1, TypedStep DEF PositionTyped
  <2> QED
    BY <1>3, <2>5, <2>6 DEF PositionInv
<1> QED
  BY <1>5, <1>6

\* A read fails.
LEMMA FailedRead ==
  ASSUME PositionInv, NEW r \in Request, FetchFails(r)
  PROVE  PositionInv'
<1>1. /\ At(r) \in {"get", "page1", "page2"} /\ Goes(r, "failed")
      /\ UNCHANGED <<holdingVars, redis, stage, spent, answer>> /\ PositionTyped
  BY DEF FetchFails, PositionInv
<1>2. /\ fetch' \in [Request -> FetchRecord] /\ fetch'[r].at = "failed"
      /\ \A q \in Request \ {r} : fetch'[q] = fetch[q]
      /\ RequestKept(r)'
  BY <1>1, ReadOn
<1> QED
  BY <1>1, <1>2, RequestAlone DEF PositionTyped, At

\* A request goes on while its reads stay as they are.
LEMMA StageStep ==
  ASSUME PositionInv, NEW r \in Request, NEW to \in {"looked", "answered", "refused"},
         UNCHANGED <<holdingVars, redis, spent, fetch>>,
         stage[r] # "idle", stage' = [stage EXCEPT ![r] = to],
         answer' \in [Request -> AnswerRecord],
         \A q \in Request \ {r} : answer'[q] = answer[q],
         to = "looked" => HasList(r) /\ AnswerKept(r)'
  PROVE  PositionInv'
<1>1. /\ stage' \in [Request -> Stages] /\ stage'[r] = to
      /\ \A q \in Request \ {r} : stage'[q] = stage[q]
      /\ fetch' \in [Request -> FetchRecord] /\ fetch' = fetch /\ spent' = spent
  BY DEF PositionInv, PositionTyped, Stages
<1>2. Seen(List)' = Seen(List) /\ still' = still /\ page' = page /\ List' = List
  BY DEF holdingVars, List, Seen
<1>3. ChainKept(r)'
  <2>1. ChainKept(r)
    BY DEF PositionInv, RequestKept
  <2> QED
    BY <1>1, <1>2, <2>1 DEF ChainKept, At, Stale
<1>4. FoundKept(r)' /\ AnswerKept(r)' /\ FetchAhead(r)'
  BY <1>1 DEF FoundKept, AnswerKept, FetchAhead, HasList, At
<1> QED
  BY <1>1, <1>3, <1>4, RequestAlone DEF RequestKept

\* The answer of a request, in one of its parts.
LEMMA AnswerTyped ==
  ASSUME PositionTyped, NEW r \in Request, NEW why \in {"none", "context", "call", "idle"},
         answer' = [answer EXCEPT ![r].why = why]
  PROVE  /\ answer' \in [Request -> AnswerRecord] /\ answer'[r].why = why
         /\ \A q \in Request \ {r} : answer'[q] = answer[q]
<1> DEFINE new == [answer[r] EXCEPT !.why = why]
<1>1. answer \in [Request -> AnswerRecord] /\ answer[r] \in AnswerRecord
      /\ answer' = [answer EXCEPT ![r] = new]
  BY DEF PositionTyped
<1>2. new \in AnswerRecord /\ new.why = why
  BY <1>1 DEF AnswerRecord
<1> HIDE DEF new
<1> QED
  BY <1>1, <1>2

\* The request ends without a context, or with the answer it has.
LEMMA EndSteps ==
  ASSUME PositionInv, NEW r \in Request, Refuse(r) \/ OtherListFails(r) \/ AnswerPositions(r)
  PROVE  PositionInv'
<1>1. PositionTyped
  BY DEF PositionInv
<1>2. CASE Refuse(r) \/ OtherListFails(r)
  <2>1. /\ UNCHANGED <<holdingVars, redis, spent, fetch>> /\ stage[r] # "idle"
        /\ stage' = [stage EXCEPT ![r] = "refused"]
        /\ answer' = [answer EXCEPT ![r].why = "context"]
    BY <1>2 DEF Refuse, OtherListFails
  <2>2. /\ answer' \in [Request -> AnswerRecord]
        /\ \A q \in Request \ {r} : answer'[q] = answer[q]
    BY <1>1, <2>1, AnswerTyped
  <2> QED
    BY <2>1, <2>2, StageStep
<1>3. CASE AnswerPositions(r)
  BY <1>1, <1>3, StageStep DEF AnswerPositions, PositionTyped
<1> QED
  BY <1>2, <1>3

\* A protocol fails.
LEMMA FailedLook ==
  ASSUME PositionInv, NEW r \in Request, LookUpFails(r)
  PROVE  PositionInv'
<1>1. /\ UNCHANGED <<holdingVars, redis, spent, fetch>> /\ stage[r] = "context"
      /\ HasList(r) /\ stage' = [stage EXCEPT ![r] = "looked"]
      /\ answer' = [answer EXCEPT ![r].why = "call"] /\ PositionTyped
  BY DEF LookUpFails, PositionInv
<1>2. /\ answer' \in [Request -> AnswerRecord] /\ answer'[r].why = "call"
      /\ \A q \in Request \ {r} : answer'[q] = answer[q]
  BY <1>1, AnswerTyped
<1>3. AnswerKept(r)'
  BY <1>2 DEF AnswerKept
<1> QED
  BY <1>1, <1>2, <1>3, StageStep

\* The protocols look at what the lists show.
LEMMA LookStep ==
  ASSUME PositionInv, NEW r \in Request, LookUp(r)
  PROVE  PositionInv'
<1>1. /\ UNCHANGED <<holdingVars, redis, spent, fetch>> /\ stage[r] = "context" /\ HasList(r)
      /\ stage' = [stage EXCEPT ![r] = "looked"]
      /\ answer \in [Request -> AnswerRecord] /\ fetch[r] \in FetchRecord
      /\ place \in PlacesOf(kind) \cup {"gone"}
  BY DEF LookUp, PositionInv, PositionTyped
<1>2. PICK idle \in BOOLEAN :
        answer' = [answer EXCEPT ![r] = IF Throws(r, idle) THEN [NoAnswer EXCEPT !.why = "idle"]
                                                           ELSE [NoAnswer EXCEPT !.shown = Shown(r)]]
  BY DEF LookUp
<1>3. /\ Shown(r) \subseteq Guises(kind)
      /\ ~Stale(fetch[r].shows) => TrulyShown(Shown(r))
  BY <1>1, SpentBounds, TruthShown DEF Shown, FetchRecord, Stale, Guises
<1> DEFINE new == answer'[r]
<1>4. /\ answer' \in [Request -> AnswerRecord]
      /\ \A q \in Request \ {r} : answer'[q] = answer[q]
      /\ new.shown = Shown(r) \/ (new.why = "idle" /\ kind = "KrPool")
  <2>1. CASE Throws(r, idle)
    <3> DEFINE made == [NoAnswer EXCEPT !.why = "idle"]
    <3>1. answer' = [answer EXCEPT ![r] = made] /\ kind = "KrPool"
      BY <1>2, <2>1 DEF Throws
    <3>2. made \in AnswerRecord /\ made.why = "idle"
      BY DEF AnswerRecord, NoAnswer
    <3> HIDE DEF made
    <3> QED
      BY <1>1, <3>1, <3>2
  <2>2. CASE ~Throws(r, idle)
    <3> DEFINE made == [NoAnswer EXCEPT !.shown = Shown(r)]
    <3>1. answer' = [answer EXCEPT ![r] = made]
      BY <1>2, <2>2
    <3>2. made \in AnswerRecord /\ made.shown = Shown(r)
      BY <1>3 DEF AnswerRecord, NoAnswer
    <3> HIDE DEF made
    <3> QED
      BY <1>1, <3>1, <3>2
  <2> QED
    BY <2>1, <2>2
<1>5. still < Ttl + 2 * FetchTime + spent[r] \/ fetch[r].orphan \/ ~Stale(fetch[r].shows)
  <2>1. At(r) \in {"set", "expire"} /\ Stale(fetch[r].shows) => still <= spent[r]
    BY DEF PositionInv, RequestKept, ChainKept
  <2>2. At(r) = "end" /\ ~fetch[r].orphan /\ Stale(fetch[r].shows) =>
          still < Ttl + 2 * FetchTime + spent[r]
    BY <1>1 DEF PositionInv, RequestKept, FoundKept
  <2> QED
    BY <1>1, <2>1, <2>2, SpentBounds DEF HasList
<1>6. AnswerKept(r)'
  <2>1. \A shown : TrulyShown(shown)' <=> TrulyShown(shown)
    BY <1>1 DEF holdingVars, TrulyShown
  <2> QED
    BY <1>1, <1>3, <1>4, <1>5, <2>1 DEF AnswerKept, holdingVars
<1> QED
  BY <1>1, <1>4, <1>6, StageStep

\* The process stops: who has read is forgotten, an entry may be left for good.
LEMMA StopServer ==
  ASSUME PositionInv, ServerStops
  PROVE  PositionInv'
<1>1. /\ stage' = [r \in Request |-> IF stage[r] \in {"context", "looked"} THEN "dead" ELSE stage[r]]
      /\ redis' = [redis EXCEPT !.orphan = redis.ttl = Unlimited]
      /\ fetch' = [r \in Request |-> IF At(r) \in {"end", "failed"} THEN fetch[r] ELSE NoFetch]
      /\ UNCHANGED <<holdingVars, spent, answer>>
      /\ PositionTyped
  BY DEF ServerStops, PositionInv
<1>2. \A r \in Request : fetch'[r].at \in {"end", "failed"}
  BY <1>1 DEF At, NoFetch
<1>3. ASSUME NEW r \in Request
      PROVE  RequestKept(r)'
  <2>1. stage'[r] # "context" /\ stage'[r] # "looked" /\ (stage'[r] = "idle" => stage[r] = "idle")
    BY <1>1
  <2>2. stage[r] = "idle" => fetch[r] = NoFetch
    BY DEF PositionInv, RequestKept, ChainKept
  <2>3. stage'[r] = "idle" => fetch'[r] = NoFetch
    BY <1>1, <2>1, <2>2
  <2> QED
    BY <1>2, <2>1, <2>3 DEF RequestKept, ChainKept, FoundKept, AnswerKept, FetchAhead, At, NoFetch
<1>4. /\ redis'.ttl = redis.ttl /\ redis'.shows = redis.shows /\ redis' \in EntryRecord
      /\ redis'.orphan <=> redis.ttl = Unlimited
  BY <1>1 DEF PositionTyped, EntryRecord
<1>5. EntryKept'
  <2>1. Seen(List)' = Seen(List) /\ still' = still /\ Unlimited' = Unlimited /\ NoEntry' = NoEntry
    BY <1>1 DEF holdingVars, List, Seen, Unlimited, NoEntry
  <2>2. redis.ttl = 0 => redis' = NoEntry
    <3> SUFFICES ASSUME redis.ttl = 0
                 PROVE  redis' = NoEntry
      OBVIOUS
    <3>1. redis = NoEntry
      BY DEF PositionInv, EntryKept
    <3>2. (redis.ttl = Unlimited) = FALSE
      BY PositionAssumption DEF Unlimited
    <3>3. redis' = [NoEntry EXCEPT !.orphan = FALSE]
      BY <1>1, <3>1, <3>2, Zenon
    <3> QED
      BY <3>3 DEF NoEntry
  <2>3. redis.ttl \in 1 .. Ttl /\ Stale(redis.shows) => still + redis.ttl <= Ttl + 2 * FetchTime
    BY DEF PositionInv, EntryKept
  <2> QED
    BY <1>2, <1>4, <2>1, <2>2, <2>3 DEF EntryKept, At, Stale
<1>6. PositionTyped'
  <2>1. stage' \in [Request -> Stages]
    BY <1>1 DEF PositionTyped, Stages
  <2>2. NoFetch \in FetchRecord
    BY DEF NoFetch, FetchRecord, Steps
  <2>3. fetch' \in [Request -> FetchRecord]
    BY <1>1, <2>2 DEF PositionTyped
  <2> QED
    BY <1>1, <1>4, <2>1, <2>3, TypedStep DEF PositionTyped
<1> QED
  BY <1>3, <1>5, <1>6 DEF PositionInv

\* The holding moves, and nothing has been behind for any time.
LEMMA MoveKept ==
  ASSUME PositionInv, MoveHolding
  PROVE  PositionInv'
<1>1. /\ still' = 0 /\ kind' = kind /\ UNCHANGED <<redis, stage, spent, fetch, answer>>
      /\ place' \in PlacesOf(kind) \cup {"gone"} /\ page' \in Pages /\ PositionTyped
  BY DEF MoveHolding, PositionInv
<1>2. /\ List' = List /\ Pages' = Pages /\ EntryRecord' = EntryRecord
      /\ FetchRecord' = FetchRecord /\ AnswerRecord' = AnswerRecord
      /\ LongAgo' = LongAgo /\ Unlimited' = Unlimited /\ NoEntry' = NoEntry
  BY <1>1 DEF List, Pages, EntryRecord, FetchRecord, AnswerRecord, LongAgo, Unlimited, NoEntry
<1>3. /\ \A r \in Request : 0 <= spent[r] /\ ~(0 > spent[r]) /\ 0 < Ttl + 2 * FetchTime + spent[r]
                            /\ 0 <= FetchTime + spent[r]
      /\ \A ttl \in 1 .. Ttl : 0 + ttl <= Ttl + 2 * FetchTime
  BY SpentBounds
<1>4. PositionTyped'
  <2>1. 0 \in Nat /\ 0 <= LongAgo
    BY PositionAssumption DEF LongAgo
  <2> QED
    BY <1>1, <1>2, <2>1 DEF PositionTyped
<1>5. ASSUME NEW r \in Request
      PROVE  RequestKept(r)'
  <2>1. RequestKept(r)
    BY DEF PositionInv
  <2>2. ChainKept(r)'
    BY <1>1, <1>2, <1>3, <2>1 DEF RequestKept, ChainKept, At, NoFetch
  <2>3. FoundKept(r)' /\ AnswerKept(r)' /\ FetchAhead(r)'
    BY <1>1, <1>3, <2>1 DEF RequestKept, FoundKept, AnswerKept, FetchAhead, HasList, At
  <2> QED
    BY <2>2, <2>3 DEF RequestKept
<1>6. EntryKept'
  <2>1. \A r \in Request : (At(r) = "expire")' <=> At(r) = "expire"
    BY <1>1 DEF At
  <2> QED
    BY <1>1, <1>2, <1>3, <2>1 DEF PositionInv, EntryKept
<1> QED
  BY <1>4, <1>5, <1>6 DEF PositionInv

\* Time passes: for what is behind, for the requests and for the entry alike.
LEMMA PassKept ==
  ASSUME PositionInv, Pass
  PROVE  PositionInv'
<1>1. /\ \A r \in Request : Working(r) => spent[r] < FetchTime
      /\ spent' = [r \in Request |-> IF Working(r) THEN spent[r] + 1 ELSE 0]
      /\ UNCHANGED <<kind, place, page, stage, fetch, answer>>
      /\ PositionTyped
  BY DEF Pass, PositionInv
<1>2. /\ List' = List /\ Seen(List)' = Seen(List) /\ Pages' = Pages /\ EntryRecord' = EntryRecord
      /\ FetchRecord' = FetchRecord /\ AnswerRecord' = AnswerRecord
      /\ LongAgo' = LongAgo /\ Unlimited' = Unlimited /\ NoEntry' = NoEntry
  BY <1>1 DEF List, Seen, Pages, EntryRecord, FetchRecord, AnswerRecord, LongAgo, Unlimited, NoEntry
<1>3. /\ still \in Nat /\ still <= LongAgo /\ LongAgo \in Nat
      /\ LongAgo = Ttl + 3 * FetchTime
      /\ \A r \in Request : spent[r] \in Nat /\ spent[r] <= FetchTime
  BY <1>1, SpentBounds DEF PositionTyped, LongAgo
<1>4. still' \in Nat /\ still' <= LongAgo /\ (still' = still + 1 \/ (still' = still /\ still = LongAgo))
  BY <1>3 DEF Pass
<1>5. \A r \in Request : Working(r) => spent'[r] = spent[r] + 1 /\ spent'[r] <= FetchTime
  BY <1>1, <1>3, SpentBounds
<1>6. spent' \in [Request -> 0 .. FetchTime]
  <2>1. \A r \in Request : (IF Working(r) THEN spent[r] + 1 ELSE 0) \in 0 .. FetchTime
    BY <1>1, <1>3, SpentBounds
  <2> QED
    BY <1>1, <2>1
<1>7. ASSUME NEW r \in Request
      PROVE  RequestKept(r)'
  <2>1. ChainKept(r) /\ FoundKept(r) /\ AnswerKept(r) /\ FetchAhead(r)
    BY DEF PositionInv, RequestKept
  <2>2. At(r) \in {"page2", "set", "expire"} \/ stage[r] \in {"context", "looked"} => Working(r)
    BY DEF Working
  <2>3. Working(r) => /\ still' > spent'[r] => still > spent[r]
                      /\ still <= spent[r] => still' <= spent'[r]
                      /\ still < Ttl + 2 * FetchTime + spent[r] =>
                           still' < Ttl + 2 * FetchTime + spent'[r]
    BY <1>3, <1>4, <1>5, SpentBounds
  <2>4. ChainKept(r)'
    BY <1>1, <1>2, <2>1, <2>2, <2>3 DEF ChainKept, At, Stale, NoFetch
  <2>5. FoundKept(r)' /\ AnswerKept(r)'
    BY <1>1, <1>2, <2>1, <2>2, <2>3 DEF FoundKept, AnswerKept, TrulyShown, At, Stale
  <2>6. FetchAhead(r)'
    BY <1>1, <2>1 DEF FetchAhead, HasList, At
  <2> QED
    BY <2>4, <2>5, <2>6 DEF RequestKept
<1>8. \A r \in Request : At(r) = "expire" =>
        /\ still <= spent[r] => still' <= spent'[r]
        /\ still <= FetchTime + spent[r] => still' <= FetchTime + spent'[r]
  <2> SUFFICES ASSUME NEW r \in Request, At(r) = "expire"
               PROVE  /\ still <= spent[r] => still' <= spent'[r]
                      /\ still <= FetchTime + spent[r] => still' <= FetchTime + spent'[r]
    OBVIOUS
  <2>1. Working(r)
    BY DEF Working
  <2> QED
    BY <1>3, <1>4, <1>5, <2>1, SpentBounds
<1>9. /\ redis \in EntryRecord /\ Unlimited = Ttl + 1 /\ Ttl \in Nat \ {0}
      /\ redis' = CASE redis.ttl = Unlimited -> redis
                    [] redis.ttl \in 2 .. Ttl -> [redis EXCEPT !.ttl = @ - 1]
                    [] OTHER -> NoEntry
  BY <1>1, SpentBounds DEF Pass, PositionTyped, Unlimited
<1>10. \A r \in Request : (At(r) = "expire")' <=> At(r) = "expire"
  BY <1>1 DEF At
<1>11. CASE redis.ttl = Unlimited
  <2>1. redis' = redis /\ Unlimited # 0 /\ Unlimited \notin 1 .. Ttl
    BY <1>9, <1>11
  <2>2. EntryKept'
    BY <1>2, <1>8, <1>10, <1>11, <2>1 DEF PositionInv, EntryKept, Stale
  <2>3. PositionTyped'
    BY <1>1, <1>2, <1>4, <1>6, <2>1 DEF PositionTyped
  <2> QED
    BY <1>7, <2>2, <2>3 DEF PositionInv
<1>12. CASE redis.ttl \in 2 .. Ttl
  <2>1. redis' = [redis EXCEPT !.ttl = redis.ttl - 1]
    BY <1>9, <1>12
  <2>2. /\ redis'.ttl = redis.ttl - 1 /\ redis'.shows = redis.shows /\ redis'.orphan = redis.orphan
        /\ redis' \in EntryRecord
        /\ redis'.ttl # 0 /\ redis'.ttl # Unlimited /\ redis.ttl # Unlimited /\ redis.ttl # 0
        /\ redis.ttl \in 1 .. Ttl /\ redis'.ttl \in 1 .. Ttl
    BY <1>9, <1>12, <2>1 DEF EntryRecord
  <2>3. Stale(redis.shows) => still' + redis'.ttl <= Ttl + 2 * FetchTime
    <3>1. Stale(redis.shows) => still + redis.ttl <= Ttl + 2 * FetchTime
      BY <2>2 DEF PositionInv, EntryKept
    <3> QED
      BY <1>3, <1>4, <2>2, <3>1, SpentBounds
  <2>4. EntryKept'
    BY <1>2, <1>8, <1>10, <2>2, <2>3 DEF PositionInv, EntryKept, Stale
  <2>5. PositionTyped'
    BY <1>1, <1>2, <1>4, <1>6, <2>2 DEF PositionTyped
  <2> QED
    BY <1>7, <2>4, <2>5 DEF PositionInv
<1>13. CASE redis.ttl # Unlimited /\ redis.ttl \notin 2 .. Ttl
  <2>1. redis' = NoEntry
    BY <1>9, <1>13
  <2>2. /\ NoEntry.ttl = 0 /\ NoEntry.orphan = FALSE /\ NoEntry \in EntryRecord
        /\ 0 # Unlimited /\ 0 \notin 1 .. Ttl
    BY <1>9 DEF NoEntry, EntryRecord
  <2>3. EntryKept'
    BY <1>2, <2>1, <2>2 DEF EntryKept
  <2>4. PositionTyped'
    BY <1>1, <1>2, <1>4, <1>6, <2>1, <2>2 DEF PositionTyped
  <2> QED
    BY <1>7, <2>3, <2>4 DEF PositionInv
<1> QED
  BY <1>11, <1>12, <1>13

\* Every step of the server, and of the world, keeps the invariant.
LEMMA PositionStep == PositionInv /\ [PositionNext]_positionVars => PositionInv'
<1> SUFFICES ASSUME PositionInv, [PositionNext]_positionVars
             PROVE  PositionInv'
  OBVIOUS
<1>1. CASE UNCHANGED positionVars
  <2>1. UNCHANGED <<holdingVars, redis, stage, spent, fetch, answer>>
    BY <1>1 DEF positionVars
  <2>2. PositionTyped' /\ EntryKept'
    <3>1. \A q \in Request : (At(q) = "expire")' <=> At(q) = "expire"
      BY <2>1 DEF At
    <3> QED
      BY <2>1, <3>1, EntrySame, TypedStep DEF PositionInv, PositionTyped
  <2>3. ASSUME NEW r \in Request
        PROVE  RequestKept(r)'
    <3>1. RequestKept(r) /\ List' = List /\ Seen(List)' = Seen(List)
      BY <2>1 DEF PositionInv, holdingVars, List, Seen
    <3> QED
      BY <2>1, <3>1 DEF holdingVars, RequestKept, ChainKept, FoundKept, AnswerKept, TrulyShown, FetchAhead, At,
         HasList, Stale, NoFetch
  <2> QED
    BY <2>2, <2>3 DEF PositionInv
<1>2. ASSUME NEW r \in Request,
             \/ AskPositions(r) \/ RequestStep(r) \/ FetchFails(r) \/ OtherListFails(r) \/ LookUpFails(r)
      PROVE  PositionInv'
  BY <1>2, AskStep, GetStep, PageOfList, SetStep, ExpireStep, EndSteps, LookStep, FailedRead, FailedLook
     DEF RequestStep
<1> QED
  BY <1>1, <1>2, StopServer, MoveKept, PassKept DEF PositionNext

(***************************************************************************)
(* Whatever the times, the owner and the requests: a holding that has been *)
(* where it is for the life of an entry and three requests is answered     *)
(* once and as what it is, but for the entries that a stop of the process  *)
(* left for good and for protocols that failed; and no request with a      *)
(* context is refused.                                                     *)
(***************************************************************************)
THEOREM SettledSafe == PositionSpec => SettledShownOnce
<1>1. ASSUME PositionInv, [PositionNext]_positionVars, ~UNCHANGED positionVars,
             NEW r \in Request
      PROVE  /\ ~RefusedWithContext(r)
             /\ stage[r] # "answered" /\ stage'[r] = "answered" /\ Settled => ShowsTheTruth(r)
  <2>1. /\ stage \in [Request -> Stages] /\ answer \in [Request -> AnswerRecord]
    BY <1>1 DEF PositionInv, PositionTyped
  <2>2. stage[r] # "refused" /\ stage'[r] = "refused" =>
          Refuse(r) \/ OtherListFails(r)
    BY <1>1, <2>1 DEF PositionNext, RequestStep, AskPositions, GetCache, ReadPage, SetEntry, ExpireEntry,
       Refuse, LookUp, AnswerPositions, FetchFails, OtherListFails, LookUpFails, ServerStops,
       MoveHolding, Pass
  <2>3. stage[r] # "answered" /\ stage'[r] = "answered" => AnswerPositions(r)
    BY <1>1, <2>1 DEF PositionNext, RequestStep, AskPositions, GetCache, ReadPage, SetEntry, ExpireEntry,
       Refuse, LookUp, AnswerPositions, FetchFails, OtherListFails, LookUpFails, ServerStops,
       MoveHolding, Pass
  <2>4. Refuse(r) \/ OtherListFails(r) => answer'[r].why = "context"
    <3>1. answer' = [answer EXCEPT ![r].why = "context"] => answer'[r].why = "context"
      BY <1>1, AnswerTyped DEF PositionInv
    <3> QED
      BY <3>1 DEF Refuse, OtherListFails
  <2>5. AnswerPositions(r) /\ Settled => ShowsTheTruth(r)
    <3> SUFFICES ASSUME AnswerPositions(r), still = LongAgo
                 PROVE  ShowsTheTruth(r)
      BY DEF Settled
    <3>1. AnswerKept(r) /\ stage[r] = "looked"
      BY <1>1 DEF AnswerPositions, PositionInv, RequestKept
    <3>2. ~(still < Ttl + 2 * FetchTime + spent[r])
      BY <1>1, SpentBounds DEF LongAgo
    <3> QED
      BY <3>1, <3>2 DEF AnswerKept, TrulyShown, ShowsTheTruth
  <2> QED
    BY <2>2, <2>3, <2>4, <2>5 DEF RefusedWithContext
<1>2. PositionInv /\ [PositionNext]_positionVars =>
        [\A r \in Request :
           /\ ~RefusedWithContext(r)
           /\ stage[r] # "answered" /\ stage'[r] = "answered" /\ Settled => ShowsTheTruth(r)]_positionVars
  BY <1>1
<1> QED
  BY <1>2, PositionInvInit, PositionStep, PTL DEF PositionSpec, SettledShownOnce

-----------------------------------------------------------------------------
(***************************************************************************)
(* What the positions say.                                                 *)
(***************************************************************************)
\* The entries of a list stand next to prices of their own decimals, or of nine.
Exact(fs, quoted)  == \A f \in fs : Scaled(f, FALSE, quoted)
Nine(fs, quoted)   == \A f \in fs : Scaled(f, TRUE, quoted)
Earned(fs) == \A f \in fs : f.amount \in {"fee", "reward", "zero"}

ExactPosition(h, quoted) == Exact(h.input \cup h.current \cup h.yield, quoted)
NinePosition(h, quoted)  == Nine(h.input \cup h.current \cup h.yield, quoted)

\* A price has the decimals of its coin next to it, or the guess.
LEMMA QuotesGuess ==
  ASSUME NEW quoted \in AnyQuotes, NEW c \in DOMAIN quoted
  PROVE  quoted[c] \in {CoinDecimals[c], 9}
BY DEF AnyQuotes

\* Every conversion is right about the decimals, where the code can be.
LEMMA EntriesExact ==
  ASSUME NEW c \in Coin, NEW amount, NEW quoted \in AnyQuotes, NEW hasPrice
  PROVE  /\ Exact({ByPrice(c, amount, quoted)}, quoted) /\ Exact({BySDK(c, amount, quoted)}, quoted)
         /\ Exact({Zero(c, quoted)}, quoted)
         /\ Nine({ByNine(c, amount, hasPrice)}, quoted) /\ Nine({NaAmount(c, amount, quoted)}, quoted)
         /\ Earned({Zero(c, quoted)})
         /\ amount \in {"fee", "reward"} =>
              /\ Earned({ByPrice(c, amount, quoted)}) /\ Earned({BySDK(c, amount, quoted)})
              /\ Earned({ByNine(c, amount, hasPrice)})
<1>1. Scaled(Zero(c, quoted), FALSE, quoted) /\ Zero(c, quoted).amount = "zero"
  BY DEF Zero, Entry, Scaled
<1>2. Scaled(BySDK(c, amount, quoted), FALSE, quoted) /\ BySDK(c, amount, quoted).amount = amount
  BY DEF BySDK, Entry, Scaled
<1>3. Scaled(ByNine(c, amount, hasPrice), TRUE, quoted) /\ ByNine(c, amount, hasPrice).amount = amount
  BY DEF ByNine, Entry, Scaled
<1>4. Scaled(NaAmount(c, amount, quoted), TRUE, quoted)
  BY DEF NaAmount, Entry, Scaled
<1>5. ByPrice(c, amount, quoted).amount = amount
  BY DEF ByPrice, Entry
<1>6. Scaled(ByPrice(c, amount, quoted), FALSE, quoted)
  <2> DEFINE f == ByPrice(c, amount, quoted)
  <2>1. f.coin = c /\ f.scale = PriceDecimals(c, quoted) /\ (f.price => HasPrice(c, quoted))
    BY DEF ByPrice, Entry
  <2>2. HasPrice(c, quoted) => quoted[c] = CoinDecimals[c] \/ quoted[c] = 9
    BY QuotesGuess DEF HasPrice
  <2>3. HasPrice(c, quoted) =>
          \/ PriceDecimals(c, quoted) = CoinDecimals[c]
          \/ PriceDecimals(c, quoted) = 9 /\ (CoinDecimals[c] = 0 \/ quoted[c] = 9)
    BY <2>2 DEF PriceDecimals, OrNine
  <2> HIDE DEF f
  <2> QED
    BY <2>1, <2>3, Zenon DEF Scaled, f
<1>7. Exact({ByPrice(c, amount, quoted)}, quoted) /\ Exact({BySDK(c, amount, quoted)}, quoted)
  BY <1>2, <1>6, Zenon DEF Exact
<1>8. /\ Exact({Zero(c, quoted)}, quoted)
      /\ Nine({ByNine(c, amount, hasPrice)}, quoted) /\ Nine({NaAmount(c, amount, quoted)}, quoted)
  BY <1>1, <1>3, <1>4, Zenon DEF Exact, Nine
<1>9. amount \in {"fee", "reward"} =>
        /\ Earned({ByPrice(c, amount, quoted)}) /\ Earned({BySDK(c, amount, quoted)})
        /\ Earned({ByNine(c, amount, hasPrice)})
  <2>1. amount \in {"fee", "reward"} => amount \in {"fee", "reward", "zero"}
    OBVIOUS
  <2> QED
    BY <2>1, <1>2, <1>3, <1>5 DEF Earned
<1>10. Earned({Zero(c, quoted)})
  BY <1>1 DEF Earned
<1> QED
  BY <1>7, <1>8, <1>9, <1>10, Zenon

\* Lists are put together.
LEMMA ListsJoined ==
  ASSUME NEW fs, NEW gs, NEW quoted
  PROVE  /\ Exact(fs, quoted) /\ Exact(gs, quoted) => Exact(fs \cup gs, quoted)
         /\ Nine(fs, quoted) /\ Nine(gs, quoted) => Nine(fs \cup gs, quoted)
         /\ Earned(fs) /\ Earned(gs) => Earned(fs \cup gs)
         /\ Exact(fs, quoted) => Nine(fs, quoted)
         /\ Exact({}, quoted) /\ Nine({}, quoted) /\ Earned({})
<1>1. \A f : Scaled(f, FALSE, quoted) => Scaled(f, TRUE, quoted)
  BY Zenon DEF Scaled
<1> QED
  BY <1>1 DEF Exact, Nine, Earned

\* It is enough to look at the lists of a position one by one.
LEMMA ListsWorth ==
  ASSUME NEW input, NEW current, NEW yield, NEW quoted
  PROVE  /\ Exact(input, quoted) /\ Exact(current, quoted) /\ Exact(yield, quoted) =>
              ExactPosition(Holding(input, current, yield), quoted)
         /\ Nine(input, quoted) /\ Nine(current, quoted) /\ Nine(yield, quoted) =>
              NinePosition(Holding(input, current, yield), quoted)
         /\ Holding(input, current, yield).yield = yield
<1>1. /\ Holding(input, current, yield).input = input
      /\ Holding(input, current, yield).current = current
      /\ Holding(input, current, yield).yield = yield
  BY DEF Holding
<1> QED
  BY <1>1, ListsJoined, Zenon DEF ExactPosition, NinePosition

\* The positions of pools: two coins by their shares, with fees and rewards.
LEMMA PoolsExact ==
  ASSUME NEW x \in Coin, NEW y \in Coin, NEW quoted \in AnyQuotes
  PROVE  /\ ExactPosition(AmPool(x, y, quoted), quoted) /\ Earned(AmPool(x, y, quoted).yield)
         /\ ExactPosition(AmFarm(x, y, quoted), quoted) /\ Earned(AmFarm(x, y, quoted).yield)
         /\ ExactPosition(KrPool(x, y, quoted), quoted) /\ Earned(KrPool(x, y, quoted).yield)
         /\ ExactPosition(KrFarm(x, y, quoted), quoted) /\ Earned(KrFarm(x, y, quoted).yield)
         /\ \A staked : /\ ExactPosition(CePool(x, y, quoted, staked), quoted)
                        /\ Earned(CePool(x, y, quoted, staked).yield)
<1> DEFINE zeros  == {Zero(x, quoted), Zero(y, quoted)}
           shares == Shares(x, y, quoted)
           reward == {ByPrice(y, "reward", quoted)}
           fees   == {ByPrice(x, "fee", quoted), ByPrice(y, "fee", quoted)}
<1>1. ASSUME NEW f, NEW g
      PROVE  /\ Exact({f}, quoted) /\ Exact({g}, quoted) => Exact({f, g}, quoted)
             /\ Earned({f}) /\ Earned({g}) => Earned({f, g})
  BY DEF Exact, Earned
<1>2. Exact(zeros, quoted) /\ Earned(zeros)
  <2>1. /\ Exact({Zero(x, quoted)}, quoted) /\ Exact({Zero(y, quoted)}, quoted)
        /\ Earned({Zero(x, quoted)}) /\ Earned({Zero(y, quoted)})
    BY EntriesExact, Zenon
  <2> QED
    BY <1>1, <2>1
<1>3. Exact(shares, quoted)
  <2>1. Exact({ByPrice(x, "x", quoted)}, quoted) /\ Exact({ByPrice(y, "y", quoted)}, quoted)
    BY EntriesExact, Zenon
  <2> QED
    BY <1>1, <2>1 DEF Shares
<1>4. "fee" \in {"fee", "reward"} /\ "reward" \in {"fee", "reward"}
  OBVIOUS
<1>5. Exact(reward, quoted) /\ Earned(reward)
  BY <1>4, EntriesExact, Zenon
<1>6. Exact(fees, quoted) /\ Earned(fees)
  <2>1. /\ Exact({ByPrice(x, "fee", quoted)}, quoted) /\ Exact({ByPrice(y, "fee", quoted)}, quoted)
        /\ Earned({ByPrice(x, "fee", quoted)}) /\ Earned({ByPrice(y, "fee", quoted)})
    BY <1>4, EntriesExact, Zenon
  <2> QED
    BY <1>1, <2>1
<1>7. Exact({}, quoted) /\ Earned({})
  BY ListsJoined, Zenon
<1>8. /\ Exact(reward \cup zeros, quoted) /\ Earned(reward \cup zeros)
      /\ Exact(reward \cup fees, quoted) /\ Earned(reward \cup fees)
  BY <1>2, <1>5, <1>6, ListsJoined, Zenon
<1>9. ExactPosition(AmPool(x, y, quoted), quoted) /\ Earned(AmPool(x, y, quoted).yield)
  BY <1>2, <1>3, <1>7, ListsWorth, Zenon DEF AmPool
<1>10. ExactPosition(AmFarm(x, y, quoted), quoted) /\ Earned(AmFarm(x, y, quoted).yield)
  BY <1>2, <1>3, <1>5, ListsWorth, Zenon DEF AmFarm
<1>11. ExactPosition(KrPool(x, y, quoted), quoted) /\ Earned(KrPool(x, y, quoted).yield)
  BY <1>2, <1>3, <1>7, ListsWorth, Zenon DEF KrPool
<1>12. ExactPosition(KrFarm(x, y, quoted), quoted) /\ Earned(KrFarm(x, y, quoted).yield)
  BY <1>2, <1>3, <1>5, ListsWorth, Zenon DEF KrFarm
<1>13. ASSUME NEW staked
       PROVE  /\ ExactPosition(CePool(x, y, quoted, staked), quoted)
              /\ Earned(CePool(x, y, quoted, staked).yield)
  <2>1. CASE staked
    <3>1. /\ ExactPosition(Holding(zeros, shares, reward \cup zeros), quoted)
          /\ Earned(Holding(zeros, shares, reward \cup zeros).yield)
      BY <1>2, <1>3, <1>8, ListsWorth, Zenon
    <3>2. CePool(x, y, quoted, staked) = Holding(zeros, shares, reward \cup zeros)
      BY <2>1, Zenon DEF CePool
    <3> QED
      BY <3>1, <3>2
  <2>2. CASE ~staked
    <3>1. /\ ExactPosition(Holding(zeros, shares, reward \cup fees), quoted)
          /\ Earned(Holding(zeros, shares, reward \cup fees).yield)
      BY <1>2, <1>3, <1>8, ListsWorth, Zenon
    <3>2. CePool(x, y, quoted, staked) = Holding(zeros, shares, reward \cup fees)
      BY <2>2, Zenon DEF CePool
    <3> QED
      BY <3>1, <3>2
  <2> QED
    BY <2>1, <2>2, Zenon
<1> QED
  BY <1>9, <1>10, <1>11, <1>12, <1>13, Zenon

\* The positions of lendings, debts, locks and stakes.
LEMMA LoansExact ==
  ASSUME NEW x \in Coin, NEW y \in Coin, NEW quoted \in AnyQuotes
  PROVE  /\ ExactPosition(ScLending(x, quoted), quoted)
         /\ ExactPosition(ScStaking(x, y, quoted), quoted) /\ Earned(ScStaking(x, y, quoted).yield)
         /\ ExactPosition(ScEmpty(x, y, quoted), quoted) /\ Earned(ScEmpty(x, y, quoted).yield)
         /\ ExactPosition(ScObligation(x, y, quoted), quoted) /\ Earned(ScObligation(x, y, quoted).yield)
         /\ ExactPosition(Stake(x, quoted), quoted) /\ Earned(Stake(x, quoted).yield)
         /\ NinePosition(CeVe(x, y, quoted), quoted) /\ Earned(CeVe(x, y, quoted).yield)
         /\ NinePosition(ScVe(x, quoted), quoted) /\ Earned(ScVe(x, quoted).yield)
<1>1. "fee" \in {"fee", "reward"} /\ "reward" \in {"fee", "reward"}
  OBVIOUS
<1>2. /\ Exact({Zero(x, quoted)}, quoted) /\ Exact({ByPrice(x, "x", quoted)}, quoted)
      /\ Exact({BySDK(x, "x", quoted)}, quoted) /\ Exact({BySDK(y, "y", quoted)}, quoted)
  BY EntriesExact, Zenon
<1>3. /\ Exact({BySDK(y, "reward", quoted)}, quoted) /\ Earned({BySDK(y, "reward", quoted)})
      /\ Exact({ByPrice(x, "reward", quoted)}, quoted) /\ Earned({ByPrice(x, "reward", quoted)})
      /\ Exact({ByPrice(y, "reward", quoted)}, quoted) /\ Earned({ByPrice(y, "reward", quoted)})
  BY <1>1, EntriesExact, Zenon
<1>4. Exact({}, quoted) /\ Earned({}) /\ Nine({}, quoted)
  BY ListsJoined, Zenon
<1>5. /\ Nine({ByNine(x, "x", FALSE)}, quoted) /\ Nine({ByNine(x, "x", HasPrice(x, quoted))}, quoted)
      /\ Nine({ByPrice(y, "reward", quoted)}, quoted) /\ Nine({Zero(x, quoted)}, quoted)
  BY <1>2, <1>3, EntriesExact, ListsJoined, Zenon
<1>6. ExactPosition(ScLending(x, quoted), quoted)
  BY <1>2, ListsWorth, Zenon DEF ScLending
<1>7. ExactPosition(ScStaking(x, y, quoted), quoted) /\ Earned(ScStaking(x, y, quoted).yield)
  BY <1>2, <1>3, ListsWorth, Zenon DEF ScStaking
<1>8. ExactPosition(ScObligation(x, y, quoted), quoted) /\ Earned(ScObligation(x, y, quoted).yield)
  BY <1>2, <1>4, ListsWorth, Zenon DEF ScObligation
<1>9. ExactPosition(Stake(x, quoted), quoted) /\ Earned(Stake(x, quoted).yield)
  BY <1>2, <1>3, ListsWorth, Zenon DEF Stake
<1>10. NinePosition(CeVe(x, y, quoted), quoted) /\ Earned(CeVe(x, y, quoted).yield)
  <2>1. /\ NinePosition(CeVe(x, y, quoted), quoted)
        /\ CeVe(x, y, quoted).yield = {ByPrice(y, "reward", quoted)}
    BY <1>5, ListsWorth, Zenon DEF CeVe
  <2> QED
    BY <1>3, <2>1
<1>11. NinePosition(ScVe(x, quoted), quoted) /\ Earned(ScVe(x, quoted).yield)
  BY <1>4, <1>5, ListsWorth, Zenon DEF ScVe
<1>12. ExactPosition(ScEmpty(x, y, quoted), quoted) /\ Earned(ScEmpty(x, y, quoted).yield)
  BY <1>2, <1>3, ListsWorth, Zenon DEF ScEmpty
<1> QED
  BY <1>6, <1>7, <1>8, <1>9, <1>10, <1>11, <1>12

\* Two rows of digits of the same length are compared digit by digit.
LEMMA DigitByDigit ==
  ASSUME NEW s \in Seq(Nat), NEW t \in Seq(Nat), Len(s) = Len(t)
  PROVE  /\ Len(s) = 1 => (AtMost(s, t) <=> s[1] = t[1] \/ s[1] < t[1])
         /\ Len(s) = 2 => (AtMost(s, t) <=> \/ s[1] = t[1] /\ s[2] = t[2]
                                            \/ s[1] < t[1]
                                            \/ s[1] = t[1] /\ s[2] < t[2])
         /\ Len(s) = 3 => (AtMost(s, t) <=> \/ s[1] = t[1] /\ s[2] = t[2] /\ s[3] = t[3]
                                            \/ s[1] < t[1]
                                            \/ s[1] = t[1] /\ s[2] < t[2]
                                            \/ s[1] = t[1] /\ s[2] = t[2] /\ s[3] < t[3])
<1> DEFINE Same(k)  == \A i \in 1 .. k : s[i] = t[i]
           Less(k)  == \E i \in 1 .. k : s[i] < t[i] /\ Same(i - 1)
<1>1. AtMost(s, t) <=> Same(Len(s)) \/ Less(Len(s))
  <2>1. DOMAIN s = 1 .. Len(s) /\ DOMAIN t = 1 .. Len(s) /\ Len(s) <= Len(t)
    OBVIOUS
  <2> QED
    BY <2>1, Zenon DEF AtMost
<1>2. /\ Same(0) /\ (Same(1) <=> s[1] = t[1])
      /\ Same(2) <=> s[1] = t[1] /\ s[2] = t[2]
      /\ Same(3) <=> s[1] = t[1] /\ s[2] = t[2] /\ s[3] = t[3]
  <2>1. /\ \A i : i \notin 1 .. 0
        /\ \A i : i \in 1 .. 1 <=> i = 1
        /\ \A i : i \in 1 .. 2 <=> i = 1 \/ i = 2
        /\ \A i : i \in 1 .. 3 <=> i = 1 \/ i = 2 \/ i = 3
    OBVIOUS
  <2> QED
    BY <2>1
<1> HIDE DEF Same
<1>3. /\ Less(1) <=> s[1] < t[1] /\ Same(0)
      /\ Less(2) <=> (s[1] < t[1] /\ Same(0)) \/ (s[2] < t[2] /\ Same(1))
      /\ Less(3) <=> \/ s[1] < t[1] /\ Same(0)
                     \/ s[2] < t[2] /\ Same(1)
                     \/ s[3] < t[3] /\ Same(2)
  <2>1. /\ 1 - 1 = 0 /\ 2 - 1 = 1 /\ 3 - 1 = 2
        /\ \A i : i \in 1 .. 1 <=> i = 1
        /\ \A i : i \in 1 .. 2 <=> i = 1 \/ i = 2
        /\ \A i : i \in 1 .. 3 <=> i = 1 \/ i = 2 \/ i = 3
    OBVIOUS
  <2> QED
    BY <2>1
<1> HIDE DEF Less
<1> QED
  BY <1>1, <1>2, <1>3

\* So digits of the same length are in the order of the numbers.
LEMMA DigitsOrder ==
  ASSUME NEW m \in 0 .. 999, NEW n \in 0 .. 999, Len(Digits(m)) = Len(Digits(n))
  PROVE  AtMost(Digits(m), Digits(n)) <=> m <= n
<1> DEFINE One(d)   == Len(Digits(d)) = 1 /\ d = Digits(d)[1]
           Two(d)   == Len(Digits(d)) = 2 /\ \E a \in Nat : \E c \in 0 .. 9 :
                         Digits(d)[1] = a /\ Digits(d)[2] = c /\ d = 10 * a + c
           Three(d) == Len(Digits(d)) = 3 /\ \E a \in Nat : \E c \in 0 .. 9 : \E e \in 0 .. 9 :
                         /\ Digits(d)[1] = a /\ Digits(d)[2] = c /\ Digits(d)[3] = e
                         /\ d = 100 * a + 10 * c + e
<1>1. ASSUME NEW d \in 0 .. 999
      PROVE  Digits(d) \in Seq(Nat) /\ (One(d) \/ Two(d) \/ Three(d))
  <2> DEFINE d1 == d \div 100  d2 == d \div 10  d3 == d % 10  d4 == (d \div 10) % 10
  <2>1. d1 \in Nat /\ d2 \in Nat /\ d3 \in 0 .. 9 /\ d4 \in 0 .. 9 /\ d = 10 * d2 + d3 /\ d2 = 10 * d1 + d4
    OBVIOUS
  <2>2. Digits(d) = CASE d < 10 -> <<d>> [] d \in 10 .. 99 -> <<d2, d3>> [] OTHER -> <<d1, d4, d3>>
    BY DEF Digits
  <2> HIDE DEF d1, d2, d3, d4
  <2>3. Digits(d) = <<d>> \/ Digits(d) = <<d2, d3>> \/ Digits(d) = <<d1, d4, d3>>
    BY <2>2
  <2>4. CASE Digits(d) = <<d>>
    <3>1. <<d>> \in Seq(Nat) /\ Len(<<d>>) = 1 /\ <<d>>[1] = d
      OBVIOUS
    <3> QED
      BY <2>4, <3>1 DEF One
  <2>5. CASE Digits(d) = <<d2, d3>>
    <3>1. <<d2, d3>> \in Seq(Nat) /\ Len(<<d2, d3>>) = 2 /\ <<d2, d3>>[1] = d2 /\ <<d2, d3>>[2] = d3
      BY <2>1
    <3>2. /\ Digits(d) \in Seq(Nat) /\ Len(Digits(d)) = 2 /\ Digits(d)[1] = d2
          /\ Digits(d)[2] = d3
      BY <2>5, <3>1
    <3>3. \E a \in Nat : \E c \in 0 .. 9 : Digits(d)[1] = a /\ Digits(d)[2] = c /\ d = 10 * a + c
      BY <2>1, <3>2
    <3> QED
      BY <3>2, <3>3, Zenon DEF Two
  <2>6. CASE Digits(d) = <<d1, d4, d3>>
    <3>1. /\ <<d1, d4, d3>> \in Seq(Nat) /\ Len(<<d1, d4, d3>>) = 3 /\ <<d1, d4, d3>>[1] = d1
          /\ <<d1, d4, d3>>[2] = d4 /\ <<d1, d4, d3>>[3] = d3
      BY <2>1
    <3>2. /\ Digits(d) \in Seq(Nat) /\ Len(Digits(d)) = 3 /\ Digits(d)[1] = d1
          /\ Digits(d)[2] = d4 /\ Digits(d)[3] = d3
      BY <2>6, <3>1
    <3>3. d = 100 * d1 + 10 * d4 + d3
      BY <2>1
    <3> QED
      <4>1. d1 \in Nat /\ d4 \in 0 .. 9 /\ d3 \in 0 .. 9
        BY <2>1
      <4>2. \E a \in Nat : \E c \in 0 .. 9 : \E e \in 0 .. 9 :
              /\ Digits(d)[1] = a /\ Digits(d)[2] = c /\ Digits(d)[3] = e
              /\ d = 100 * a + 10 * c + e
        BY <3>2, <3>3, <4>1
      <4>3. Three(d)
        BY <3>2, <4>2, Zenon
      <4> QED
        BY <3>2, <4>3, Zenon
  <2> QED
    BY <2>3, <2>4, <2>5, <2>6, Zenon
<1>9. \A d : /\ One(d) => Len(Digits(d)) = 1 /\ d = Digits(d)[1]
             /\ Two(d) => Len(Digits(d)) = 2
             /\ Three(d) => Len(Digits(d)) = 3
  OBVIOUS
<1> HIDE DEF One, Two, Three
<1>10. /\ One(m) \/ Two(m) \/ Three(m)
       /\ One(n) \/ Two(n) \/ Three(n)
  BY <1>1, Zenon
<1>11. /\ One(m) => One(n) /\ Len(Digits(m)) = 1
       /\ Two(m) => Two(n) /\ Len(Digits(m)) = 2
       /\ Three(m) => Three(n) /\ Len(Digits(m)) = 3
  <2>1. /\ One(n) => Len(Digits(n)) = 1
        /\ Two(n) => Len(Digits(n)) = 2
        /\ Three(n) => Len(Digits(n)) = 3
    BY <1>9, Zenon
  <2>2. /\ One(m) => Len(Digits(m)) = 1
        /\ Two(m) => Len(Digits(m)) = 2
        /\ Three(m) => Len(Digits(m)) = 3
    BY <1>9, Zenon
  <2>3. 1 # 2 /\ 1 # 3 /\ 2 # 3 /\ 2 # 1 /\ 3 # 1 /\ 3 # 2
    OBVIOUS
  <2>4. One(m) => ~Two(n) /\ ~Three(n)
    BY <2>1, <2>2, <2>3, Zenon
  <2>5. Two(m) => ~One(n) /\ ~Three(n)
    BY <2>1, <2>2, <2>3, Zenon
  <2>6. Three(m) => ~Two(n) /\ ~One(n)
    BY <2>1, <2>2, <2>3, Zenon
  <2> QED
    BY <1>10, <2>2, <2>4, <2>5, <2>6, Zenon
<1> DEFINE s == Digits(m)
           t == Digits(n)
<1>2. s \in Seq(Nat) /\ t \in Seq(Nat) /\ Len(s) = Len(t)
  BY <1>1, Zenon
<1>3. CASE One(m)
  <2>1. Len(s) = 1 /\ m = s[1] /\ n = t[1]
    BY <1>3, <1>9, <1>11, Zenon
  <2>2. AtMost(s, t) <=> s[1] = t[1] \/ s[1] < t[1]
    BY <1>2, <2>1, DigitByDigit
  <2> HIDE DEF s, t
  <2>3. AtMost(s, t) <=> m <= n
    BY <2>1, <2>2
  <2> QED
    BY <2>3 DEF s, t
<1>4. CASE Two(m)
  <2>1. Len(s) = 2 /\ Two(n)
    BY <1>4, <1>11, Zenon
  <2>2. PICK a \in Nat, c \in 0 .. 9 : s[1] = a /\ s[2] = c /\ m = 10 * a + c
    BY <1>4 DEF Two
  <2>3. PICK b \in Nat, d \in 0 .. 9 : t[1] = b /\ t[2] = d /\ n = 10 * b + d
    BY <2>1 DEF Two
  <2>4. AtMost(s, t) <=> \/ s[1] = t[1] /\ s[2] = t[2]
                         \/ s[1] < t[1]
                         \/ s[1] = t[1] /\ s[2] < t[2]
    BY <1>2, <2>1, DigitByDigit
  <2> HIDE DEF s, t
  <2>5. AtMost(s, t) <=> (a = b /\ c = d) \/ a < b \/ (a = b /\ c < d)
    BY <2>2, <2>3, <2>4
  <2>6. (a = b /\ c = d) \/ a < b \/ (a = b /\ c < d) <=> m <= n
    BY <2>2, <2>3
  <2> QED
    BY <2>5, <2>6 DEF s, t
<1>5. CASE Three(m)
  <2>1. Len(s) = 3 /\ Three(n)
    BY <1>5, <1>11, Zenon
  <2>2. PICK a \in Nat, c \in 0 .. 9, e \in 0 .. 9 :
          s[1] = a /\ s[2] = c /\ s[3] = e /\ m = 100 * a + 10 * c + e
    BY <1>5 DEF Three
  <2>3. PICK b \in Nat, d \in 0 .. 9, f \in 0 .. 9 :
          t[1] = b /\ t[2] = d /\ t[3] = f /\ n = 100 * b + 10 * d + f
    BY <2>1 DEF Three
  <2>4. AtMost(s, t) <=> \/ s[1] = t[1] /\ s[2] = t[2] /\ s[3] = t[3]
                         \/ s[1] < t[1]
                         \/ s[1] = t[1] /\ s[2] < t[2]
                         \/ s[1] = t[1] /\ s[2] = t[2] /\ s[3] < t[3]
    BY <1>2, <2>1, DigitByDigit
  <2> HIDE DEF s, t
  <2>5. AtMost(s, t) <=> \/ a = b /\ c = d /\ e = f
                         \/ a < b
                         \/ a = b /\ c < d
                         \/ a = b /\ c = d /\ e < f
    BY <2>2, <2>3, <2>4
  <2>6. \/ a = b /\ c = d /\ e = f
        \/ a < b
        \/ a = b /\ c < d
        \/ a = b /\ c = d /\ e < f
        <=> m <= n
    BY <2>2, <2>3
  <2> QED
    BY <2>5, <2>6 DEF s, t
<1> QED
  BY <1>10, <1>3, <1>4, <1>5, Zenon

\* What isInRange says of a price.
LEMMA RangesOrdered == RangesRight
<1> SUFFICES ASSUME NEW price \in SqrtPrice, NEW lower \in SqrtPrice, NEW upper \in SqrtPrice
             PROVE  RangeIsRight(price, [lower |-> lower, upper |-> upper])
  BY Zenon DEF RangesRight
<1> DEFINE range == [lower |-> lower, upper |-> upper]
<1>1. range.lower = lower /\ range.upper = upper
  OBVIOUS
<1> DEFINE Few == 0 .. 999
<1>2. price \in Few /\ lower \in Few /\ upper \in Few
  BY PositionAssumption
<1>3. \A m \in Few : \A n \in Few :
        Len(Digits(m)) = Len(Digits(n)) => (AtMost(Digits(m), Digits(n)) <=> m <= n)
  BY DigitsOrder, Zenon
<1> HIDE DEF range, Few
<1>4. ASSUME Len(Digits(lower)) = Len(Digits(upper)), Len(Digits(price)) = Len(Digits(lower))
      PROVE  IsInRange(price, range) <=> lower <= price /\ price <= upper
  <2>1. /\ Len(Digits(lower)) = Len(Digits(price))
        /\ Len(Digits(price)) = Len(Digits(upper))
    BY <1>4, Zenon
  <2>2. /\ AtMost(Digits(lower), Digits(price)) <=> lower <= price
        /\ AtMost(Digits(price), Digits(upper)) <=> price <= upper
    BY <1>2, <1>3, <2>1, Zenon
  <2> QED
    BY <1>1, <2>2, Zenon DEF IsInRange
<1>5. RangeIsRight(price, range)
  BY <1>1, <1>4, Zenon DEF RangeIsRight
<1> QED
  BY <1>5 DEF range

\* The positions of navi: all that was lent, each coin by nine decimals.
LEMMA LoansListed ==
  ASSUME NEW quoted \in AnyQuotes
  PROVE  LendingsWorth(quoted)
<1> SUFFICES ASSUME NEW lent \in SUBSET Coin, NEW borrowed \in SUBSET Coin
             PROVE  /\ LentIsListed(lent, NaPositions(lent, borrowed, quoted))
                    /\ \A q \in NaPositions(lent, borrowed, quoted) :
                          \A f \in q.input \cup q.current : Scaled(f, TRUE, quoted)
  BY Zenon DEF LendingsWorth
<1> DEFINE lendings == {NaLending(c, quoted) : c \in lent}
           borrowings == {NaBorrowing(c, lendings, quoted) : c \in borrowed}
<1>1. /\ borrowed = {} => NaPositions(lent, borrowed, quoted) = lendings
      /\ borrowed # {} => NaPositions(lent, borrowed, quoted) = borrowings
  BY Zenon DEF NaPositions
<1>2. ASSUME NEW c \in Coin
      PROVE  /\ NaLending(c, quoted).input = {Zero(c, quoted)}
             /\ NaLending(c, quoted).current = {NaAmount(c, "x", quoted)}
             /\ NaAmount(c, "x", quoted).coin = c
             /\ NaBorrowing(c, lendings, quoted).input = UNION {l.current : l \in lendings}
             /\ NaBorrowing(c, lendings, quoted).current = {NaAmount(c, "y", quoted)}
  BY DEF NaLending, NaBorrowing, NaAmount, Holding, Entry
<1>3. ASSUME NEW c \in Coin
      PROVE  /\ Scaled(Zero(c, quoted), TRUE, quoted) /\ Scaled(NaAmount(c, "x", quoted), TRUE, quoted)
             /\ Scaled(NaAmount(c, "y", quoted), TRUE, quoted)
  <2>1. /\ Exact({Zero(c, quoted)}, quoted) /\ Nine({NaAmount(c, "x", quoted)}, quoted)
        /\ Nine({NaAmount(c, "y", quoted)}, quoted)
    BY EntriesExact, Zenon
  <2>2. Nine({Zero(c, quoted)}, quoted)
    BY <2>1, ListsJoined, Zenon
  <2> QED
    BY <2>1, <2>2, Zenon DEF Nine
<1> DEFINE held == UNION {l.current : l \in lendings}
<1>4. /\ \A c \in lent : NaAmount(c, "x", quoted) \in held
      /\ \A f \in held : \E c \in lent : f = NaAmount(c, "x", quoted)
  BY <1>2
<1> HIDE DEF lendings
<1>5. CASE borrowed = {}
  <2>1. \A q \in lendings : \E c \in lent : q = NaLending(c, quoted)
    BY DEF lendings
  <2>2. \A q \in lendings : \A f \in q.input \cup q.current : Scaled(f, TRUE, quoted)
    <3> SUFFICES ASSUME NEW q \in lendings, NEW f \in q.input \cup q.current
                 PROVE  Scaled(f, TRUE, quoted)
      OBVIOUS
    <3>1. PICK c \in lent : q = NaLending(c, quoted)
      BY <2>1
    <3>2. c \in Coin
      OBVIOUS
    <3>3. f = Zero(c, quoted) \/ f = NaAmount(c, "x", quoted)
      BY <1>2, <3>1, <3>2
    <3> QED
      BY <1>3, <3>2, <3>3
  <2>3. LentIsListed(lent, lendings)
    <3> SUFFICES ASSUME NEW c \in lent
                 PROVE  \E q \in lendings : \E f \in q.input \cup q.current : f.coin = c
      BY DEF LentIsListed
    <3>1. NaLending(c, quoted) \in lendings
      BY DEF lendings
    <3> QED
      BY <1>2, <3>1
  <2> QED
    BY <1>1, <1>5, <2>2, <2>3, Zenon
<1>6. CASE borrowed # {}
  <2>1. \A q \in borrowings : \A f \in q.input \cup q.current : Scaled(f, TRUE, quoted)
    <3> SUFFICES ASSUME NEW q \in borrowings, NEW f \in q.input \cup q.current
                 PROVE  Scaled(f, TRUE, quoted)
      OBVIOUS
    <3>1. PICK c \in borrowed : q = NaBorrowing(c, lendings, quoted)
      OBVIOUS
    <3>2. f = NaAmount(c, "y", quoted) \/ \E d \in lent : f = NaAmount(d, "x", quoted)
      BY <1>2, <1>4, <3>1
    <3> QED
      BY <1>3, <3>2
  <2>2. LentIsListed(lent, borrowings)
    <3> SUFFICES ASSUME NEW c \in lent
                 PROVE  \E q \in borrowings : \E f \in q.input \cup q.current : f.coin = c
      BY DEF LentIsListed
    <3>1. PICK d \in borrowed : TRUE
      BY <1>6
    <3>2. NaBorrowing(d, lendings, quoted) \in borrowings
      OBVIOUS
    <3> QED
      BY <1>2, <1>4, <3>2
  <2> QED
    BY <1>1, <1>6, <2>1, <2>2, Zenon
<1> QED
  BY <1>5, <1>6

\* A position with lists like these is worth what it says.
LEMMA WorthOfLists ==
  ASSUME NEW k, NEW p, NEW h, NEW quoted
  PROVE  /\ ExactPosition(h, quoted) \/ (k \in NinePlaces /\ NinePosition(h, quoted)) =>
              \A f \in h.input \cup h.current \cup h.yield : Scaled(f, k \in NinePlaces, quoted)
         /\ Earned(h.yield) \/ <<k, p>> = <<"ScCoin", "wallet">> => YieldIsEarned(k, p, h)
  BY Zenon DEF ExactPosition, NinePosition, Exact, Nine, Earned, Scaled, YieldIsEarned

\* Whatever a holding is, wherever it is, in whatever coins, at whatever prices.
LEMMA HoldingsWorth ==
  ASSUME NEW k \in HoldingKind \ {"Navi"}, NEW p \in Guises(k), NEW quoted \in AnyQuotes
  PROVE  PositionWorth(k, p, quoted)
<1> SUFFICES ASSUME NEW x \in Coin, NEW y \in Coin
             PROVE  LET h == PositionOf(k, p, x, y, quoted)
                    IN  /\ \A f \in h.input \cup h.current \cup h.yield :
                              Scaled(f, k \in NinePlaces, quoted)
                        /\ YieldIsEarned(k, p, h)
  BY Zenon DEF PositionWorth
<1> DEFINE h == PositionOf(k, p, x, y, quoted)
<1>1. k \in {"AmPool", "CePool", "KrPool", "ScCoin", "CeVe", "ScVe", "ScDebt", "Stake"}
  BY DEF HoldingKind
<1>2. CASE k = "AmPool"
  <2>1. h = AmFarm(x, y, quoted) \/ h = AmPool(x, y, quoted)
    BY <1>2 DEF PositionOf
  <2> QED
    BY <2>1, PoolsExact, WorthOfLists
<1>3. CASE k = "KrPool"
  <2>1. h = KrFarm(x, y, quoted) \/ h = KrPool(x, y, quoted)
    BY <1>3 DEF PositionOf
  <2> QED
    BY <2>1, PoolsExact, WorthOfLists
<1>4. CASE k = "CePool"
  <2>1. h = CePool(x, y, quoted, TRUE) \/ h = CePool(x, y, quoted, FALSE)
    BY <1>4 DEF PositionOf
  <2> QED
    BY <2>1, PoolsExact, WorthOfLists
<1>5. CASE k = "ScCoin"
  <2>1. p \in {"wallet", "staked", "empty"}
    BY <1>5 DEF Guises, PlacesOf, Place
  <2>2. \/ h = ScStaking(x, y, quoted) \/ h = ScEmpty(x, y, quoted)
        \/ h = ScLending(x, quoted) /\ <<k, p>> = <<"ScCoin", "wallet">>
    BY <1>5, <2>1 DEF PositionOf
  <2> QED
    BY <2>2, LoansExact, WorthOfLists
<1>6. CASE k = "CeVe"
  <2>1. h = CeVe(x, y, quoted) /\ k \in NinePlaces
    BY <1>6 DEF PositionOf, NinePlaces
  <2> QED
    BY <2>1, LoansExact, WorthOfLists
<1>7. CASE k = "ScVe"
  <2>1. h = ScVe(x, quoted) /\ k \in NinePlaces
    BY <1>7 DEF PositionOf, NinePlaces
  <2> QED
    BY <2>1, LoansExact, WorthOfLists
<1>8. CASE k = "ScDebt"
  <2>1. h = ScObligation(x, y, quoted)
    BY <1>8 DEF PositionOf
  <2> QED
    BY <2>1, LoansExact, WorthOfLists
<1>9. CASE k = "Stake"
  <2>1. h = Stake(x, quoted)
    BY <1>9 DEF PositionOf
  <2> QED
    BY <2>1, LoansExact, WorthOfLists
<1> QED
  BY <1>1, <1>2, <1>3, <1>4, <1>5, <1>6, <1>7, <1>8, <1>9

\* So it is of every kind and place.
LEMMA AllWorth ==
  ASSUME NEW k \in HoldingKinds, NEW p \in Guises(k)
  PROVE  Worth[k][p]
<1>1. k \in HoldingKind
  BY PositionAssumption
<1>2. ASSUME NEW quoted \in AnyQuotes
      PROVE  IF k = "Navi" THEN LendingsWorth(quoted) ELSE PositionWorth(k, p, quoted)
  BY <1>1, HoldingsWorth, LoansListed, Zenon
<1> QED
  BY <1>2, RangesOrdered, Zenon DEF Worth

\* Every answer says what its positions are worth: the amounts next to prices
\* by the decimals of their coins, yields that were earned, every coin lent to
\* navi, and the ranges of cetus by the order of numbers, but for the exceptions
\* that Scaled, YieldIsEarned and RangeIsRight name.
THEOREM AnswersWorth == PositionSpec => []PositionsWorth
<1>1. PositionInv => PositionsWorth
  <2> SUFFICES ASSUME PositionInv, NEW r \in Request, NEW p \in answer[r].shown
               PROVE  Worth[kind][p]
    BY DEF PositionsWorth
  <2>1. kind \in HoldingKinds /\ p \in Guises(kind)
    BY DEF PositionInv, PositionTyped, AnswerRecord
  <2> QED
    BY <2>1, AllWorth
<1> QED
  BY <1>1, PositionInvInit, PositionStep, PTL DEF PositionSpec

\* The bounds are kept.
PositionCounted == moves \in 0 .. MaxMoves /\ defects \in 0 .. MaxDefects

LEMMA PositionCountedStep == PositionCounted /\ [PositionNext]_positionVars => PositionCounted'
<1> SUFFICES ASSUME PositionCounted, [PositionNext]_positionVars
             PROVE  PositionCounted'
  OBVIOUS
<1>0. MaxMoves \in Nat /\ MaxDefects \in Nat
  BY PositionAssumption
<1>1. moves' = moves \/ (moves < MaxMoves /\ moves' = moves + 1)
  BY DEF PositionNext, RequestStep, positionVars, holdingVars, AskPositions, GetCache, ReadPage,
         SetEntry, ExpireEntry, Refuse, LookUp, AnswerPositions, FetchFails, OtherListFails,
         LookUpFails, ServerStops, MoveHolding, Pass
<1>2. defects' = defects \/ SpendDefect
  BY DEF PositionNext, RequestStep, positionVars, AskPositions, GetCache, ReadPage,
         SetEntry, ExpireEntry, Refuse, LookUp, AnswerPositions, FetchFails, OtherListFails,
         LookUpFails, ServerStops, MoveHolding, Pass
<1> QED
  BY <1>0, <1>1, <1>2 DEF PositionCounted, SpendDefect

\* Whatever the kind, the requests and the faults, the server's state has its type.
LEMMA PositionTypes == PositionInv /\ PositionCounted => PositionTypeOK
<1> SUFFICES ASSUME PositionInv, PositionCounted PROVE PositionTypeOK
  OBVIOUS
<1>1. PositionTyped
  BY DEF PositionInv
<1>2. page \in {"page1", "page2"} /\ still \in 0 .. LongAgo
  BY <1>1, PositionAssumption DEF PositionTyped, Pages, LongAgo
<1>3. redis.shows \subseteq PlacesOf(kind) /\ redis.ttl \in 0 .. Unlimited /\ redis.orphan \in BOOLEAN
  BY <1>1 DEF PositionTyped, EntryRecord
<1>4. ASSUME NEW r \in Request
      PROVE  /\ At(r) \in {"get", "page1", "page2", "set", "expire", "end", "failed"}
             /\ fetch[r].shows \subseteq PlacesOf(kind) /\ fetch[r].orphan \in BOOLEAN
             /\ answer[r].shown \subseteq Guises(kind)
             /\ answer[r].why \in {"none", "context", "call", "idle"}
  <2>1. fetch[r] \in FetchRecord /\ answer[r] \in AnswerRecord
    BY <1>1 DEF PositionTyped
  <2> QED
    BY <2>1 DEF At, FetchRecord, AnswerRecord, Steps
<1> QED
  BY <1>1, <1>2, <1>3, <1>4 DEF PositionTyped, PositionCounted, PositionTypeOK, Stages

(***************************************************************************)
(* Type correctness of the server of defi.                                 *)
(***************************************************************************)
THEOREM PositionTypeCorrect == PositionSpec => []PositionTypeOK
<1>1. PositionInit => PositionCounted
  BY PositionAssumption DEF PositionInit, PositionCounted
<1> QED
  BY <1>1, PositionInvInit, PositionStep, PositionCountedStep, PositionTypes, PTL DEF PositionSpec

-----------------------------------------------------------------------------
(***************************************************************************)
(* Whichever part a behaviour of MCIngest is about, the caches, the live   *)
(* process of defi and its server all keep their types.                    *)
(***************************************************************************)
THEOREM IngestTypeCorrect == MCSpec => []IngestTypeOK
  <1>1. MCInit => CacheInit /\ DefiInit /\ PositionInit
    BY Zenon DEF MCInit
  <1>2. [MCNext]_mcVars => /\ [CacheNext]_cacheVars /\ [DefiNext]_defiVars
                           /\ [PositionNext]_positionVars
    BY Zenon DEF MCNext, Cache, Defi, Positions, mcVars
  <1>3. MCSpec => CacheInit /\ [][CacheNext]_cacheVars
    BY <1>1, <1>2, PTL DEF MCSpec
  <1>4. MCSpec => []CacheTypeOK
    BY <1>3, CacheStrongInit, CacheStrongStep, CacheTypes, PTL
  <1>5. MCSpec => DefiSpec /\ PositionSpec
    BY <1>1, <1>2, PTL DEF MCSpec, DefiSpec, PositionSpec
  <1>6. QED BY <1>4, <1>5, DefiTypeCorrect, PositionTypeCorrect, PTL DEF IngestTypeOK

=============================================================================
