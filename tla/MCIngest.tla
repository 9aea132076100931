------------------------------ MODULE MCIngest ------------------------------
(***************************************************************************)
(* The handlers of sui-ingest for TLC: what the handlers of both processes *)
(* learn about pools and tokens (TokenPoolCache), what the live process of *)
(* defi makes of its topic (DefiIngest), or what its server answers about  *)
(* an owner's positions (PositionServer).  These share no state; part      *)
(* tells which of them a behaviour is about.                               *)
(***************************************************************************)
EXTENDS TokenPoolCache, DefiIngest, PositionServer, TLC

CONSTANTS tokenA, tokenB, noToken, p1, p2, w1, w2, c0, c6

VARIABLE part

-----------------------------------------------------------------------------
\* tokenA has 6 decimals and an address that begins with 0, tokenB has none.
PoolTokens    == p1 :> <<tokenA, tokenB>> @@ p2 :> <<tokenB, tokenA>>
TokenDecimals == tokenA :> 6 @@ tokenB :> 0 @@ noToken :> 0

Handling(s, protocol, p, d) ==
  [service |-> s, event |-> [protocol |-> protocol, pool |-> p, aToB |-> d]]

\* Both processes at one pool, a pool traded in both directions, and two
\* pools of the same tokens.
TwoTasks ==
  {w1 :> Handling("swap", q, p1, TRUE) @@ w2 :> Handling("defi", q, p1, TRUE) :
     q \in DefiProtocol}
  \cup {w1 :> Handling("swap", q, p1, TRUE) @@ w2 :> Handling("swap", q, p1, FALSE) :
     q \in Protocol}
  \cup {w1 :> Handling("swap", "Aftermath", p1, TRUE) @@ w2 :> Handling("defi", "Cetus", p2, TRUE)}

EachDecimals == c6 :> 6 @@ c0 :> 0

OnTopic(block, k, x, y) == [tx |-> block, block |-> block, kind |-> k, x |-> x, y |-> y]

\* Pairs of kinds: every kind occurs, and those of navi in every way that its
\* lookup tells apart.
Pairs ==
  {<<"AmAdd", "AmRemove">>, <<"AmStake", "AmUnstake">>, <<"AmReward", "CeReward">>,
   <<"BmAdd", "BmRemove">>, <<"CeOpen", "CeAdd">>, <<"CeRemove", "CeFee">>,
   <<"CeClose", "CeStakeLP">>, <<"CeMint", "CeRedeem">>, <<"CeUnstakeLP", "KrClaim">>,
   <<"FxAdd", "FxRemove">>, <<"KrAdd", "KrRemove">>, <<"KrStake", "KrUnstake">>,
   <<"ScStake", "ScUnstake">>, <<"ScMint", "ScRedeem">>, <<"ScCollateral", "ScWithdraw">>,
   <<"ScBorrow", "ScRepay">>, <<"ScReward", "ScIncentive">>, <<"ScVeStake", "StStake">>,
   <<"SsAdded", "SsRemoved">>, <<"TuMint", "TuBurn">>, <<"TuCollect0", "TuCollect1">>,
   <<"NaMint", "NaBorrow">>, <<"NaWithdraw", "NaRepay">>}
  \cup (Deposits \X Deposits) \cup (Withdraws \X Withdraws)

\* Both events of one transaction; and an early event before one that is not.
Transactions ==
  {<<OnTopic(2, pair[1], c6, c0), OnTopic(2, pair[2], c0, c6)>> : pair \in Pairs}
  \cup {<<OnTopic(1, "StStake", c6, c0), OnTopic(2, "StUnstake", c6, c0)>>}

-----------------------------------------------------------------------------
\* The parts that have no turn begin with one of their initial states.
MCInit ==
  /\ part \in {"cache", "defi", "positions"}
  /\ CacheInit /\ (part # "cache" => task = CHOOSE mix \in Mixes : TRUE)
  /\ DefiInit  /\ (part # "defi" => topic = CHOOSE t \in Topics : TRUE)
  /\ PositionInit /\ (part # "positions" => kind = "Stake")

Cache(A) == part = "cache" /\ A /\ UNCHANGED <<part, defiVars, positionVars>>
\* The consumer treats events of all kinds alike: it has faults of its own where
\* one event comes early, and where one leaves no row.  Guesses are made
\* everywhere.
Faulty == {t \in Topics : t[1].kind \in {"StStake", "ScBorrow"}}

Defi(A) ==
  /\ part = "defi" /\ A
  /\ topic \in Faulty \/ losses' = losses \/ guesses' # guesses
  /\ UNCHANGED <<part, cacheVars, positionVars>>

\* Holdings that move from one place to another on one list, and between a list
\* and a call.  The others stay where they are, and are read in the same ways.
Moving == {"KrPool", "ScCoin"}

\* Those for which calls fail and the process stops: of a list of one page, and of two.
Failing == {"ScCoin", "CePool"}

Positions(A) ==
  /\ part = "positions" /\ A
  /\ moves' = moves \/ kind \in Moving
  /\ defects' = defects \/ kind \in Failing
  /\ UNCHANGED <<part, cacheVars, defiVars>>

MCNext == Cache(CacheNext) \/ Defi(DefiNext) \/ Positions(PositionNext)

mcVars == <<part, cacheVars, defiVars, positionVars>>

\* CacheFairness, where it is the caches' turn.
MCSpec ==
  /\ MCInit /\ [][MCNext]_mcVars
  /\ \A s \in Service : WF_mcVars(Cache(Prepare(s)))
  /\ \A t \in Task : /\ WF_mcVars(Cache(TaskStep(t)))
                     /\ \A k \in {1, 2} : WF_mcVars(Cache(AnswerStep(t, k)))

\* Type correctness of all parts.
IngestTypeOK == CacheTypeOK /\ DefiTypeOK /\ PositionTypeOK

\* The handlers of the cache part end, with a row or without.
HandlersEndHere == part = "cache" => HandlersEnd

=============================================================================
