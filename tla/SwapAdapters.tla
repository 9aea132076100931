---------------------------- MODULE SwapAdapters ----------------------------
(***************************************************************************)
(* sui-ingest/swap/src/protocols: from the event of a swap to its trade.   *)
(*                                                                         *)
(* A swap moves two tokens: the token at place 1 of its pool and the token *)
(* at place 2, one of them paid and the other received.  An amount is the  *)
(* place of the token it is an amount of, None if the event gives 0.       *)
(*                                                                         *)
(* The address of a token is a pair: the token, and whether the spelling   *)
(* has the leading zeros that some addresses have.                         *)
(***************************************************************************)
EXTENDS Integers

CONSTANTS
  Token,   \* the tokens
  Padded,  \* those whose address begins with a zero
  Pool,    \* the pools
  Tokens,  \* the two tokens of each pool, which differ
  NoToken  \* the empty address

ASSUME AdapterAssumption ==
  /\ Padded \subseteq Token
  /\ Tokens \in [Pool -> Token \X Token]
  /\ \A p \in Pool : Tokens[p][1] # Tokens[p][2]
  /\ NoToken \in Token \ Padded /\ \A p \in Pool : NoToken \notin {Tokens[p][1], Tokens[p][2]}

None == 0

\* The protocols that look the pool up by its id, and those whose events (or
\* whose pool object, read each time) tell the tokens.
PoolProtocol  == {"Cetus", "Turbos", "Kriya"}
TokenProtocol == {"FlowXV2", "FlowXV3", "Aftermath", "AftermathV2", "BlueMove", "SuiSwap"}
Protocol      == PoolProtocol \cup TokenProtocol

\* What happened: which pool, and whether token 1 was paid.
Swap == [protocol : Protocol, pool : Pool, aToB : BOOLEAN]

Paid(s)     == IF s.aToB THEN 1 ELSE 2
Received(s) == 3 - Paid(s)

\* The tokens as an adapter gets to know them.  FlowXV3 asks the node for the
\* content of the pool only (flowX.ts:136) and then reads its type, which the
\* answer does not have: parsePoolToken makes two empty addresses of that.
TokensOf(s) == IF s.protocol = "FlowXV3" THEN <<NoToken, NoToken>> ELSE Tokens[s.pool]

-----------------------------------------------------------------------------
(***************************************************************************)
(* Addresses.                                                              *)
(***************************************************************************)
\* As the chain spells it in types and events.
Spelled(t) == <<t, t \in Padded>>

NormalizedTokenAddress(ca) == <<ca[1], FALSE>>

-----------------------------------------------------------------------------
(***************************************************************************)
(* The fields of the events that differ from protocol to protocol.         *)
(***************************************************************************)
AmountIn(s)    == Paid(s)       \* amount_in, in_amount, amounts_in[0]
AmountOut(s)   == Received(s)   \* amount_out, out_amount, amounts_out[0]
AmountXIn(s)   == IF s.aToB THEN 1 ELSE None
AmountYIn(s)   == IF s.aToB THEN None ELSE 2
AmountXOut(s)  == IF s.aToB THEN None ELSE 1
AmountYOut(s)  == IF s.aToB THEN 2 ELSE None
TypeWrapped(s) == Spelled(Tokens[s.pool][Paid(s)])  \* in the type of a Kriya event

(***************************************************************************)
(* What all adapters end with.  info has the addresses and the decimals of *)
(* the tokens at both places.                                              *)
(***************************************************************************)
\* Variant: quantities are converted with the decimals of the other token.
DirectedCrossed(isFromA, amountIn, amountOut, info) ==
  LET from == IF isFromA THEN 1 ELSE 2
      to   == 3 - from
  IN [from |-> info.token[from], to |-> info.token[to],
      in |-> <<amountIn, info.decimals[to]>>, out |-> <<amountOut, info.decimals[from]>>]

Directed(isFromA, amountIn, amountOut, info) ==
  LET from == IF isFromA THEN 1 ELSE 2
      to   == 3 - from
  IN [from |-> info.token[from], to |-> info.token[to],
      in |-> <<amountIn, info.decimals[from]>>, out |-> <<amountOut, info.decimals[to]>>]

Cetus(s, info) == Directed(s.aToB, AmountIn(s), AmountOut(s), info)

\* amount_a and amount_b are the amounts of the tokens at their places.
Turbos(s, info) == IF s.aToB THEN Directed(TRUE, 1, 2, info)
                             ELSE Directed(FALSE, 2, 1, info)

\* The type of the event is compared with the normalized address of the pool.
KriyaFromA(s, info) == TypeWrapped(s) = info.token[1]

Kriya(s, info) == Directed(KriyaFromA(s, info), AmountIn(s), AmountOut(s), info)

FlowXV2(s, info) ==
  LET isFromA == AmountXIn(s) # None
  IN Directed(isFromA, IF isFromA THEN AmountXIn(s) ELSE AmountYIn(s),
                       IF isFromA THEN AmountYOut(s) ELSE AmountXOut(s), info)

\* Whose tokens are those of TokensOf.
FlowXV3(s, info) == IF s.aToB THEN Directed(TRUE, 1, 2, info)
                              ELSE Directed(FALSE, 2, 1, info)

\* type_in and type_out: the event names the token paid first.
InOrder(s, info) ==
  [token    |-> <<info.token[Paid(s)], info.token[Received(s)]>>,
   decimals |-> <<info.decimals[Paid(s)], info.decimals[Received(s)]>>]

Aftermath(s, info) == Directed(TRUE, AmountIn(s), AmountOut(s), InOrder(s, info))

AftermathV2(s, info) == Directed(TRUE, AmountIn(s), AmountOut(s), InOrder(s, info))

BlueMove(s, info) ==
  LET isFromA == AmountXIn(s) # None
  IN Directed(isFromA, IF isFromA THEN AmountXIn(s) ELSE AmountYIn(s),
                       IF isFromA THEN AmountYOut(s) ELSE AmountXOut(s), info)

SuiSwap(s, info) == Directed(s.aToB, AmountIn(s), AmountOut(s), info)

Adapted(s, info) ==
  CASE s.protocol = "Cetus"       -> Cetus(s, info)
    [] s.protocol = "Turbos"      -> Turbos(s, info)
    [] s.protocol = "Kriya"       -> Kriya(s, info)
    [] s.protocol = "FlowXV2"     -> FlowXV2(s, info)
    [] s.protocol = "FlowXV3"     -> FlowXV3(s, info)
    [] s.protocol = "Aftermath"   -> Aftermath(s, info)
    [] s.protocol = "AftermathV2" -> AftermathV2(s, info)
    [] s.protocol = "BlueMove"    -> BlueMove(s, info)
    [] s.protocol = "SuiSwap"     -> SuiSwap(s, info)

\* The trade as the handler saves it.
Trade(s, info) ==
  LET trade == Adapted(s, info)
  IN [trade EXCEPT !.from = NormalizedTokenAddress(@), !.to = NormalizedTokenAddress(@)]

=============================================================================
