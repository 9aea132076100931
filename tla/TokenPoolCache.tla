--------------------------- MODULE TokenPoolCache ---------------------------
(***************************************************************************)
(* How the handlers of sui-ingest/swap and sui-ingest/defi get to know the *)
(* tokens of a pool and their decimals (src/utils.ts and the protocols).   *)
(*                                                                         *)
(* Each of the two processes has three caches in memory: pools, metadata   *)
(* of tokens, and what cacheFn remembers.  They share the tables pool and  *)
(* tokens, to which they write without waiting.  The handlers of a batch   *)
(* run concurrently: each is a task here, with a step from one await to    *)
(* the next.  What the chain does not tell is guessed, and a guess may     *)
(* outlive the process that made it.                                       *)
(***************************************************************************)
EXTENDS SwapAdapters

CONSTANTS
  Decimals,   \* the true decimals of each token
  Task,       \* the handlers running
  Mixes,      \* what they may be handling, together
  MaxTry,     \* maxRetries of retry()
  MaxErr      \* bound: errors, unknown coins and restarts in one behaviour

Service == {"swap", "defi"}

\* Protocols for whose events the defi process looks up decimals, too.
DefiProtocol == {"Cetus", "Kriya", "Turbos", "FlowXV2", "SuiSwap"}

\* An event and the process that handles it.
Handled == {h \in [service : Service, event : Swap] :
              h.service = "defi" => h.event.protocol \in DefiProtocol}

\* A pool belongs to one protocol.
ASSUME CacheAssumption ==
  /\ Decimals \in [Token -> Nat]
  /\ Mixes \subseteq [Task -> Handled]
  /\ \A mix \in Mixes, t, u \in Task :
        mix[t].event.pool = mix[u].event.pool =>
           mix[t].event.protocol = mix[u].event.protocol
  /\ MaxTry \in Nat \ {0} /\ MaxErr \in Nat

NoInfo    == [token |-> <<>>, decimals |-> <<>>]
Unknown   == 0                   \* no decimals yet
Guess     == 9
Idle      == <<"idle", 0>>
Asking(n) == <<"asking", n>>     \* after n errors
Known(d)  == <<"known", d>>
Failed    == <<"failed", 0>>

VARIABLES
  task,        \* what each task handles
  prepared,    \* the processes that have loaded the tables
  poolCache,   \* poolCache of each process
  metadata,    \* its tokensMetadata
  cacheData,   \* its cacheData, as far as it holds decimals
  poolRows,    \* table pool: the distinct rows of each pool
  tokenRows,   \* table tokens
  poolWrites,  \* create calls under way
  tokenWrites, \* upsert calls under way
  pc,          \* where the task is
  lookup,      \* its lookups of the decimals of both tokens
  used,        \* the pool info that its row was made with
  guessed,     \* history: tokens whose decimals somebody had to guess
  errors       \* the errors spent

caches    == <<poolCache, metadata, cacheData>>
tables    == <<poolRows, tokenRows>>
writes    == <<poolWrites, tokenWrites>>
cacheVars == <<task, prepared, caches, tables, writes, pc, lookup, used, guessed, errors>>

-----------------------------------------------------------------------------
SpendError == /\ errors < MaxErr
              /\ errors' = errors + 1

\* What the node has no answer for.  That it has none for the empty address
\* is no fault.
AskedInVain(x) == IF x = NoToken THEN UNCHANGED errors ELSE SpendError

ServiceOf(t)  == task[t].service
SwapOf(t)     == task[t].event
PoolOf(t)     == SwapOf(t).pool
TokenOf(t, k) == TokensOf(SwapOf(t))[k]
HasPool(t)    == SwapOf(t).protocol \in PoolProtocol

Ends(t, info) == /\ used' = [used EXCEPT ![t] = info]
                 /\ pc' = [pc EXCEPT ![t] = "done"]

\* "token_decimals || 9"
OrGuess(d) == IF d = 0 THEN Guess ELSE d

(***************************************************************************)
(* prepareTokens and preloadPool, when the process is given a batch.  Of   *)
(* several rows of a pool the last one read stays.                         *)
(***************************************************************************)
Prepare(s) ==
  /\ s \notin prepared
  /\ \E t \in Task : ServiceOf(t) = s
  /\ prepared' = prepared \cup {s}
  /\ \E rows \in [Pool -> UNION {poolRows[p] : p \in Pool} \cup {NoInfo}] :
        /\ \A p \in Pool : IF poolRows[p] = {} THEN rows[p] = NoInfo
                                               ELSE rows[p] \in poolRows[p]
        /\ poolCache' = [poolCache EXCEPT ![s] = rows]
  /\ metadata' = [metadata EXCEPT ![s] = tokenRows]
  /\ UNCHANGED <<task, cacheData, tables, writes, pc, lookup, used, guessed, errors>>

(***************************************************************************)
(* The two cacheFn calls up to their first real await.                     *)
(***************************************************************************)
Hit(t, k) == LET s == ServiceOf(t) IN
  IF cacheData[s][TokenOf(t, k)] # Unknown THEN cacheData[s][TokenOf(t, k)]
  ELSE IF metadata[s][TokenOf(t, k)] # Unknown THEN OrGuess(metadata[s][TokenOf(t, k)])
  ELSE Unknown

Ask(t) ==
  /\ lookup' = [lookup EXCEPT ![t] = [k \in {1, 2} |->
                  IF Hit(t, k) = Unknown THEN Asking(0) ELSE Known(Hit(t, k))]]
  /\ cacheData' = [cacheData EXCEPT ![ServiceOf(t)] = [x \in Token |->
                     IF \E k \in {1, 2} : x = TokenOf(t, k) /\ Hit(t, k) # Unknown
                     THEN Hit(t, CHOOSE k \in {1, 2} : x = TokenOf(t, k))
                     ELSE @[x]]]
  /\ pc' = [pc EXCEPT ![t] = "looking"]

(***************************************************************************)
(* getPoolInfo up to its first await, and the adapters without pools.      *)
(***************************************************************************)
StartPool(t) ==
  /\ pc[t] = "start" /\ ServiceOf(t) \in prepared
  /\ HasPool(t)
  /\ LET cached == poolCache[ServiceOf(t)][PoolOf(t)] IN
     IF cached # NoInfo
     THEN Ends(t, cached)
     ELSE /\ pc' = [pc EXCEPT ![t] = "query"]
          /\ UNCHANGED used
  /\ UNCHANGED <<task, prepared, caches, tables, writes, lookup, guessed, errors>>

StartToken(t) ==
  /\ pc[t] = "start" /\ ServiceOf(t) \in prepared
  /\ ~HasPool(t)
  /\ IF SwapOf(t).protocol = "FlowXV3"
     THEN /\ pc' = [pc EXCEPT ![t] = "object"]
          /\ UNCHANGED <<cacheData, lookup>>
     ELSE Ask(t)
  /\ UNCHANGED <<task, prepared, poolCache, metadata, tables, writes, used, guessed, errors>>

FindFirst(t) ==
  /\ pc[t] = "query"
  /\ \/ \E info \in poolRows[PoolOf(t)] :
           /\ poolCache' = [poolCache EXCEPT ![ServiceOf(t)][PoolOf(t)] = info]
           /\ Ends(t, info)
     \/ /\ poolRows[PoolOf(t)] = {}
        /\ pc' = [pc EXCEPT ![t] = "object"]
        /\ UNCHANGED <<poolCache, used>>
  /\ UNCHANGED <<task, prepared, metadata, cacheData, tables, writes, lookup, guessed, errors>>

\* turbosFinance/indexer.ts of the defi process calls parseWrapperObj without
\* importing it, which throws.
ParsesType(t) == ~(ServiceOf(t) = "defi" /\ SwapOf(t).protocol = "Turbos")

GetObject(t) ==
  /\ pc[t] = "object" /\ ParsesType(t)
  /\ Ask(t)
  /\ UNCHANGED <<task, prepared, poolCache, metadata, tables, writes, used, guessed, errors>>

GetObjectThrows(t) ==
  /\ pc[t] = "object"
  /\ IF ParsesType(t) THEN SpendError ELSE UNCHANGED errors
  /\ pc' = [pc EXCEPT ![t] = "dropped"]
  /\ UNCHANGED <<task, prepared, caches, tables, writes, lookup, used, guessed>>

-----------------------------------------------------------------------------
(***************************************************************************)
(* getTokenDecimals: the answer of getCoinMetadata.  The lookup goes on    *)
(* even if its task has been dropped.                                      *)
(***************************************************************************)
Errors(t, k) == lookup[t][k][2]

Answer(t, k) ==
  LET s == ServiceOf(t)
      x == TokenOf(t, k)
  IN /\ lookup[t][k][1] = "asking"
     /\ \E known \in IF x = NoToken THEN {FALSE} ELSE BOOLEAN :
           LET d == IF known THEN OrGuess(Decimals[x]) ELSE Guess
           IN /\ IF known THEN UNCHANGED <<guessed, errors>>
                          ELSE AskedInVain(x) /\ guessed' = guessed \cup {x}
              /\ metadata' = [metadata EXCEPT ![s][x] = d]
              /\ tokenWrites' = tokenWrites \cup {<<s, x, d>>}
              /\ cacheData' = [cacheData EXCEPT ![s][x] = d]
              /\ lookup' = [lookup EXCEPT ![t][k] = Known(d)]
     /\ UNCHANGED <<task, prepared, poolCache, tables, poolWrites, pc, used>>

\* throwOnError of cacheFn of the swap process.
ThrowOnError(t, k) == ~(SwapOf(t).protocol = "Cetus" /\ k = 2)

\* Variant: a lookup that failed for good does not end its task.
AnswerErrorSwapForgotten(t, k) ==
  /\ ServiceOf(t) = "swap" /\ lookup[t][k][1] = "asking"
  /\ AskedInVain(TokenOf(t, k))
  /\ IF Errors(t, k) + 1 < MaxTry
     THEN /\ lookup' = [lookup EXCEPT ![t][k] = Asking(Errors(t, k) + 1)]
          /\ UNCHANGED <<pc, guessed>>
     ELSE /\ lookup' = [lookup EXCEPT ![t][k] = Failed]
          /\ UNCHANGED <<pc, guessed>>
  /\ UNCHANGED <<task, prepared, caches, tables, writes, used>>

\* cacheFn of the swap process: retries, then an error or an uncached guess.
AnswerErrorSwap(t, k) ==
  /\ ServiceOf(t) = "swap" /\ lookup[t][k][1] = "asking"
  /\ AskedInVain(TokenOf(t, k))
  /\ IF Errors(t, k) + 1 < MaxTry
     THEN /\ lookup' = [lookup EXCEPT ![t][k] = Asking(Errors(t, k) + 1)]
          /\ UNCHANGED <<pc, guessed>>
     ELSE IF ThrowOnError(t, k)
     THEN /\ lookup' = [lookup EXCEPT ![t][k] = Failed]
          /\ pc' = [pc EXCEPT ![t] = "dropped"]
          /\ UNCHANGED guessed
     ELSE /\ lookup' = [lookup EXCEPT ![t][k] = Known(Guess)]
          /\ guessed' = guessed \cup {TokenOf(t, k)}
          /\ UNCHANGED pc
  /\ UNCHANGED <<task, prepared, caches, tables, writes, used>>

DefaultOf(t) == IF SwapOf(t).protocol \in {"Cetus", "FlowXV2"} THEN 18 ELSE 9

\* cacheFn of the defi process: one try, and the default is cached.
AnswerErrorDefi(t, k) ==
  /\ ServiceOf(t) = "defi" /\ lookup[t][k][1] = "asking"
  /\ SpendError
  /\ cacheData' = [cacheData EXCEPT !["defi"][TokenOf(t, k)] = DefaultOf(t)]
  /\ lookup' = [lookup EXCEPT ![t][k] = Known(DefaultOf(t))]
  /\ guessed' = guessed \cup {TokenOf(t, k)}
  /\ UNCHANGED <<task, prepared, poolCache, metadata, tables, writes, pc, used>>

(***************************************************************************)
(* Promise.all of both lookups, and the rest of getPoolInfo.               *)
(***************************************************************************)
\* Variant: the decimals are stored in the order in which they arrived.
InfoCrossed(t) ==
  [token    |-> [k \in {1, 2} |-> Spelled(TokenOf(t, k))],
   decimals |-> [k \in {1, 2} |-> lookup[t][3 - k][2]]]

Info(t) ==
  [token    |-> [k \in {1, 2} |-> Spelled(TokenOf(t, k))],
   decimals |-> [k \in {1, 2} |-> lookup[t][k][2]]]

Normalized(info) ==
  [info EXCEPT !.token = [k \in {1, 2} |-> NormalizedTokenAddress(@[k])]]

Settle(t) ==
  /\ pc[t] = "looking"
  /\ \A k \in {1, 2} : lookup[t][k][1] = "known"
  /\ IF HasPool(t)
     THEN LET info == Normalized(Info(t)) IN
          /\ poolCache' = [poolCache EXCEPT ![ServiceOf(t)][PoolOf(t)] = info]
          /\ poolWrites' = poolWrites \cup {<<ServiceOf(t), PoolOf(t), info>>}
          /\ Ends(t, info)
     ELSE /\ Ends(t, Info(t))
          /\ UNCHANGED <<poolCache, poolWrites>>
  /\ lookup' = [lookup EXCEPT ![t] = [k \in {1, 2} |-> Idle]]
  /\ UNCHANGED <<task, prepared, metadata, cacheData, tables, tokenWrites, guessed, errors>>

-----------------------------------------------------------------------------
(***************************************************************************)
(* The writes nobody waits for.  pool has no key that prevents copies;     *)
(* the upsert of tokens leaves a row that exists alone.                    *)
(***************************************************************************)
StorePool(w) ==
  /\ w \in poolWrites
  /\ poolWrites' = poolWrites \ {w}
  /\ \/ poolRows' = [poolRows EXCEPT ![w[2]] = @ \cup {w[3]}] /\ UNCHANGED errors
     \/ SpendError /\ UNCHANGED poolRows
  /\ UNCHANGED <<task, prepared, caches, tokenRows, tokenWrites, pc, lookup, used, guessed>>

StoreToken(w) ==
  /\ w \in tokenWrites
  /\ tokenWrites' = tokenWrites \ {w}
  /\ \/ /\ tokenRows' = IF tokenRows[w[2]] = Unknown
                        THEN [tokenRows EXCEPT ![w[2]] = w[3]] ELSE tokenRows
        /\ UNCHANGED errors
     \/ SpendError /\ UNCHANGED tokenRows
  /\ UNCHANGED <<task, prepared, caches, poolRows, poolWrites, pc, lookup, used, guessed>>

\* The process dies before its batch is saved, and gets the batch again.
Restart(s) ==
  /\ s \in prepared
  /\ SpendError
  /\ prepared' = prepared \ {s}
  /\ poolCache' = [poolCache EXCEPT ![s] = [p \in Pool |-> NoInfo]]
  /\ metadata'  = [metadata EXCEPT ![s] = [x \in Token |-> Unknown]]
  /\ cacheData' = [cacheData EXCEPT ![s] = [x \in Token |-> Unknown]]
  /\ poolWrites'  = {w \in poolWrites : w[1] # s}
  /\ tokenWrites' = {w \in tokenWrites : w[1] # s}
  /\ pc'     = [t \in Task |-> IF ServiceOf(t) = s THEN "start" ELSE pc[t]]
  /\ lookup' = [t \in Task |-> IF ServiceOf(t) = s THEN [k \in {1, 2} |-> Idle] ELSE lookup[t]]
  /\ used'   = [t \in Task |-> IF ServiceOf(t) = s THEN NoInfo ELSE used[t]]
  /\ UNCHANGED <<task, tables, guessed>>

-----------------------------------------------------------------------------
CacheInit ==
  /\ task \in Mixes
  /\ prepared = {}
  /\ poolCache = [s \in Service |-> [p \in Pool |-> NoInfo]]
  /\ metadata  = [s \in Service |-> [x \in Token |-> Unknown]]
  /\ cacheData = [s \in Service |-> [x \in Token |-> Unknown]]
  /\ poolRows = [p \in Pool |-> {}]
  /\ tokenRows = [x \in Token |-> Unknown]
  /\ poolWrites = {} /\ tokenWrites = {}
  /\ pc = [t \in Task |-> "start"]
  /\ lookup = [t \in Task |-> [k \in {1, 2} |-> Idle]]
  /\ used = [t \in Task |-> NoInfo]
  /\ guessed = {} /\ errors = 0

TaskStep(t) ==
  \/ StartPool(t) \/ StartToken(t) \/ FindFirst(t)
  \/ GetObject(t) \/ GetObjectThrows(t) \/ Settle(t)

AnswerStep(t, k) == Answer(t, k) \/ AnswerErrorSwap(t, k) \/ AnswerErrorDefi(t, k)

CacheNext ==
  \/ \E s \in Service : Prepare(s) \/ Restart(s)
  \/ \E t \in Task : TaskStep(t) \/ \E k \in {1, 2} : AnswerStep(t, k)
  \/ \E w \in poolWrites : StorePool(w)
  \/ \E w \in tokenWrites : StoreToken(w)

\* The processes run, and calls to the node and the database return.
CacheFairness ==
  /\ \A s \in Service : WF_cacheVars(Prepare(s))
  /\ \A t \in Task : /\ WF_cacheVars(TaskStep(t))
                     /\ \A k \in {1, 2} : WF_cacheVars(AnswerStep(t, k))

CacheSpec == CacheInit /\ [][CacheNext]_cacheVars /\ CacheFairness

-----------------------------------------------------------------------------
(***************************************************************************)
(* Properties.                                                             *)
(***************************************************************************)
InfoType == [token : {<<>>} \cup [{1, 2} -> Token \X BOOLEAN],
             decimals : {<<>>} \cup [{1, 2} -> Nat]]

CacheTypeOK ==
  /\ task \in Mixes
  /\ prepared \subseteq Service
  /\ poolCache \in [Service -> [Pool -> InfoType]]
  /\ metadata \in [Service -> [Token -> Nat]]
  /\ cacheData \in [Service -> [Token -> Nat]]
  /\ \A p \in Pool : poolRows[p] \subseteq InfoType \ {NoInfo}
  /\ tokenRows \in [Token -> Nat]
  /\ poolWrites \subseteq Service \X Pool \X InfoType
  /\ tokenWrites \subseteq Service \X Token \X (Nat \ {Unknown})
  /\ pc \in [Task -> {"start", "query", "object", "looking", "done", "dropped"}]
  /\ lookup \in [Task -> [{1, 2} -> {Idle, Failed} \cup ({"asking", "known"} \X Nat)]]
  /\ \A t \in Task : used[t] \in InfoType /\ (pc[t] = "done" <=> used[t] # NoInfo)
  /\ guessed \subseteq Token
  /\ errors \in 0 .. MaxErr

(***************************************************************************)
(* Whatever is cached, stored, loaded again or overwritten by a concurrent *)
(* handler, by either process: the decimals a row is made with are those   *)
(* of its token (9 for a token without), or one of the two guesses, 9 and  *)
(* 18, and then the decimals of that very token were guessed at some time. *)
(* DefiIngest takes from here which decimals a pool can have.              *)
(***************************************************************************)
GuessesTraced ==
  \A t \in Task : used[t] # NoInfo =>
     \A k \in {1, 2} : \/ used[t].decimals[k] = OrGuess(Decimals[TokenOf(t, k)])
                       \/ used[t].decimals[k] \in {9, 18} /\ TokenOf(t, k) \in guessed

(***************************************************************************)
(* A trade names the token that was paid, the token that was received, and *)
(* the amounts of each with the decimals the pool info has for it.  There  *)
(* are two exceptions.  When the address of the first token begins with a  *)
(* zero, kriya.ts:91 may take a trade for one from the second token, as    *)
(* the address in the pool info is normalized and the one in the type of   *)
(* the event is not.  And flowX.ts:143 may not know the tokens of a pool.  *)
(***************************************************************************)
Turnable(s) == s.protocol = "Kriya" /\ s.aToB /\ Tokens[s.pool][1] \in Padded

Names(address, s, k) ==
  \/ address = <<Tokens[s.pool][k], FALSE>>
  \/ s.protocol = "FlowXV3" /\ address = <<NoToken, FALSE>>

MirrorsFrom(from, trade, s, info) ==
  /\ Names(trade.from, s, from) /\ Names(trade.to, s, 3 - from)
  /\ trade.in  = <<Paid(s), info.decimals[from]>>
  /\ trade.out = <<Received(s), info.decimals[3 - from]>>

Mirrors(trade, s, info) ==
  \/ MirrorsFrom(Paid(s), trade, s, info)
  \/ Turnable(s) /\ MirrorsFrom(Received(s), trade, s, info)

TradesMirrorSwaps ==
  \A t \in Task : ServiceOf(t) = "swap" /\ used[t] # NoInfo
                    => Mirrors(Trade(SwapOf(t), used[t]), SwapOf(t), used[t])

(***************************************************************************)
(* Every handler ends, with a row or without, so that the batch it belongs *)
(* to ends: retries are bounded and a failing lookup ends its task.        *)
(***************************************************************************)
HandlersEnd == <>[](\A t \in Task : pc[t] \in {"done", "dropped"})

=============================================================================
