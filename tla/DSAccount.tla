------------------------------ MODULE DSAccount ------------------------------
(***************************************************************************)
(* The transactions and the balance of one DSAccount: what is registered,  *)
(* removed, confirmed and reorganised, and updateBalance, which walks the  *)
(* list of transactions and decides which are invalid or pending and which *)
(* outputs are unspent.                                                    *)
(*                                                                         *)
(* An output is a coin.  What a transaction fixes (the coins it spends and *)
(* creates) is given by constants; two transactions that spend the same    *)
(* coin conflict.                                                          *)
(*                                                                         *)
(* calls holds what the running handler still has to do; pass holds the    *)
(* local variables of updateBalance, which takes one step per transaction. *)
(* While calls is not empty nothing else can happen.                       *)
(***************************************************************************)
EXTENDS Integers, Sequences

CONSTANTS
  Txs,             \* every transaction that can be relayed to the account
  Coins,           \* their outputs, and the outputs of others that they spend
  Elsewhere,       \* where the coins of others come from
  CreatedBy,       \* the transaction a coin is an output of
  Spends,          \* the inputs of a transaction
  Mine,            \* the coins paid to an address of the account
  Value,           \* what a set of coins is worth
  NotFinal,        \* replaceable, oversize or dust: pending until confirmed
  LockHeight,      \* lockTime of a transaction, as a height
  Coinbases,       \* the DSCoinbaseTransactions among Txs
  CoinbaseHeight,  \* the height in a coinbase transaction's payload
  Maturity,        \* for how many blocks a coinbase is locked, 100 in the code
  Unconfirmed,     \* TX_UNCONFIRMED, above every height
  MaxHeight        \* bound on the height of the chain

\* A coinbase has no inputs; transactions do not depend on themselves.
TransactionAssumption ==
  /\ Elsewhere \notin Txs
  /\ CreatedBy \in [Coins -> Txs \cup {Elsewhere}]
  /\ Spends \in [Txs -> SUBSET Coins]
  /\ \A t \in Txs : \A c \in Spends[t] : CreatedBy[c] # t
  /\ Mine \subseteq Coins
  /\ NotFinal \subseteq Txs
  /\ LockHeight \in [Txs -> Nat]
  /\ Coinbases \subseteq Txs
  /\ \A t \in Coinbases : Spends[t] = {}
  /\ CoinbaseHeight \in [Coinbases -> Nat]

ValueAssumption ==
  /\ Value \in [SUBSET Coins -> Nat]
  /\ Value[{}] = 0
  /\ \A S, T \in SUBSET Coins : S \cap T = {} => Value[S \cup T] = Value[S] + Value[T]

HeightAssumption ==
  /\ Maturity \in Nat /\ MaxHeight \in Nat
  /\ Unconfirmed \in Nat /\ Unconfirmed > MaxHeight

ASSUME AccountAssumption == TransactionAssumption /\ ValueAssumption /\ HeightAssumption

VARIABLES
  allTx,                \* hash -> height of the transaction object known by that hash
  transactions,         \* the account's transactions, the latest first
  blockHeight,          \* height of the objects in transactions
  twins,                \* listed transactions for which allTx holds another object
  cache,                \* what the last updateBalance left
  lastSyncBlockHeight,  \* height of the chain
  bestBlockHeight,      \* highest block ever added
  mined,                \* height of the block on the chain that holds a transaction
  calls,                \* calls still to be made by the running handler
  pass,                 \* position and results so far of a running updateBalance
  removed               \* history: has a transaction been removed since the last wipe?

vars == <<allTx, transactions, blockHeight, twins, cache, lastSyncBlockHeight, bestBlockHeight,
          mined, calls, pass, removed>>

chain == <<lastSyncBlockHeight, mined>>

-----------------------------------------------------------------------------
(* Transactions *)

Heights == 0 .. MaxHeight \cup {Unconfirmed}

Parents(t) == {CreatedBy[c] : c \in Spends[t]}
OwnOutputs(t) == {c \in Mine : CreatedBy[c] = t}
Conflict(t, u) == t # u /\ Spends[t] \cap Spends[u] # {}

Known == DOMAIN allTx
Listed == {transactions[i] : i \in DOMAIN transactions}

\* An output to the account, or an input that spends one of a known transaction.
CanContain(known, t) ==
  \/ OwnOutputs(t) # {}
  \/ \E c \in Spends[t] \cap Mine : CreatedBy[c] \in known

\* The sequences that list the members of S once each.
Arrangements(S) ==
  {s \in UNION {[1 .. n -> S] : n \in 0 .. Len(transactions)} :
     /\ \A i, j \in DOMAIN s : s[i] = s[j] => i = j
     /\ \A t \in S : \E i \in DOMAIN s : s[i] = t}

Above(t, u) ==
  \E i, j \in DOMAIN transactions : i < j /\ transactions[i] = t /\ transactions[j] = u

\* The list without the transactions in S (there is one).
ListsWithout(S) ==
  {s \in Arrangements(Listed \ S) : \A i, j \in DOMAIN s : i < j => Above(s[i], s[j])}

-----------------------------------------------------------------------------
(* updateBalance *)

Results == [invalid : SUBSET Txs,       \* invalidTransactionHashes
            pending : SUBSET Txs,       \* pendingTransactionHashes
            locked : SUBSET Txs,        \* pendingCoinbaseLockedTransactionHashes
            spent : SUBSET Coins,       \* spentOutputs
            utxos : SUBSET Coins,
            balance : Int,
            history : Seq(Int)]         \* balanceHistory

NoResults == [invalid |-> {}, pending |-> {}, locked |-> {}, spent |-> {}, utxos |-> {},
              balance |-> 0, history |-> <<>>]

\* Mutant: only outputs of invalid transactions are looked for.
IgnoreSpent(r, t) == blockHeight[t] = Unconfirmed /\ Parents(t) \cap r.invalid # {}

\* An unconfirmed transaction that spends what an earlier one spent, or an
\* output of an invalid one.
IsInvalid(r, t) ==
  /\ blockHeight[t] = Unconfirmed
  /\ Spends[t] \cap r.spent # {} \/ Parents(t) \cap r.invalid # {}

IsPending(r, t) ==
  \/ blockHeight[t] = Unconfirmed /\ (t \in NotFinal \/ LockHeight[t] > bestBlockHeight + 1)
  \/ Parents(t) \cap r.pending # {}

\* transactionOutputsAreLockedTill
LockedTill(t) == CoinbaseHeight[t] + Maturity
IsLocked(t) == t \in Coinbases /\ LockedTill(t) > lastSyncBlockHeight

\* Mutant: the balance loses only what this transaction spends.
LoseOwnInputs(r, t) ==
  [r EXCEPT !.utxos = (@ \cup OwnOutputs(t)) \ r.spent,
            !.balance = @ + Value[OwnOutputs(t)] - Value[r.utxos \cap Spends[t]]]

\* Add the account's outputs, then take out all outputs known to be spent.  The
\* amount of an output is looked up in allTx, which gives 0 for an unknown one.
Count(r, t) ==
  LET gone == (r.utxos \cup OwnOutputs(t)) \cap r.spent
  IN  [r EXCEPT !.utxos = (@ \cup OwnOutputs(t)) \ gone,
                !.balance = @ + Value[OwnOutputs(t)] - Value[{c \in gone : CreatedBy[c] \in Known}]]

\* Mutant: the history starts with the oldest balance.
RecordLast(r) == [r EXCEPT !.history = Append(@, r.balance)]

\* The balance after a transaction, the latest transaction first.
Record(r) == [r EXCEPT !.history = <<r.balance>> \o @]

\* One turn of the loop of updateBalance.
Process(r, t) ==
  LET spent == [r EXCEPT !.spent = @ \cup Spends[t]]
  IN  IF IsInvalid(r, t) THEN Record([r EXCEPT !.invalid = @ \cup {t}])
      ELSE IF IsPending(r, t) THEN Record([spent EXCEPT !.pending = @ \cup {t}])
      ELSE IF IsLocked(t) THEN Record([spent EXCEPT !.locked = @ \cup {t}])
      ELSE Record(Count(spent, t))

Calls == [op : {"updateBalance", "setBlockHeight", "chainUpdatedBlockHeight", "newTip"},
          height : Heights,
          hashes : SUBSET Txs]

Call(op, h, S) == [op |-> op, height |-> h, hashes |-> S]
Idle == calls = <<>>
Running(op) == calls # <<>> /\ Head(calls).op = op

StartPass(list) == [at |-> Len(list), results |-> NoResults]
NoPass == [at |-> 0, results |-> NoResults]

\* updateBalance is called, with list as the transactions; then the calls in rest.
UpdateBalanceThen(list, rest) ==
  /\ calls' = <<Call("updateBalance", 0, {})>> \o rest
  /\ pass' = StartPass(list)

UpdateBalanceStep ==
  /\ Running("updateBalance") /\ pass.at > 0
  /\ pass' = [at |-> pass.at - 1, results |-> Process(pass.results, transactions[pass.at])]
  /\ UNCHANGED <<allTx, transactions, blockHeight, twins, cache, bestBlockHeight, chain, calls,
                 removed>>

FinishUpdateBalance ==
  /\ Running("updateBalance") /\ pass.at = 0
  /\ cache' = pass.results
  /\ calls' = Tail(calls)
  /\ pass' = NoPass
  /\ UNCHANGED <<allTx, transactions, blockHeight, twins, bestBlockHeight, chain, removed>>

-----------------------------------------------------------------------------
(* registerTransaction and removeTransaction *)

\* A peer relays t, or the user sends it.  The callers have looked for an
\* account that can contain t; for a known transaction nothing is done.  If the
\* list has an object of that hash the ordered set keeps it.
RegisterTransaction(t) ==
  /\ Idle
  /\ CanContain(Known, t) /\ t \notin Known
  /\ allTx' = [u \in Known \cup {t} |-> IF u = t THEN Unconfirmed ELSE allTx[u]]
  /\ IF t \in Listed
     THEN twins' = twins \cup {t} /\ UNCHANGED transactions
     ELSE transactions' = <<t>> \o transactions /\ UNCHANGED twins
  /\ UpdateBalanceThen(transactions', <<>>)
  /\ UNCHANGED <<blockHeight, cache, bestBlockHeight, chain, removed>>

\* Mutant: the loop also stops at a transaction of the same height.
StopAtSameHeight(t) ==
  {transactions[i] : i \in
     {i \in DOMAIN transactions :
        /\ t \in Parents(transactions[i])
        /\ \A j \in 1 .. i : blockHeight[transactions[j]] > allTx[t]}}

\* The transactions that spend an output of t, up to the first in the list that
\* is lower than t ("because transactions are sorted we can break").
Dependents(t) ==
  {transactions[i] : i \in
     {i \in DOMAIN transactions :
        /\ t \in Parents(transactions[i])
        /\ \A j \in 1 .. i : blockHeight[transactions[j]] >= allTx[t]}}

\* Everything that removing t removes: t, and whatever known transaction depends
\* on one that is removed.
RemovedWith(t) ==
  {u \in Known : \A S \in SUBSET Known :
     t \in S /\ (\A v \in S : Dependents(v) \cap Known \subseteq S) => u \in S}

\* removeUnrelayedTransactionsFromPeer: no peer has or was asked for t any more.
RemoveTransaction(t) ==
  /\ Idle
  /\ t \in Listed \cap Known /\ blockHeight[t] = Unconfirmed
  /\ CanContain(Known, t)
  /\ allTx' = [u \in Known \ RemovedWith(t) |-> allTx[u]]
  /\ transactions' \in ListsWithout(RemovedWith(t))
  /\ blockHeight' = [u \in Txs |-> IF u \in RemovedWith(t) THEN Unconfirmed ELSE blockHeight[u]]
  /\ twins' = twins \ RemovedWith(t)
  /\ removed' = TRUE
  /\ UpdateBalanceThen(transactions', <<>>)
  /\ UNCHANGED <<cache, bestBlockHeight, chain>>

\* wipeBlockchainInfo of the chain: everything is synced again.
Wipe ==
  /\ Idle
  /\ allTx' = [t \in {} |-> 0] /\ transactions' = <<>>
  /\ blockHeight' = [t \in Txs |-> Unconfirmed]
  /\ mined' = [t \in Txs |-> Unconfirmed]
  /\ lastSyncBlockHeight' = 0 /\ bestBlockHeight' = 0
  /\ twins' = {} /\ removed' = FALSE
  /\ UpdateBalanceThen(<<>>, <<>>)
  /\ UNCHANGED cache

-----------------------------------------------------------------------------
(* setBlockHeight and sortTransactions *)

\* The comparator of sortTransactions puts t above u: by height; a child above
\* its parent; invalid and pending ones above the others; or because an ancestor
\* of t belongs above u.  height is that of the transactions when they are sorted.
IsAscending(height, t, u) ==
  LET first(S, v) == v \in S /\ u \notin S
      same(v) == height[v] = height[u] /\ v \notin Parents(u)
      ascending[v \in Txs] ==
        \/ height[v] > height[u]
        \/ height[v] = height[u] /\ u \in Parents(v)
        \/ same(v) /\ (first(cache.invalid, v) \/ first(cache.pending, v))
        \/ same(v) /\ \E p \in Parents(v) \cap Known : ascending[p]
  IN  ascending[t]

\* Mutant: the list is not sorted.
Unsorted(height) == {transactions}

\* What the sort can return.  It has compared any two neighbours, and the
\* comparator is no order, so nothing is known of two that are not neighbours.
\* Address positions, which it looks at last, are left open.
SortedLists(height) ==
  {s \in Arrangements(Listed) : \A i \in 1 .. Len(s) - 1 :
     IsAscending(height, s[i + 1], s[i]) => IsAscending(height, s[i], s[i + 1])}

\* Mutant: an invalid transaction that is confirmed changes nothing.
NeedsUpdateIfPending(S) == S \cap cache.pending # {}

\* Was one of these pending or invalid?
NeedsUpdate(S) == S \cap (cache.pending \cup cache.invalid) # {}

\* setBlockHeight:andTimestamp:forTransactionHashes: of the account.  A known
\* transaction is touched when its height differs, or its timestamp, about which
\* nothing is known.  The list is sorted, and the balance updated, only if one of
\* them was pending or invalid.
SetBlockHeight(h, hashes, rest) ==
  \E touched \in SUBSET (hashes \cap Known) :
    /\ \A t \in hashes \cap Known : allTx[t] # h => t \in touched
    /\ LET ours == {t \in touched : CanContain(Known, t)}
           kept == IF h = Unconfirmed THEN Known ELSE Known \ (touched \ ours)
       IN  /\ allTx' = [t \in kept |-> IF t \in touched THEN h ELSE allTx[t]]
           /\ blockHeight' =
                [t \in Txs |-> IF t \in (touched \cap Listed) \ twins THEN h ELSE blockHeight[t]]
           /\ IF NeedsUpdate(ours)
              THEN /\ transactions' \in SortedLists(blockHeight')
                   /\ UpdateBalanceThen(transactions', rest)
              ELSE /\ calls' = rest
                   /\ UNCHANGED <<transactions, pass>>

\* Mutant: TX_UNCONFIRMED counts as a height.
AddAnyHeight(h) == bestBlockHeight' = IF h > bestBlockHeight THEN h ELSE bestBlockHeight

\* setBlockHeight of the chain, which counts the block and asks the accounts.
AddToBestHeight(h) ==
  bestBlockHeight' = IF h # Unconfirmed /\ h > bestBlockHeight THEN h ELSE bestBlockHeight

SetBlockHeightCall ==
  /\ Running("setBlockHeight")
  /\ AddToBestHeight(Head(calls).height)
  /\ SetBlockHeight(Head(calls).height, Head(calls).hashes, Tail(calls))
  /\ UNCHANGED <<twins, cache, chain, removed>>

\* A block without transaction hashes: a coinbase that is locked till its very
\* height makes the account update.
ChainUpdatedBlockHeight ==
  /\ Running("chainUpdatedBlockHeight")
  /\ AddToBestHeight(Head(calls).height)
  /\ IF \E t \in cache.locked : LockedTill(t) = Head(calls).height
     THEN UpdateBalanceThen(transactions, Tail(calls))
     ELSE calls' = Tail(calls) /\ UNCHANGED pass
  /\ UNCHANGED <<allTx, transactions, blockHeight, twins, cache, chain, removed>>

\* The end of a reorganisation: lastSyncBlock becomes the new tip.
NewTip ==
  /\ Running("newTip")
  /\ lastSyncBlockHeight' = Head(calls).height
  /\ calls' = Tail(calls)
  /\ UNCHANGED <<allTx, transactions, blockHeight, twins, cache, bestBlockHeight, mined, pass,
                 removed>>

-----------------------------------------------------------------------------
(* What the chain does *)

\* Transactions that blocks can hold together at these heights.
IsChain(heights) ==
  \A t \in Txs : heights[t] # Unconfirmed =>
    /\ heights[t] > LockHeight[t]
    /\ t \in Coinbases => heights[t] = CoinbaseHeight[t]
    /\ \A p \in Parents(t) \ {Elsewhere} : heights[p] <= heights[t]
    /\ \A u \in Txs : Conflict(t, u) => heights[u] = Unconfirmed

\* setBlockHeight of the chain for a block: with hashes it asks the accounts for
\* these, without it tells them the height.
BlockCall(h, hashes, matched) ==
  IF matched THEN Call("setBlockHeight", h, hashes) ELSE Call("chainUpdatedBlockHeight", h, {})

MinedAt(heights, h) == {t \in Txs : heights[t] = h}

\* addBlock extends the sync chain by a block that holds the transactions in S;
\* the filter may have matched others.
ExtendSyncChain(S, matched) ==
  LET h == lastSyncBlockHeight + 1
      heights == [t \in Txs |-> IF t \in S THEN h ELSE mined[t]]
  IN  /\ Idle /\ h <= MaxHeight
      /\ S \subseteq MinedAt(mined, Unconfirmed) /\ IsChain(heights)
      /\ S # {} => matched
      /\ mined' = heights /\ lastSyncBlockHeight' = h
      /\ calls' = <<BlockCall(h, S, matched)>>
      /\ UNCHANGED <<allTx, transactions, blockHeight, twins, cache, bestBlockHeight, pass,
                     removed>>

\* addBlock gets a block of the sync chain again.
ReplaceSyncBlock(h) ==
  LET S == MinedAt(mined, h)
  IN  /\ Idle
      /\ calls' = <<BlockCall(h, S, S # {})>>
      /\ UNCHANGED <<allTx, transactions, blockHeight, twins, cache, bestBlockHeight, chain, pass,
                     removed>>

\* addBlock reorganises from the join on: the transactions above it become
\* unconfirmed, those of the new branch get their heights from its tip down to
\* the join, and then the tip moves.
Reorganize(join, top, heights) ==
  LET above == {t \in Listed : blockHeight[t] > join /\ blockHeight[t] # Unconfirmed}
      blocks == [i \in 1 .. top - join |->
                   LET S == MinedAt(heights, top + 1 - i)
                   IN  BlockCall(top + 1 - i, S, S # {})]
  IN  /\ Idle /\ join < lastSyncBlockHeight
      /\ \A t \in Txs : mined[t] <= join \/ heights[t] <= join => heights[t] = mined[t]
      /\ \A t \in Txs : heights[t] <= top \/ heights[t] = Unconfirmed
      /\ IsChain(heights)
      /\ mined' = heights
      /\ calls' = <<Call("setBlockHeight", Unconfirmed, above)>> \o blocks
                    \o <<Call("newTip", top, {})>>
      /\ UNCHANGED <<allTx, transactions, blockHeight, twins, cache, lastSyncBlockHeight,
                     bestBlockHeight, pass, removed>>

\* Enough peers relayed an unconfirmed transaction, or one rejected it: only its
\* timestamp changes.
SetTimestamp(t) ==
  /\ Idle
  /\ t \in Known /\ allTx[t] = Unconfirmed
  /\ calls' = <<Call("setBlockHeight", Unconfirmed, {t})>>
  /\ UNCHANGED <<allTx, transactions, blockHeight, twins, cache, bestBlockHeight, chain, pass,
                 removed>>

-----------------------------------------------------------------------------
Init ==
  /\ allTx = [t \in {} |-> 0] /\ transactions = <<>>
  /\ blockHeight = [t \in Txs |-> Unconfirmed]
  /\ twins = {} /\ removed = FALSE
  /\ cache = NoResults
  /\ lastSyncBlockHeight = 0 /\ bestBlockHeight = 0
  /\ mined = [t \in Txs |-> Unconfirmed]
  /\ calls = <<>> /\ pass = NoPass

HandlerStep ==
  \/ UpdateBalanceStep \/ FinishUpdateBalance
  \/ SetBlockHeightCall \/ ChainUpdatedBlockHeight \/ NewTip

Next ==
  \/ HandlerStep
  \/ \E t \in Txs : RegisterTransaction(t) \/ RemoveTransaction(t) \/ SetTimestamp(t)
  \/ \E S \in SUBSET Txs, matched \in BOOLEAN : ExtendSyncChain(S, matched)
  \/ \E h \in 1 .. lastSyncBlockHeight : ReplaceSyncBlock(h)
  \/ \E join \in 0 .. MaxHeight, top \in 1 .. MaxHeight, heights \in [Txs -> Heights] :
       join < top /\ Reorganize(join, top, heights)
  \/ Wipe

Spec == Init /\ [][Next]_vars

-----------------------------------------------------------------------------
(* Properties *)

TypeOK ==
  /\ Known \subseteq Txs /\ allTx \in [Known -> Heights]
  /\ transactions \in Seq(Txs)
  /\ blockHeight \in [Txs -> Heights]
  /\ twins \subseteq Txs /\ removed \in BOOLEAN
  /\ cache \in Results
  /\ lastSyncBlockHeight \in 0 .. MaxHeight /\ bestBlockHeight \in 0 .. MaxHeight
  /\ mined \in [Txs -> Heights]
  /\ calls \in Seq(Calls)
  /\ pass \in [at : Nat, results : Results]

\* The transactions that the running updateBalance has dealt with.
Done == {transactions[i] : i \in pass.at + 1 .. Len(transactions)}

SpentBy(S) == UNION {Spends[t] : t \in S}

\* updateBalance: of two unconfirmed transactions that spend the same coin it
\* never takes both for valid, in whatever order the list has them.
OneOfDoubleSpend ==
  Running("updateBalance") =>
    \A t, u \in Done \ pass.results.invalid :
      Conflict(t, u) => ~(blockHeight[t] = Unconfirmed /\ blockHeight[u] = Unconfirmed)

\* updateBalance: an output known to be spent is unspent only if a pending
\* transaction spends it.
UtxosAreUnspent == cache.utxos \cap cache.spent \subseteq SpentBy(cache.pending)

\* updateBalance: the balance is what the unspent outputs are worth, and these are
\* unspent, also while transactions come and go.
BalanceIsUtxos == cache.balance = Value[cache.utxos] /\ UtxosAreUnspent

\* balanceAfterTransaction: there is a balance for each transaction of the list,
\* and the latest is the current one.
HistoryFollowsList ==
  Idle => /\ Len(cache.history) = Len(transactions)
          /\ transactions # <<>> => cache.history[1] = cache.balance

\* As long as no transaction has been removed: of two transactions that spend the
\* same coin the account takes at most one for valid, unless both are confirmed.
ConflictsResolved ==
  Idle /\ ~removed =>
    \A t, u \in Listed \ cache.invalid : ~Conflict(t, u)

\* What updateBalance has computed after n turns of its loop when it starts now.
AfterTurns ==
  LET results[n \in 0 .. Len(transactions)] ==
        IF n = 0 THEN NoResults
        ELSE Process(results[n - 1], transactions[Len(transactions) + 1 - n])
  IN  results

Recomputed == AfterTurns[Len(transactions)]

\* setBlockHeight updates the balance whenever it must: what is invalid and what
\* is spent is as if computed anew, and so is everything if what is pending or
\* locked is.
CacheIsCurrent ==
  Idle /\ ~removed =>
    /\ cache.invalid = Recomputed.invalid /\ cache.spent = Recomputed.spent
    /\ cache.pending = Recomputed.pending /\ cache.locked = Recomputed.locked =>
         cache = Recomputed

\* No transaction stays that spends an output of one that is removed.
TakesDependents ==
  \A t \in Listed \ Listed' : \A u \in Listed' : t \notin Parents(u)

\* removeTransaction: whatever depends on what is removed goes too, as long as
\* nothing in the list is confirmed.
DependentsRemoved ==
  [][(\A t \in Listed : blockHeight[t] = Unconfirmed) => TakesDependents]_vars

-----------------------------------------------------------------------------
(* What the code says of itself and does not do *)

\* removeTransaction: "removes a transaction from the wallet along with any
\* transactions that depend on its outputs".
DependentsGoToo == [][TakesDependents]_vars

\* transactionIsValid: "true if no previous wallet transactions spend any of the
\* given transaction's inputs".  An unconfirmed transaction that spends a coin
\* which a confirmed one spends is not valid.
ConfirmedSpendsPrevail ==
  Idle =>
    \A t, u \in Listed : Conflict(t, u) /\ blockHeight[t] # Unconfirmed
                                      /\ blockHeight[u] = Unconfirmed => u \in cache.invalid

\* updateBalance: "balance/UTXOs will then need to be recalculated when last block
\* changes".  No confirmed coinbase is locked for longer than it has to be.
MatureCoinbasesUnlocked ==
  Idle => \A t \in cache.locked :
            blockHeight[t] # Unconfirmed => LockedTill(t) > lastSyncBlockHeight
=============================================================================
