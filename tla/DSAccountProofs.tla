--------------------------- MODULE DSAccountProofs ---------------------------
(***************************************************************************)
(* Theorems about DSAccount, for every set of transactions, every way they *)
(* depend on and conflict with each other, and every height of the chain.  *)
(***************************************************************************)
EXTENDS DSAccount, SequenceTheorems, TLAPS

-----------------------------------------------------------------------------
(* Lists of transactions and lists of calls *)

\* A function on 1 .. n is a sequence.
LEMMA FunctionIsSeq ==
  ASSUME NEW S, NEW n \in Nat, NEW f \in [1 .. n -> S]
  PROVE  f \in Seq(S) /\ Len(f) = n
OBVIOUS

\* An arrangement of some transactions is a list of transactions.
LEMMA ArrangementType ==
  ASSUME NEW S \in SUBSET Txs, transactions \in Seq(Txs), NEW s \in Arrangements(S)
  PROVE  /\ s \in Seq(Txs)
         /\ {s[i] : i \in DOMAIN s} = S
         /\ \A i, j \in DOMAIN s : s[i] = s[j] => i = j
<1>1. PICK n \in 0 .. Len(transactions) : s \in [1 .. n -> S]
  BY DEF Arrangements
<1>2. n \in Nat
  BY <1>1
<1>3. s \in Seq(S)
  BY <1>1, <1>2, FunctionIsSeq
<1>4. s \in Seq(Txs)
  BY <1>3, SeqMonotonic
<1>5. {s[i] : i \in DOMAIN s} = S
  BY <1>1 DEF Arrangements
<1>6. \A i, j \in DOMAIN s : s[i] = s[j] => i = j
  BY DEF Arrangements
<1>7. QED
  BY <1>4, <1>5, <1>6

\* Listed transactions are transactions.
LEMMA ListedType ==
  ASSUME transactions \in Seq(Txs)
  PROVE  Listed \subseteq Txs
BY DEF Listed

\* What a call made with these arguments is.
LEMMA CallType ==
  ASSUME NEW op \in {"updateBalance", "setBlockHeight", "chainUpdatedBlockHeight", "newTip"},
         NEW h \in Heights, NEW S \in SUBSET Txs
  PROVE  /\ Call(op, h, S) \in Calls
         /\ Call(op, h, S).op = op /\ Call(op, h, S).height = h
BY DEF Call, Calls

\* Nothing counted yet is a result.
LEMMA NoResultsType == NoResults \in Results
BY EmptySeq DEF NoResults, Results

-----------------------------------------------------------------------------
(* Type correctness *)

\* Calls that may wait for the running one: none of them updates the balance,
\* and newTip is called with the height of a block.
MayWait(call) ==
  call.op # "updateBalance" /\ (call.op = "newTip" => call.height \in 0 .. MaxHeight)

Waiting(list) == list \in Seq(Calls) /\ \A i \in DOMAIN list : MayWait(list[i])

\* Only the running call updates the balance; the others may wait.  updateBalance
\* is somewhere in the list.
CallsInv ==
  /\ \A i \in DOMAIN calls : (i > 1 \/ calls[i].op # "updateBalance") => MayWait(calls[i])
  /\ Running("updateBalance") => pass.at <= Len(transactions)

Shape == TypeOK /\ CallsInv

\* If updateBalance is running, it has only been called.
Fresh == Running("updateBalance") => pass = StartPass(transactions)

\* The outputs of a transaction are counted: the results keep their types.
LEMMA CountType ==
  ASSUME NEW r \in Results, NEW t \in Txs
  PROVE  Count(r, t) \in Results
<1> DEFINE gone == (r.utxos \cup OwnOutputs(t)) \cap r.spent
           worth == r.balance + Value[OwnOutputs(t)] - Value[{c \in gone : CreatedBy[c] \in Known}]
           left == (r.utxos \cup OwnOutputs(t)) \ gone
<1>1. OwnOutputs(t) \subseteq Coins /\ OwnOutputs(t) \in SUBSET Coins
  BY AccountAssumption DEF AccountAssumption, TransactionAssumption, OwnOutputs
<1>2. r.utxos \subseteq Coins /\ r.balance \in Int
  BY DEF Results
<1>3. {c \in gone : CreatedBy[c] \in Known} \in SUBSET Coins
  BY <1>1, <1>2
<1>4. worth \in Int
  BY <1>1, <1>2, <1>3, AccountAssumption DEF AccountAssumption, ValueAssumption
<1>5. left \in SUBSET Coins
  BY <1>1, <1>2
<1>6. Count(r, t) = [r EXCEPT !.utxos = left, !.balance = worth]
  BY DEF Count
<1> HIDE DEF worth, left
<1>7. QED
  BY <1>4, <1>5, <1>6 DEF Results

\* updateBalance deals with one transaction: its results keep their types.
LEMMA ProcessType ==
  ASSUME NEW r \in Results, NEW t \in Txs
  PROVE  Process(r, t) \in Results
<1> DEFINE spent == [r EXCEPT !.spent = @ \cup Spends[t]]
<1>1. spent \in Results
  BY AccountAssumption DEF TransactionAssumption, AccountAssumption, Results
<1>2. ASSUME NEW q \in Results
      PROVE  Record(q) \in Results
  <2>1. q.balance \in Int /\ q.history \in Seq(Int)
    BY <1>2 DEF Results
  <2>2. <<q.balance>> \o q.history \in Seq(Int)
    BY <2>1, ConcatProperties
  <2>3. QED
    BY <2>2 DEF Record, Results
<1>3. Count(spent, t) \in Results
  <2> HIDE DEF spent
  <2>1. QED
    BY <1>1, CountType
<1>4. /\ [r EXCEPT !.invalid = @ \cup {t}] \in Results
      /\ [spent EXCEPT !.pending = @ \cup {t}] \in Results
      /\ [spent EXCEPT !.locked = @ \cup {t}] \in Results
  <2> HIDE DEF spent
  <2>1. QED
    BY <1>1 DEF Results
<1>5. QED
  BY <1>2, <1>3, <1>4 DEF Process

\* A call of updateBalance with a list, followed by calls that may wait.
LEMMA UpdateBalanceThenShape ==
  ASSUME NEW list \in Seq(Txs), NEW rest, Waiting(rest), UpdateBalanceThen(list, rest)
  PROVE  /\ calls' \in Seq(Calls) /\ pass' \in [at : Nat, results : Results]
         /\ transactions' = list => CallsInv' /\ Fresh'
<1> DEFINE call == Call("updateBalance", 0, {})
<1>1. call \in Calls /\ call.op = "updateBalance"
  <2>1. 0 \in Heights
    BY AccountAssumption DEF AccountAssumption, HeightAssumption, Heights
  <2>2. QED
    BY <2>1, CallType
<1>2. <<call>> \in Seq(Calls) /\ Len(<<call>>) = 1 /\ <<call>>[1] = call
  BY <1>1
<1>3. calls' = <<call>> \o rest /\ rest \in Seq(Calls)
  BY DEF UpdateBalanceThen, Waiting
<1> HIDE DEF call
<1>4. /\ calls' \in Seq(Calls) /\ Len(calls') = 1 + Len(rest)
      /\ \A i \in 1 .. Len(calls') : calls'[i] = IF i <= 1 THEN call ELSE rest[i - 1]
  <2>1. /\ <<call>> \o rest \in Seq(Calls)
        /\ Len(<<call>> \o rest) = Len(<<call>>) + Len(rest)
        /\ \A i \in 1 .. Len(<<call>>) + Len(rest) : (<<call>> \o rest)[i] =
             IF i <= Len(<<call>>) THEN <<call>>[i] ELSE rest[i - Len(<<call>>)]
    BY <1>2, <1>3, ConcatProperties
  <2>2. \A i \in 1 .. 1 + Len(rest) : i <= 1 => <<call>>[i] = call
    BY <1>2, <1>3, LenProperties
  <2>3. QED
    BY <1>2, <1>3, <2>1, <2>2
<1>5. pass' \in [at : Nat, results : Results] /\ pass' = StartPass(list) /\ pass'.at = Len(list)
  BY NoResultsType DEF UpdateBalanceThen, StartPass
<1>6. \A i \in DOMAIN calls' : i \in Nat /\ i \in 1 .. Len(calls') /\ (i > 1 => i - 1 \in DOMAIN rest)
  BY <1>3, <1>4, LenProperties
<1>7. \A i \in DOMAIN calls' : calls'[i] = call \/ MayWait(calls'[i])
  BY <1>4, <1>6 DEF Waiting
<1>8. \A i \in DOMAIN calls' : i > 1 => MayWait(calls'[i])
  BY <1>4, <1>6 DEF Waiting
<1>9. \A i \in DOMAIN calls' : (i > 1 \/ calls'[i].op # "updateBalance") => MayWait(calls'[i])
  BY <1>1, <1>7, <1>8
<1>10. transactions' = list => pass'.at <= Len(transactions')
  BY <1>5, LenProperties
<1>11. QED
  BY <1>4, <1>5, <1>9, <1>10 DEF CallsInv, MayWait, Fresh, StartPass

\* The running call, and those after it.
LEMMA HeadAndTail ==
  ASSUME Shape, calls # <<>>
  PROVE  /\ Head(calls) \in Calls /\ Waiting(Tail(calls))
         /\ Head(calls).op # "updateBalance" => MayWait(Head(calls))
<1>1. calls \in Seq(Calls) /\ Len(calls) \in Nat \ {0} /\ DOMAIN calls = 1 .. Len(calls)
  BY EmptySeq, LenProperties DEF Shape, TypeOK
<1>2. /\ Head(calls) \in Calls /\ Tail(calls) \in Seq(Calls) /\ Len(Tail(calls)) = Len(calls) - 1
      /\ \A i \in 1 .. Len(Tail(calls)) : Tail(calls)[i] = calls[i + 1]
  BY <1>1, HeadTailProperties
<1>3. DOMAIN Tail(calls) = 1 .. Len(Tail(calls))
  BY <1>2, LenProperties
<1>4. \A i \in DOMAIN Tail(calls) : i + 1 \in DOMAIN calls /\ i + 1 > 1
  BY <1>1, <1>2, <1>3
<1>5. \A i \in DOMAIN Tail(calls) : MayWait(Tail(calls)[i])
  BY <1>2, <1>3, <1>4 DEF Shape, CallsInv
<1>6. Head(calls) = calls[1] /\ 1 \in DOMAIN calls
  BY <1>1
<1>7. QED
  BY <1>2, <1>5, <1>6 DEF Waiting, Shape, CallsInv

\* When all calls may wait, updateBalance is not running.
LEMMA WaitingCalls ==
  ASSUME Waiting(calls)'
  PROVE  calls' \in Seq(Calls) /\ CallsInv' /\ Fresh'
<1>1. calls' \in Seq(Calls) /\ \A i \in DOMAIN calls' : MayWait(calls'[i])
  BY DEF Waiting, MayWait
<1>2. ~Running("updateBalance")'
  <2>1. SUFFICES ASSUME calls' # <<>>
                 PROVE  Head(calls').op # "updateBalance"
    BY DEF Running
  <2>2. Len(calls') \in Nat \ {0} /\ DOMAIN calls' = 1 .. Len(calls')
    BY <1>1, <2>1, EmptySeq, LenProperties
  <2>3. Head(calls') = calls'[1] /\ 1 \in DOMAIN calls'
    BY <1>1, <2>2
  <2>4. QED
    BY <1>1, <2>3 DEF MayWait
<1>3. QED
  BY <1>1, <1>2 DEF CallsInv, MayWait, Fresh

\* Nothing waits, or one call that may.
LEMMA WaitingFew ==
  /\ Waiting(<<>>)
  /\ \A call \in Calls : MayWait(call) => Waiting(<<call>>)
<1>1. <<>> \in Seq(Calls) /\ DOMAIN <<>> = {}
  BY EmptySeq
<1>2. ASSUME NEW call \in Calls, MayWait(call)
      PROVE  Waiting(<<call>>)
  <2>1. <<call>> \in Seq(Calls) /\ \A i \in DOMAIN <<call>> : <<call>>[i] = call
    OBVIOUS
  <2>2. QED
    BY <1>2, <2>1 DEF Waiting
<1>3. QED
  BY <1>1, <1>2 DEF Waiting

\* Calls that may wait, followed by others that may.
LEMMA WaitingConcat ==
  ASSUME NEW s, NEW u, Waiting(s), Waiting(u)
  PROVE  Waiting(s \o u)
<1>1. /\ s \in Seq(Calls) /\ u \in Seq(Calls)
      /\ Len(s) \in Nat /\ DOMAIN s = 1 .. Len(s) /\ Len(u) \in Nat /\ DOMAIN u = 1 .. Len(u)
  BY LenProperties DEF Waiting
<1>2. /\ s \o u \in Seq(Calls) /\ Len(s \o u) = Len(s) + Len(u)
      /\ \A i \in 1 .. Len(s) + Len(u) : (s \o u)[i] = IF i <= Len(s) THEN s[i] ELSE u[i - Len(s)]
  BY <1>1, ConcatProperties
<1>3. DOMAIN (s \o u) = 1 .. Len(s) + Len(u)
  BY <1>2, LenProperties
<1>4. ASSUME NEW i \in 1 .. Len(s) + Len(u)
      PROVE  MayWait((s \o u)[i])
  <2>1. CASE i <= Len(s)
    BY <1>1, <1>2, <2>1 DEF Waiting
  <2>2. CASE i > Len(s)
    <3>1. i - Len(s) \in DOMAIN u /\ (s \o u)[i] = u[i - Len(s)]
      BY <1>1, <1>2, <2>2
    <3>2. QED
      BY <3>1 DEF Waiting
  <2>3. QED
    BY <1>1, <2>1, <2>2
<1>5. QED
  BY <1>2, <1>3, <1>4 DEF Waiting

\* One turn of the loop.
LEMMA UpdateBalanceStepShape == Shape /\ UpdateBalanceStep => Shape'
<1> SUFFICES ASSUME Shape, UpdateBalanceStep
             PROVE  Shape'
  OBVIOUS
<1>1. pass.at \in 1 .. Len(transactions) /\ pass.results \in Results
  BY LenProperties DEF Shape, TypeOK, CallsInv, UpdateBalanceStep
<1>2. transactions[pass.at] \in Txs
  BY <1>1, ElementOfSeq DEF Shape, TypeOK
<1>3. Process(pass.results, transactions[pass.at]) \in Results
  BY <1>1, <1>2, ProcessType
<1>4. pass' \in [at : Nat, results : Results] /\ pass'.at <= Len(transactions')
  BY <1>1, <1>3, LenProperties DEF UpdateBalanceStep, Shape, TypeOK
<1>5. QED
  BY <1>4 DEF UpdateBalanceStep, Shape, TypeOK, Known, chain, CallsInv, MayWait, Running

\* The end of updateBalance.
LEMMA FinishUpdateBalanceShape == Shape /\ FinishUpdateBalance => Shape' /\ Fresh'
<1> SUFFICES ASSUME Shape, FinishUpdateBalance
             PROVE  Shape' /\ Fresh'
  OBVIOUS
<1>1. Waiting(calls)' /\ pass' \in [at : Nat, results : Results] /\ cache' \in Results
  BY HeadAndTail, NoResultsType
     DEF FinishUpdateBalance, Running, NoPass, Shape, TypeOK, Waiting, MayWait
<1>2. CallsInv' /\ Fresh' /\ calls' \in Seq(Calls)
  BY <1>1, WaitingCalls
<1>3. QED
  BY <1>1, <1>2 DEF FinishUpdateBalance, Shape, TypeOK, Known, chain

\* updateBalance is not called by another that waits.
LEMMA FinishedNotRunning ==
  ASSUME Shape, FinishUpdateBalance
  PROVE  ~Running("updateBalance")'
<1>1. Waiting(calls)'
  BY HeadAndTail DEF FinishUpdateBalance, Running, Waiting, MayWait
<1>2. SUFFICES ASSUME calls' # <<>>
               PROVE  Head(calls').op # "updateBalance"
  BY DEF Running
<1>3. calls' \in Seq(Calls) /\ \A i \in DOMAIN calls' : MayWait(calls'[i])
  BY <1>1 DEF Waiting, MayWait
<1>4. Len(calls') \in Nat \ {0} /\ DOMAIN calls' = 1 .. Len(calls')
  BY <1>2, <1>3, EmptySeq, LenProperties
<1>5. Head(calls') = calls'[1] /\ 1 \in DOMAIN calls'
  BY <1>3, <1>4
<1>6. QED
  BY <1>3, <1>5 DEF MayWait

\* A transaction is registered.
LEMMA RegisterTransactionShape ==
  ASSUME Shape, NEW t \in Txs, RegisterTransaction(t)
  PROVE  Shape' /\ Fresh'
<1>1. /\ DOMAIN allTx' = Known \cup {t} /\ allTx' \in [Known' -> Heights] /\ Known' \subseteq Txs
  BY DEF RegisterTransaction, Shape, TypeOK, Known, Heights
<1>2. transactions' \in Seq(Txs)
  <2>1. <<t>> \in Seq(Txs)
    OBVIOUS
  <2>2. <<t>> \o transactions \in Seq(Txs)
    BY <2>1, ConcatProperties DEF Shape, TypeOK
  <2>3. QED
    BY <2>2 DEF RegisterTransaction, Shape, TypeOK
<1>3. UpdateBalanceThen(transactions', <<>>)
  BY DEF RegisterTransaction
<1>4. calls' \in Seq(Calls) /\ pass' \in [at : Nat, results : Results] /\ CallsInv' /\ Fresh'
  BY <1>2, <1>3, WaitingFew, UpdateBalanceThenShape
<1>5. QED
  BY <1>1, <1>2, <1>4 DEF RegisterTransaction, Shape, TypeOK, chain

\* A transaction is removed, with its dependents.
LEMMA RemoveTransactionShape ==
  ASSUME Shape, NEW t \in Txs, RemoveTransaction(t)
  PROVE  Shape' /\ Fresh'
<1>1. DOMAIN allTx' \subseteq Known /\ allTx' \in [Known' -> Heights] /\ Known' \subseteq Txs
  BY DEF RemoveTransaction, Shape, TypeOK, Known
<1>2. transactions' \in Seq(Txs)
  <2>1. Listed \ RemovedWith(t) \in SUBSET Txs
    BY ListedType DEF Shape, TypeOK
  <2>2. QED
    BY <2>1, ArrangementType DEF RemoveTransaction, ListsWithout, Shape, TypeOK
<1>3. UpdateBalanceThen(transactions', <<>>)
  BY DEF RemoveTransaction
<1>4. calls' \in Seq(Calls) /\ pass' \in [at : Nat, results : Results] /\ CallsInv' /\ Fresh'
  BY <1>2, <1>3, WaitingFew, UpdateBalanceThenShape
<1>5. blockHeight' \in [Txs -> Heights]
  BY DEF RemoveTransaction, Shape, TypeOK, Heights
<1>6. QED
  BY <1>1, <1>2, <1>4, <1>5 DEF RemoveTransaction, Shape, TypeOK, chain

\* Everything is wiped.
LEMMA WipeShape == Shape /\ Wipe => Shape' /\ Fresh'
<1> SUFFICES ASSUME Shape, Wipe
             PROVE  Shape' /\ Fresh'
  OBVIOUS
<1>1. <<>> \in Seq(Txs) /\ transactions' = <<>> /\ UpdateBalanceThen(<<>>, <<>>)
  BY EmptySeq DEF Wipe
<1>2. calls' \in Seq(Calls) /\ pass' \in [at : Nat, results : Results] /\ CallsInv' /\ Fresh'
  BY <1>1, WaitingFew, UpdateBalanceThenShape
<1>3. 0 \in 0 .. MaxHeight /\ Unconfirmed \in Heights
  BY AccountAssumption DEF AccountAssumption, HeightAssumption, Heights
<1>4. QED
  BY <1>1, <1>2, <1>3 DEF Wipe, Shape, TypeOK, Known

\* The best height stays a height of the chain.
LEMMA BestHeightType ==
  ASSUME Shape, NEW h \in Heights, AddToBestHeight(h)
  PROVE  bestBlockHeight' \in 0 .. MaxHeight
BY DEF AddToBestHeight, Shape, TypeOK, Heights

\* Transactions get a height.
LEMMA SetBlockHeightShape ==
  ASSUME Shape, SetBlockHeightCall
  PROVE  Shape' /\ Fresh'
<1> DEFINE h == Head(calls).height
           hashes == Head(calls).hashes
           rest == Tail(calls)
<1>1. h \in Heights /\ hashes \subseteq Txs /\ Waiting(rest)
  BY HeadAndTail DEF SetBlockHeightCall, Running, Calls
<1>2. PICK touched \in SUBSET (hashes \cap Known) :
        LET ours == {t \in touched : CanContain(Known, t)}
            kept == IF h = Unconfirmed THEN Known ELSE Known \ (touched \ ours)
        IN  /\ allTx' = [t \in kept |-> IF t \in touched THEN h ELSE allTx[t]]
            /\ blockHeight' =
                 [t \in Txs |-> IF t \in (touched \cap Listed) \ twins THEN h ELSE blockHeight[t]]
            /\ IF NeedsUpdate(ours)
               THEN /\ transactions' \in SortedLists(blockHeight')
                    /\ UpdateBalanceThen(transactions', rest)
               ELSE /\ calls' = rest
                    /\ UNCHANGED <<transactions, pass>>
  BY DEF SetBlockHeightCall, SetBlockHeight
<1> DEFINE ours == {t \in touched : CanContain(Known, t)}
<1>3. DOMAIN allTx' \subseteq Known /\ allTx' \in [Known' -> Heights] /\ Known' \subseteq Txs
  BY <1>1, <1>2 DEF Shape, TypeOK, Known
<1>4. blockHeight' \in [Txs -> Heights]
  BY <1>1, <1>2 DEF Shape, TypeOK
<1>5. /\ transactions' \in Seq(Txs) /\ calls' \in Seq(Calls) /\ CallsInv' /\ Fresh'
      /\ pass' \in [at : Nat, results : Results]
  <2>1. CASE NeedsUpdate(ours)
    <3>1. transactions' \in Arrangements(Listed)
      BY <1>2, <2>1 DEF SortedLists
    <3>2. transactions' \in Seq(Txs)
      BY <3>1, ListedType, ArrangementType DEF Shape, TypeOK
    <3>3. UpdateBalanceThen(transactions', rest)
      BY <1>2, <2>1
    <3>4. QED
      BY <1>1, <3>2, <3>3, UpdateBalanceThenShape
  <2>2. CASE ~NeedsUpdate(ours)
    <3>1. calls' = rest /\ UNCHANGED <<transactions, pass>>
      BY <1>2, <2>2
    <3>2. Waiting(calls)'
      BY <1>1, <3>1 DEF Waiting, MayWait
    <3>3. calls' \in Seq(Calls) /\ CallsInv' /\ Fresh'
      BY <3>2, WaitingCalls
    <3>4. QED
      BY <3>1, <3>3 DEF Shape, TypeOK
  <2>3. QED
    BY <2>1, <2>2
<1>6. bestBlockHeight' \in 0 .. MaxHeight
  BY <1>1, BestHeightType DEF SetBlockHeightCall
<1>7. QED
  BY <1>3, <1>4, <1>5, <1>6 DEF SetBlockHeightCall, Shape, TypeOK, chain

\* The account hears of a height.
LEMMA ChainUpdatedShape == Shape /\ ChainUpdatedBlockHeight => Shape' /\ Fresh'
<1> SUFFICES ASSUME Shape, ChainUpdatedBlockHeight
             PROVE  Shape' /\ Fresh'
  OBVIOUS
<1>1. Head(calls).height \in Heights /\ Waiting(Tail(calls))
  BY HeadAndTail DEF ChainUpdatedBlockHeight, Running, Calls
<1>2. bestBlockHeight' \in 0 .. MaxHeight
  BY <1>1, BestHeightType DEF ChainUpdatedBlockHeight
<1>3. calls' \in Seq(Calls) /\ CallsInv' /\ Fresh' /\ pass' \in [at : Nat, results : Results]
  <2>1. CASE UpdateBalanceThen(transactions, Tail(calls))
    BY <1>1, <2>1, UpdateBalanceThenShape DEF ChainUpdatedBlockHeight, Shape, TypeOK
  <2>2. CASE calls' = Tail(calls) /\ UNCHANGED pass
    <3>1. Waiting(calls)'
      BY <1>1, <2>2 DEF Waiting, MayWait
    <3>2. QED
      BY <2>2, <3>1, WaitingCalls DEF Shape, TypeOK
  <2>3. QED
    BY <2>1, <2>2 DEF ChainUpdatedBlockHeight
<1>4. QED
  BY <1>2, <1>3 DEF ChainUpdatedBlockHeight, Shape, TypeOK, Known, chain

\* The tip moves at the end of a reorganisation.
LEMMA NewTipShape == Shape /\ NewTip => Shape' /\ Fresh'
<1> SUFFICES ASSUME Shape, NewTip
             PROVE  Shape' /\ Fresh'
  OBVIOUS
<1>1. Head(calls).height \in 0 .. MaxHeight /\ Waiting(Tail(calls))
  BY HeadAndTail DEF NewTip, Running, MayWait
<1>2. Waiting(calls)'
  BY <1>1 DEF NewTip, Waiting, MayWait
<1>3. calls' \in Seq(Calls) /\ CallsInv' /\ Fresh'
  BY <1>2, WaitingCalls
<1>4. QED
  BY <1>1, <1>3 DEF NewTip, Shape, TypeOK, Known

\* The call that a block makes may wait.
LEMMA BlockCallWaits ==
  ASSUME NEW h \in Heights, NEW S \in SUBSET Txs, NEW matched \in BOOLEAN
  PROVE  BlockCall(h, S, matched) \in Calls /\ MayWait(BlockCall(h, S, matched))
BY CallType DEF BlockCall, MayWait

\* An action that only makes one call of the chain.
LEMMA OneCallShape ==
  ASSUME Shape, NEW call \in Calls, MayWait(call), calls' = <<call>>,
         lastSyncBlockHeight' \in 0 .. MaxHeight, mined' \in [Txs -> Heights],
         UNCHANGED <<allTx, transactions, blockHeight, twins, cache, bestBlockHeight, pass, removed>>
  PROVE  Shape' /\ Fresh'
<1>1. Waiting(calls)'
  BY WaitingFew DEF Waiting, MayWait
<1>2. calls' \in Seq(Calls) /\ CallsInv' /\ Fresh'
  BY <1>1, WaitingCalls
<1>3. QED
  BY <1>2 DEF Shape, TypeOK, Known

\* A block is added to the chain.
LEMMA ExtendSyncChainShape ==
  ASSUME Shape, NEW S \in SUBSET Txs, NEW matched \in BOOLEAN, ExtendSyncChain(S, matched)
  PROVE  Shape' /\ Fresh'
<1>1. lastSyncBlockHeight' \in 0 .. MaxHeight /\ lastSyncBlockHeight + 1 \in Heights
  BY AccountAssumption
     DEF AccountAssumption, HeightAssumption, ExtendSyncChain, Heights, Shape, TypeOK
<1>2. mined' \in [Txs -> Heights]
  BY <1>1 DEF ExtendSyncChain, Shape, TypeOK
<1> DEFINE call == BlockCall(lastSyncBlockHeight + 1, S, matched)
<1>3. call \in Calls /\ MayWait(call)
  BY <1>1, BlockCallWaits
<1> HIDE DEF call
<1>4. calls' = <<call>>
  BY DEF ExtendSyncChain, call
<1>5. QED
  BY <1>1, <1>2, <1>3, <1>4, OneCallShape DEF ExtendSyncChain

\* A block is added again.
LEMMA ReplaceSyncBlockShape ==
  ASSUME Shape, NEW h \in 1 .. lastSyncBlockHeight, ReplaceSyncBlock(h)
  PROVE  Shape' /\ Fresh'
<1>1. h \in Heights
  BY AccountAssumption DEF AccountAssumption, HeightAssumption, Heights, Shape, TypeOK
<1> DEFINE S == MinedAt(mined, h)
           call == BlockCall(h, S, S # {})
<1>2. S \in SUBSET Txs /\ (S # {}) \in BOOLEAN
  BY DEF MinedAt
<1>3. call \in Calls /\ MayWait(call)
  BY <1>1, <1>2, BlockCallWaits
<1>4. calls' = <<call>>
  BY DEF ReplaceSyncBlock
<1> HIDE DEF call
<1>5. QED
  BY <1>3, <1>4, OneCallShape DEF ReplaceSyncBlock, chain, Shape, TypeOK

\* Only the timestamp of a transaction changes.
LEMMA SetTimestampShape ==
  ASSUME Shape, NEW t \in Txs, SetTimestamp(t)
  PROVE  Shape' /\ Fresh'
<1> DEFINE call == Call("setBlockHeight", Unconfirmed, {t})
<1>1. Unconfirmed \in Heights /\ {t} \in SUBSET Txs
  BY DEF Heights
<1>2. call \in Calls /\ MayWait(call)
  BY <1>1, CallType DEF MayWait
<1>3. calls' = <<call>>
  BY DEF SetTimestamp
<1> HIDE DEF call
<1>4. QED
  BY <1>2, <1>3, OneCallShape DEF SetTimestamp, chain, Shape, TypeOK

\* The chain reorganises: the transactions lose their heights, those of the new
\* branch get theirs, the tip moves.
LEMMA ReorganizeShape ==
  ASSUME Shape, NEW join \in 0 .. MaxHeight, NEW top \in 1 .. MaxHeight,
         NEW heights \in [Txs -> Heights], join < top, Reorganize(join, top, heights)
  PROVE  Shape' /\ Fresh'
<1> DEFINE above == {t \in Listed : blockHeight[t] > join /\ blockHeight[t] # Unconfirmed}
           block(i) == BlockCall(top + 1 - i, MinedAt(heights, top + 1 - i),
                                 MinedAt(heights, top + 1 - i) # {})
           blocks == [i \in 1 .. top - join |-> block(i)]
           first == Call("setBlockHeight", Unconfirmed, above)
           last == Call("newTip", top, {})
<1>1. MaxHeight \in Nat /\ Unconfirmed \in Heights /\ top \in Heights
  BY AccountAssumption DEF AccountAssumption, HeightAssumption, Heights
<1>2. above \in SUBSET Txs
  BY ListedType DEF Shape, TypeOK
<1>3. first \in Calls /\ MayWait(first)
  BY <1>1, <1>2, CallType DEF MayWait
<1>4. last \in Calls /\ MayWait(last)
  BY <1>1, CallType DEF MayWait
<1>5. ASSUME NEW i \in 1 .. top - join
      PROVE  block(i) \in Calls /\ MayWait(block(i))
  <2>1. top + 1 - i \in Heights
    BY <1>1 DEF Heights
  <2>2. MinedAt(heights, top + 1 - i) \in SUBSET Txs
    BY DEF MinedAt
  <2>3. QED
    BY <2>1, <2>2, BlockCallWaits
<1>6. calls' = <<first>> \o blocks \o <<last>>
  BY DEF Reorganize
<1>7. \A i \in DOMAIN blocks : blocks[i] = block(i) /\ i \in 1 .. top - join
  OBVIOUS
<1> HIDE DEF first, last, block
<1>8. Waiting(blocks)
  <2>1. top - join \in Nat
    BY <1>1
  <2>2. blocks \in [1 .. top - join -> Calls]
    BY <1>5
  <2>3. blocks \in Seq(Calls)
    BY <2>1, <2>2, FunctionIsSeq
  <2>4. QED
    BY <1>5, <1>7, <2>3 DEF Waiting
<1> HIDE DEF blocks
<1>9. Waiting(<<first>> \o blocks \o <<last>>)
  BY <1>3, <1>4, <1>8, WaitingFew, WaitingConcat
<1>10. Waiting(calls)'
  BY <1>6, <1>9 DEF Waiting, MayWait
<1>11. calls' \in Seq(Calls) /\ CallsInv' /\ Fresh'
  BY <1>10, WaitingCalls
<1>12. QED
  BY <1>11 DEF Reorganize, Shape, TypeOK, Known

\* The account starts empty.
LEMMA InitShape == Init => Shape
<1> SUFFICES ASSUME Init
             PROVE  Shape
  OBVIOUS
<1>1. <<>> \in Seq(Txs) /\ <<>> \in Seq(Calls)
  BY EmptySeq
<1>2. 0 \in 0 .. MaxHeight /\ Unconfirmed \in Heights
  BY AccountAssumption DEF AccountAssumption, HeightAssumption, Heights
<1>3. TypeOK
  BY <1>1, <1>2, NoResultsType DEF Init, TypeOK, Known, NoPass
<1>4. CallsInv
  BY DEF Init, CallsInv, Running
<1>5. QED
  BY <1>3, <1>4 DEF Shape

\* What every step but a turn of the loop does: if it runs updateBalance, it has
\* only called it.
OtherStep ==
  \/ FinishUpdateBalance \/ SetBlockHeightCall \/ ChainUpdatedBlockHeight \/ NewTip
  \/ \E t \in Txs : RegisterTransaction(t) \/ RemoveTransaction(t) \/ SetTimestamp(t)
  \/ \E S \in SUBSET Txs, matched \in BOOLEAN : ExtendSyncChain(S, matched)
  \/ \E h \in 1 .. lastSyncBlockHeight : ReplaceSyncBlock(h)
  \/ \E join \in 0 .. MaxHeight, top \in 1 .. MaxHeight, heights \in [Txs -> Heights] :
       join < top /\ Reorganize(join, top, heights)
  \/ Wipe

\* Every other step keeps the types, and leaves updateBalance only called.
LEMMA OtherStepShape == Shape /\ OtherStep => Shape' /\ Fresh'
<1> SUFFICES ASSUME Shape, OtherStep
             PROVE  Shape' /\ Fresh'
  OBVIOUS
<1>1. CASE FinishUpdateBalance \/ SetBlockHeightCall \/ ChainUpdatedBlockHeight \/ NewTip
  BY <1>1, FinishUpdateBalanceShape, SetBlockHeightShape, ChainUpdatedShape, NewTipShape
<1>2. CASE \E t \in Txs : RegisterTransaction(t) \/ RemoveTransaction(t) \/ SetTimestamp(t)
  BY <1>2, RegisterTransactionShape, RemoveTransactionShape, SetTimestampShape
<1>3. CASE \E S \in SUBSET Txs, matched \in BOOLEAN : ExtendSyncChain(S, matched)
  BY <1>3, ExtendSyncChainShape
<1>4. CASE \E h \in 1 .. lastSyncBlockHeight : ReplaceSyncBlock(h)
  BY <1>4, ReplaceSyncBlockShape
<1>5. CASE \E join \in 0 .. MaxHeight, top \in 1 .. MaxHeight, heights \in [Txs -> Heights] :
             join < top /\ Reorganize(join, top, heights)
  BY <1>5, ReorganizeShape
<1>6. CASE Wipe
  BY <1>6, WipeShape
<1>7. QED
  BY <1>1, <1>2, <1>3, <1>4, <1>5, <1>6 DEF OtherStep

\* A step is a turn of the loop or one of the others.
LEMMA NextSplit == Next => UpdateBalanceStep \/ OtherStep
BY DEF Next, HandlerStep, OtherStep

\* Every step keeps the types and what is known of the calls.
LEMMA NextShape == Shape /\ [Next]_vars => Shape'
<1>1. Shape /\ UNCHANGED vars => Shape'
  BY DEF vars, chain, Shape, TypeOK, Known, CallsInv, MayWait, Running
<1>2. QED
  BY <1>1, NextSplit, OtherStepShape, UpdateBalanceStepShape

\* The account, the calls of the chain and the local variables of updateBalance
\* keep their types.
LEMMA ShapeInvariant == Spec => []Shape
BY InitShape, NextShape, PTL DEF Spec

\* Type correctness of the account: every call has its arguments, updateBalance
\* never looks outside the list.
THEOREM TypeCorrect == Spec => []TypeOK
<1>1. Shape => TypeOK
  BY DEF Shape
<1>2. QED
  BY <1>1, ShapeInvariant, PTL

-----------------------------------------------------------------------------
(* The list *)

Distinct == \A i, j \in DOMAIN transactions : transactions[i] = transactions[j] => i = j

\* A listed transaction that pays the account is known, so that the amounts of
\* its outputs can be looked up.
PayersKnown == \A t \in Listed : OwnOutputs(t) # {} => t \in Known

ListInv == Distinct /\ PayersKnown

\* A transaction in front of the list is listed, and so are the others.
LEMMA PrependListed ==
  ASSUME transactions \in Seq(Txs), NEW t \in Txs, transactions' = <<t>> \o transactions
  PROVE  Listed' = Listed \cup {t}
<1>1. <<t>> \in Seq(Txs) /\ Len(<<t>>) = 1 /\ <<t>>[1] = t
  OBVIOUS
<1>2. Len(transactions) \in Nat /\ DOMAIN transactions = 1 .. Len(transactions)
  BY LenProperties
<1>3. /\ transactions' \in Seq(Txs) /\ Len(transactions') = 1 + Len(transactions)
      /\ \A i \in 1 .. 1 + Len(transactions) :
           transactions'[i] = IF i <= 1 THEN <<t>>[i] ELSE transactions[i - 1]
  BY <1>1, ConcatProperties
<1>4. DOMAIN transactions' = 1 .. 1 + Len(transactions)
  BY <1>3, LenProperties
<1>5. transactions'[1] = t /\ 1 \in DOMAIN transactions'
  BY <1>1, <1>2, <1>3, <1>4
<1>6. \A i \in DOMAIN transactions' : i # 1 => i - 1 \in DOMAIN transactions /\ transactions'[i] = transactions[i - 1]
  BY <1>2, <1>3, <1>4
<1>7. \A i \in DOMAIN transactions : i + 1 \in DOMAIN transactions' /\ transactions'[i + 1] = transactions[i]
  <2>1. \A i \in DOMAIN transactions : i + 1 \in DOMAIN transactions' /\ i + 1 # 1 /\ (i + 1) - 1 = i
    BY <1>2, <1>4
  <2>2. QED
    BY <1>6, <2>1
<1>8. Listed' \subseteq Listed \cup {t}
  BY <1>5, <1>6 DEF Listed
<1>9. Listed \subseteq Listed'
  BY <1>7 DEF Listed
<1>10. QED
  BY <1>5, <1>8, <1>9 DEF Listed

\* A transaction in front of a list that does not have it.
LEMMA PrependDistinct ==
  ASSUME transactions \in Seq(Txs), Distinct, NEW t \in Txs, t \notin Listed,
         transactions' = <<t>> \o transactions
  PROVE  Distinct' /\ Listed' = Listed \cup {t}
<1>1. <<t>> \in Seq(Txs) /\ Len(<<t>>) = 1 /\ <<t>>[1] = t
  OBVIOUS
<1>2. Len(transactions) \in Nat /\ DOMAIN transactions = 1 .. Len(transactions)
  BY LenProperties
<1>3. /\ transactions' \in Seq(Txs) /\ Len(transactions') = 1 + Len(transactions)
      /\ \A i \in 1 .. 1 + Len(transactions) :
           transactions'[i] = IF i <= 1 THEN <<t>>[i] ELSE transactions[i - 1]
  BY <1>1, ConcatProperties
<1>4. DOMAIN transactions' = 1 .. 1 + Len(transactions)
  BY <1>3, LenProperties
<1>5. transactions'[1] = t
  BY <1>1, <1>2, <1>3
<1>6. \A i \in DOMAIN transactions' : i # 1 => i - 1 \in DOMAIN transactions /\ transactions'[i] = transactions[i - 1]
  BY <1>2, <1>3, <1>4
<1>7. Distinct'
  <2>1. SUFFICES ASSUME NEW i \in DOMAIN transactions', NEW j \in DOMAIN transactions',
                        transactions'[i] = transactions'[j]
                 PROVE  i = j
    BY DEF Distinct
  <2>2. i \in Nat /\ j \in Nat
    BY <1>4
  <2>3. CASE i = 1 \/ j = 1
    BY <1>5, <1>6, <2>1, <2>3 DEF Listed
  <2>4. CASE i # 1 /\ j # 1
    <3>1. i - 1 = j - 1
      BY <1>6, <2>1, <2>4 DEF Distinct
    <3>2. QED
      BY <2>2, <3>1
  <2>5. QED
    BY <2>3, <2>4
<1>8. QED
  BY <1>7, PrependListed

\* An arrangement in place of the list.
LEMMA ArrangementDistinct ==
  ASSUME transactions \in Seq(Txs), NEW S \in SUBSET Txs, transactions' \in Arrangements(S)
  PROVE  Distinct' /\ Listed' = S
BY ArrangementType DEF Distinct, Listed

\* Every step keeps the list without repetitions, and its payers known.
LEMMA NextListInv ==
  ASSUME Shape, ListInv, [Next]_vars
  PROVE  ListInv'
<1>1. transactions \in Seq(Txs) /\ Listed \subseteq Txs
  BY ListedType DEF Shape, TypeOK
<1>2. ASSUME UNCHANGED <<allTx, transactions>>
      PROVE  ListInv'
  BY <1>2 DEF ListInv, Distinct, PayersKnown, Listed, Known
<1>3. ASSUME NEW t \in Txs, RegisterTransaction(t)
      PROVE  ListInv'
  <2>1. Known' = Known \cup {t}
    BY <1>3 DEF RegisterTransaction, Known
  <2>2. CASE t \in Listed
    <3>1. UNCHANGED transactions
      BY <1>3, <2>2 DEF RegisterTransaction
    <3>2. QED
      BY <2>1, <3>1 DEF ListInv, Distinct, PayersKnown, Listed
  <2>3. CASE t \notin Listed
    <3>1. transactions' = <<t>> \o transactions
      BY <1>3, <2>3 DEF RegisterTransaction
    <3>2. Distinct' /\ Listed' = Listed \cup {t}
      BY <1>1, <2>3, <3>1, PrependDistinct DEF ListInv
    <3>3. QED
      BY <2>1, <3>2 DEF ListInv, PayersKnown
  <2>4. QED
    BY <2>2, <2>3
<1>4. ASSUME NEW t \in Txs, RemoveTransaction(t)
      PROVE  ListInv'
  <2>1. Known' = Known \ RemovedWith(t)
    BY <1>4 DEF RemoveTransaction, Known
  <2>2. transactions' \in Arrangements(Listed \ RemovedWith(t))
    BY <1>4 DEF RemoveTransaction, ListsWithout
  <2>3. Distinct' /\ Listed' = Listed \ RemovedWith(t)
    BY <1>1, <2>2, ArrangementDistinct
  <2>4. QED
    BY <2>1, <2>3 DEF ListInv, PayersKnown
<1>5. CASE SetBlockHeightCall
  <2>1. PICK touched \in SUBSET (Head(calls).hashes \cap Known) :
          /\ DOMAIN allTx' = IF Head(calls).height = Unconfirmed THEN Known
                             ELSE Known \ (touched \ {t \in touched : CanContain(Known, t)})
          /\ transactions' \in SortedLists(blockHeight') \/ transactions' = transactions
    BY <1>5 DEF SetBlockHeightCall, SetBlockHeight
  <2>2. \A t \in Known : OwnOutputs(t) # {} => t \in Known'
    BY <2>1 DEF Known, CanContain
  <2>3. Distinct' /\ Listed' = Listed
    <3>1. CASE transactions' = transactions
      BY <3>1 DEF ListInv, Distinct, Listed
    <3>2. CASE transactions' \in SortedLists(blockHeight')
      BY <1>1, <3>2, ArrangementDistinct DEF SortedLists
    <3>3. QED
      BY <2>1, <3>1, <3>2
  <2>4. QED
    BY <2>2, <2>3 DEF ListInv, PayersKnown
<1>6. CASE Wipe
  BY <1>6 DEF Wipe, ListInv, Distinct, PayersKnown, Listed
<1>7. QED
  BY <1>2, <1>3, <1>4, <1>5, <1>6
     DEF Next, HandlerStep, UpdateBalanceStep, FinishUpdateBalance, ChainUpdatedBlockHeight, NewTip,
         SetTimestamp, ExtendSyncChain, ReplaceSyncBlock, Reorganize, vars

-----------------------------------------------------------------------------
(* What updateBalance computes *)

\* What is known of the results when the transactions in done are dealt with.
Sound(r, done) ==
  /\ r.invalid \subseteq done
  /\ \A t \in done \ r.invalid : Spends[t] \subseteq r.spent
  /\ \A t, u \in done \ r.invalid :
       Conflict(t, u) => ~(blockHeight[t] = Unconfirmed /\ blockHeight[u] = Unconfirmed)
  /\ \A c \in r.utxos : c \in Mine /\ CreatedBy[c] \in done
  /\ r.utxos \cap r.spent \subseteq SpentBy(r.pending)
  /\ r.balance = Value[r.utxos]

\* Outputs come and go: the balance stays what they are worth.
LEMMA ValueOfChange ==
  ASSUME NEW S \in SUBSET Coins, NEW T \in SUBSET Coins, S \cap T = {},
         NEW out \in SUBSET Coins, out \subseteq S \cup T
  PROVE  Value[(S \cup T) \ out] = Value[S] + Value[T] - Value[out]
<1> DEFINE all == S \cup T
           left == all \ out
<1>1. all \in SUBSET Coins /\ left \in SUBSET Coins /\ left \cap out = {} /\ left \cup out = all
  OBVIOUS
<1>2. Value[all] = Value[S] + Value[T]
  BY AccountAssumption DEF AccountAssumption, ValueAssumption
<1>3. Value[left \cup out] = Value[left] + Value[out]
  BY <1>1, AccountAssumption DEF AccountAssumption, ValueAssumption
<1>4. Value[left] \in Nat /\ Value[out] \in Nat /\ Value[S] \in Nat /\ Value[T] \in Nat
  BY <1>1, AccountAssumption DEF AccountAssumption, ValueAssumption
<1> HIDE DEF all, left
<1>5. Value[left] = Value[S] + Value[T] - Value[out]
  BY <1>1, <1>2, <1>3, <1>4
<1>6. QED
  BY <1>5 DEF left, all

\* One turn of the loop: what is known of the results holds with the transaction
\* dealt with, too.  That it was not before is why its outputs are counted once.
LEMMA ProcessSound ==
  ASSUME TypeOK, PayersKnown, NEW r \in Results, NEW done \in SUBSET Listed, NEW t \in Listed,
         t \notin done, Sound(r, done)
  PROVE  Sound(Process(r, t), done \cup {t})
<1> DEFINE spent == [r EXCEPT !.spent = @ \cup Spends[t]]
           now == done \cup {t}
<1>1. ASSUME NEW q, Sound(q, now)
      PROVE  Sound(Record(q), now)
  BY <1>1 DEF Sound, Record
<1>2. t \in Txs /\ done \subseteq Txs
  BY ListedType DEF TypeOK
<1>3. CASE IsInvalid(r, t)
  <2> DEFINE q == [r EXCEPT !.invalid = @ \cup {t}]
  <2>1. /\ q.invalid = r.invalid \cup {t} /\ q.spent = r.spent /\ q.utxos = r.utxos
        /\ q.balance = r.balance /\ q.pending = r.pending
    BY DEF Results
  <2>2. Process(r, t) = Record(q)
    BY <1>3 DEF Process
  <2> HIDE DEF q
  <2>3. now \ q.invalid \subseteq done \ r.invalid
    BY <2>1
  <2>4. Sound(q, now)
    BY <2>1, <2>3 DEF Sound
  <2>5. QED
    BY <1>1, <2>2, <2>4
<1>4. CASE ~IsInvalid(r, t)
  <2>1. /\ spent.spent = r.spent \cup Spends[t] /\ spent.invalid = r.invalid
        /\ spent.utxos = r.utxos /\ spent.balance = r.balance /\ spent.pending = r.pending
        /\ spent \in Results
    BY <1>2, AccountAssumption DEF AccountAssumption, TransactionAssumption, Results
  <2>2. \A u, v \in now \ r.invalid :
          Conflict(u, v) => ~(blockHeight[u] = Unconfirmed /\ blockHeight[v] = Unconfirmed)
    <3>1. SUFFICES ASSUME NEW u \in now \ r.invalid, NEW v \in now \ r.invalid, Conflict(u, v),
                          blockHeight[u] = Unconfirmed, blockHeight[v] = Unconfirmed
                   PROVE  FALSE
      OBVIOUS
    <3>2. CASE u \in done /\ v \in done
      BY <3>1, <3>2 DEF Sound
    <3>3. CASE u = t /\ v \in done
      BY <1>4, <3>1, <3>3 DEF Sound, IsInvalid, Conflict
    <3>4. CASE u \in done /\ v = t
      BY <1>4, <3>1, <3>4 DEF Sound, IsInvalid, Conflict
    <3>5. QED
      BY <3>1, <3>2, <3>3, <3>4 DEF Conflict
  <2>3. \A u \in now \ r.invalid : Spends[u] \subseteq spent.spent
    BY <2>1 DEF Sound
  <2>4. r.invalid \subseteq now
    BY DEF Sound
  <2>5. CASE IsPending(r, t)
    <3> DEFINE q == [spent EXCEPT !.pending = @ \cup {t}]
    <3>1. Process(r, t) = Record(q)
      BY <1>4, <2>5 DEF Process
    <3>2. /\ q.spent = spent.spent /\ q.invalid = r.invalid /\ q.utxos = r.utxos
          /\ q.balance = r.balance /\ q.pending = r.pending \cup {t}
      <4> HIDE DEF spent
      <4>1. QED
        BY <2>1 DEF Results
    <3> HIDE DEF q, spent
    <3>3. q.utxos \cap q.spent \subseteq SpentBy(q.pending)
      BY <2>1, <3>2 DEF Sound, SpentBy
    <3>4. Sound(q, now)
      BY <2>2, <2>3, <2>4, <3>2, <3>3 DEF Sound
    <3>5. QED
      BY <1>1, <3>1, <3>4
  <2>6. CASE ~IsPending(r, t) /\ IsLocked(t)
    <3> DEFINE q == [spent EXCEPT !.locked = @ \cup {t}]
    <3>1. Process(r, t) = Record(q)
      BY <1>4, <2>6 DEF Process
    <3>2. /\ q.spent = spent.spent /\ q.invalid = r.invalid /\ q.utxos = r.utxos
          /\ q.balance = r.balance /\ q.pending = r.pending
      <4> HIDE DEF spent
      <4>1. QED
        BY <2>1 DEF Results
    <3>3. Spends[t] = {}
      BY <2>6, AccountAssumption DEF AccountAssumption, TransactionAssumption, IsLocked
    <3> HIDE DEF q, spent
    <3>4. Sound(q, now)
      BY <2>1, <2>2, <2>3, <2>4, <3>2, <3>3 DEF Sound
    <3>5. QED
      BY <1>1, <3>1, <3>4
  <2>7. CASE ~IsPending(r, t) /\ ~IsLocked(t)
    <3> DEFINE q == Count(spent, t)
               out == (r.utxos \cup OwnOutputs(t)) \cap spent.spent
    <3>1. Process(r, t) = Record(q)
      BY <1>4, <2>7 DEF Process
    <3>2. /\ \A c \in r.utxos : c \in Mine /\ CreatedBy[c] \in done
          /\ r.utxos \in SUBSET Coins /\ OwnOutputs(t) \in SUBSET Coins
      BY AccountAssumption DEF AccountAssumption, TransactionAssumption, Sound, Results, OwnOutputs
    <3>3. r.utxos \cap OwnOutputs(t) = {}
      BY <3>2 DEF OwnOutputs
    <3>4. {c \in out : CreatedBy[c] \in Known} = out
      <4>1. \A c \in r.utxos \cup OwnOutputs(t) :
              CreatedBy[c] \in Listed /\ c \in OwnOutputs(CreatedBy[c])
        BY <3>2 DEF OwnOutputs
      <4>2. \A c \in out : CreatedBy[c] \in Known
        BY <4>1 DEF PayersKnown
      <4>3. QED
        BY <4>2
    <3>5. /\ q.spent = spent.spent /\ q.invalid = r.invalid /\ q.pending = r.pending
          /\ q.utxos = (r.utxos \cup OwnOutputs(t)) \ out
          /\ q.balance = r.balance + Value[OwnOutputs(t)] - Value[{c \in out : CreatedBy[c] \in Known}]
      <4> HIDE DEF spent
      <4>1. QED
        BY <2>1 DEF Results, Count
    <3>6. q.balance = Value[q.utxos]
      <4>1. Value[(r.utxos \cup OwnOutputs(t)) \ out] = Value[r.utxos] + Value[OwnOutputs(t)] - Value[out]
        <5>1. out \in SUBSET Coins /\ out \subseteq r.utxos \cup OwnOutputs(t)
          BY <3>2
        <5> HIDE DEF out
        <5>2. QED
          BY <3>2, <3>3, <5>1, ValueOfChange
      <4>2. r.balance = Value[r.utxos]
        BY DEF Sound
      <4>3. QED
        BY <3>4, <3>5, <4>1, <4>2
    <3>7. q.utxos \cap q.spent = {}
      BY <3>5
    <3>8. \A c \in q.utxos : c \in Mine /\ CreatedBy[c] \in now
      BY <3>2, <3>5 DEF OwnOutputs
    <3> HIDE DEF q, spent
    <3>9. Sound(q, now)
      BY <2>2, <2>3, <2>4, <3>5, <3>6, <3>7, <3>8 DEF Sound
    <3>10. QED
      BY <1>1, <3>1, <3>9
  <2>8. QED
    BY <2>5, <2>6, <2>7
<1>5. QED
  BY <1>3, <1>4

\* What is known while updateBalance runs.
PassInv == Running("updateBalance") => Sound(pass.results, Done)

\* The end of updateBalance is all that changes what it leaves.
LEMMA OtherCache ==
  ASSUME Next, ~FinishUpdateBalance
  PROVE  UNCHANGED cache
BY DEF Next, HandlerStep, UpdateBalanceStep, SetBlockHeightCall, ChainUpdatedBlockHeight, NewTip,
       RegisterTransaction, RemoveTransaction, SetTimestamp, ExtendSyncChain, ReplaceSyncBlock,
       Reorganize, Wipe

CacheInv == BalanceIsUtxos /\ UtxosAreUnspent

AccountInv == Shape /\ ListInv /\ PassInv /\ CacheInv

\* Every step keeps what is known of the results of a running updateBalance.
LEMMA NextPassInv ==
  ASSUME AccountInv, [Next]_vars
  PROVE  PassInv'
<1>1. Shape /\ ListInv /\ PassInv /\ Shape'
  BY NextShape DEF AccountInv
<1>2. CASE UNCHANGED vars
  BY <1>1, <1>2 DEF vars, PassInv, Running, Sound, Done, Conflict, SpentBy
<1>3. CASE OtherStep
  <2>1. Fresh' /\ transactions' \in Seq(Txs)
    BY <1>1, <1>3, OtherStepShape DEF Shape, TypeOK
  <2>2. ASSUME pass' = StartPass(transactions')
        PROVE  Sound(pass.results, Done)'
    <3>1. Done' = {}
      BY <2>1, <2>2, LenProperties DEF StartPass, Done
    <3>2. Value[{}] = 0
      BY AccountAssumption DEF AccountAssumption, ValueAssumption
    <3>3. QED
      BY <2>2, <3>1, <3>2 DEF StartPass, NoResults, Sound
  <2>3. QED
    BY <2>1, <2>2 DEF Fresh, PassInv
<1>4. CASE UpdateBalanceStep
  <2> DEFINE t == transactions[pass.at]
  <2>1. pass.at \in 1 .. Len(transactions) /\ pass.results \in Results
    BY <1>1, <1>4, LenProperties DEF Shape, TypeOK, CallsInv, UpdateBalanceStep
  <2>2. DOMAIN transactions = 1 .. Len(transactions) /\ Len(transactions) \in Nat
    BY <1>1, LenProperties DEF Shape, TypeOK
  <2>3. t \in Listed /\ Done \subseteq Listed
    BY <2>1, <2>2 DEF Listed, Done
  <2>4. t \notin Done
    BY <1>1, <2>1, <2>2 DEF Done, ListInv, Distinct
  <2>5. pass' = [at |-> pass.at - 1, results |-> Process(pass.results, t)]
        /\ UNCHANGED <<transactions, blockHeight>>
    BY <1>4 DEF UpdateBalanceStep
  <2>6. Done' = Done \cup {t}
    <3>1. Done' = {transactions[i] : i \in pass.at .. Len(transactions)}
      BY <2>1, <2>5 DEF Done
    <3>2. pass.at .. Len(transactions) = (pass.at + 1 .. Len(transactions)) \cup {pass.at}
      BY <2>1, <2>2
    <3>3. QED
      BY <3>1, <3>2 DEF Done
  <2>7. Sound(pass.results, Done)
    BY <1>1, <1>4 DEF PassInv, UpdateBalanceStep
  <2>8. Sound(Process(pass.results, t), Done \cup {t})
    BY <1>1, <2>1, <2>3, <2>4, <2>7, ProcessSound DEF Shape, ListInv
  <2> HIDE DEF t
  <2>9. Sound(pass.results, Done)'
    BY <2>5, <2>6, <2>8 DEF Sound
  <2>10. QED
    BY <2>9 DEF PassInv
<1>5. QED
  BY <1>2, <1>3, <1>4, NextSplit

\* Every step keeps what is known of what the last updateBalance left.
LEMMA NextCacheInv ==
  ASSUME AccountInv, [Next]_vars
  PROVE  CacheInv'
<1>1. CASE FinishUpdateBalance
  <2>1. cache' = pass.results
    BY <1>1 DEF FinishUpdateBalance
  <2>2. Sound(pass.results, Done)
    BY <1>1 DEF AccountInv, PassInv, FinishUpdateBalance
  <2>3. QED
    BY <2>1, <2>2 DEF Sound, CacheInv, BalanceIsUtxos, UtxosAreUnspent, SpentBy
<1>2. CASE UNCHANGED cache
  BY <1>2 DEF AccountInv, CacheInv, BalanceIsUtxos, UtxosAreUnspent, SpentBy
<1>3. QED
  BY <1>1, <1>2, OtherCache DEF vars

\* What a running updateBalance has counted, and what the last one left.
LEMMA AccountInvariant == Spec => []AccountInv
<1>1. Init => AccountInv
  <2> SUFFICES ASSUME Init
               PROVE  AccountInv
    OBVIOUS
  <2>1. Shape
    BY InitShape
  <2>2. ListInv
    BY DEF Init, ListInv, Distinct, PayersKnown, Listed
  <2>3. PassInv
    BY DEF Init, PassInv, Running
  <2>4. CacheInv
    BY AccountAssumption
       DEF AccountAssumption, ValueAssumption, Init, NoResults, CacheInv, BalanceIsUtxos, UtxosAreUnspent
  <2>5. QED
    BY <2>1, <2>2, <2>3, <2>4 DEF AccountInv
<1>2. AccountInv /\ [Next]_vars => AccountInv'
  BY NextShape, NextListInv, NextPassInv, NextCacheInv DEF AccountInv
<1>3. QED
  BY <1>1, <1>2, PTL DEF Spec

\* updateBalance: of two unconfirmed transactions that spend the same coin it never
\* takes both for valid, in whatever order the list has them.
THEOREM DoubleSpends == Spec => []OneOfDoubleSpend
<1>1. AccountInv => OneOfDoubleSpend
  BY DEF AccountInv, PassInv, Sound, OneOfDoubleSpend
<1>2. QED
  BY <1>1, AccountInvariant, PTL

\* updateBalance: the balance it leaves is what the unspent outputs it leaves are
\* worth, and none of these is spent but by what is pending, whatever was
\* registered, removed, confirmed or reorganised before.
THEOREM BalanceOfUtxos == Spec => []BalanceIsUtxos
<1>1. AccountInv => BalanceIsUtxos
  BY DEF AccountInv, CacheInv
<1>2. QED
  BY <1>1, AccountInvariant, PTL

\* updateBalance: an output that it leaves both unspent and spent is spent by a
\* transaction it leaves pending.
THEOREM UnspentUtxos == Spec => []UtxosAreUnspent
<1>1. AccountInv => UtxosAreUnspent
  BY DEF AccountInv, CacheInv
<1>2. QED
  BY <1>1, AccountInvariant, PTL
-----------------------------------------------------------------------------
(* The balance after each transaction *)

\* A balance for each of n transactions, the latest of which is the current one.
Recorded(r, n) ==
  Len(r.history) = n /\ (n > 0 => r.history[1] = r.balance)

\* A running updateBalance has recorded one for each transaction that it has dealt
\* with; what the last one left is about the list as it is.
HistoryInv ==
  IF Running("updateBalance")
  THEN Recorded(pass.results, Len(transactions) - pass.at)
  ELSE Recorded(cache, Len(transactions))

\* The balance is put in front of the others.
LEMMA RecordOne ==
  ASSUME NEW q \in Results, NEW n \in Nat, Len(q.history) = n
  PROVE  Recorded(Record(q), n + 1)
<1> DEFINE first == <<q.balance>>
           now == first \o q.history
<1>1. q.balance \in Int /\ q.history \in Seq(Int)
  BY DEF Results
<1>2. first \in Seq(Int) /\ Len(first) = 1 /\ first[1] = q.balance
  BY <1>1
<1>3. Len(now) = n + 1 /\ now[1] = q.balance
  <2> HIDE DEF first
  <2>1. /\ Len(first \o q.history) = Len(first) + Len(q.history)
        /\ \A i \in 1 .. Len(first) + Len(q.history) :
             (first \o q.history)[i] = IF i <= Len(first) THEN first[i] ELSE q.history[i - Len(first)]
    BY <1>1, <1>2, ConcatProperties
  <2>2. 1 \in 1 .. Len(first) + Len(q.history) /\ 1 <= Len(first)
    BY <1>2
  <2>3. QED
    BY <1>2, <2>1, <2>2
<1>4. Record(q).history = now /\ Record(q).balance = q.balance
  BY DEF Record, Results
<1> HIDE DEF now
<1>5. QED
  BY <1>3, <1>4 DEF Recorded

\* One turn of the loop records one balance.
LEMMA ProcessRecords ==
  ASSUME NEW r \in Results, NEW t \in Txs, NEW n \in Nat, Len(r.history) = n
  PROVE  Recorded(Process(r, t), n + 1)
<1> DEFINE spent == [r EXCEPT !.spent = @ \cup Spends[t]]
           invalid == [r EXCEPT !.invalid = @ \cup {t}]
           pending == [spent EXCEPT !.pending = @ \cup {t}]
           locked == [spent EXCEPT !.locked = @ \cup {t}]
           counted == Count(spent, t)
<1>1. Process(r, t) \in {Record(invalid), Record(pending), Record(locked), Record(counted)}
  BY DEF Process
<1>2. spent \in Results /\ spent.history = r.history
  BY AccountAssumption DEF AccountAssumption, TransactionAssumption, Results
<1>3. invalid \in Results /\ invalid.history = r.history
  BY DEF Results
<1>4. pending \in Results /\ locked \in Results /\ pending.history = r.history /\ locked.history = r.history
  <2> HIDE DEF spent
  <2>1. QED
    BY <1>2 DEF Results
<1>5. counted \in Results /\ counted.history = r.history
  <2> HIDE DEF spent
  <2>1. counted \in Results
    BY <1>2, CountType
  <2>2. counted.history = spent.history
    BY <1>2 DEF Count, Results
  <2>3. QED
    BY <1>2, <2>1, <2>2
<1> HIDE DEF invalid, pending, locked, counted
<1>6. \A q \in {invalid, pending, locked, counted} : q \in Results /\ Len(q.history) = n
  BY <1>3, <1>4, <1>5
<1>7. \A q \in {invalid, pending, locked, counted} : Recorded(Record(q), n + 1)
  BY <1>6, RecordOne
<1>8. QED
  BY <1>1, <1>7

\* The list changes only with a call of updateBalance.
LEMMA OtherStepList ==
  ASSUME OtherStep, ~FinishUpdateBalance, Shape
  PROVE  /\ ~Running("updateBalance") /\ UNCHANGED cache
         /\ ~Running("updateBalance")' => UNCHANGED transactions
<1>1. ASSUME NEW list, NEW rest, UpdateBalanceThen(list, rest), rest \in Seq(Calls)
      PROVE  Running("updateBalance")'
  <2> DEFINE call == Call("updateBalance", 0, {})
  <2>1. calls' = <<call>> \o rest /\ call.op = "updateBalance"
    BY <1>1 DEF UpdateBalanceThen, Call
  <2> HIDE DEF call
  <2>2. calls' # <<>> /\ Head(calls') = call
    BY <1>1, <2>1
  <2>3. QED
    BY <2>1, <2>2 DEF Running
<1>2. ASSUME NEW t \in Txs, RegisterTransaction(t) \/ RemoveTransaction(t)
      PROVE  Running("updateBalance")'
  BY <1>1, <1>2, EmptySeq DEF RegisterTransaction, RemoveTransaction
<1>3. CASE Wipe
  BY <1>1, <1>3, EmptySeq DEF Wipe, Idle, Running
<1>4. CASE SetBlockHeightCall
  <2>1. Tail(calls) \in Seq(Calls)
    BY <1>4, HeadAndTail DEF SetBlockHeightCall, Running, Waiting
  <2>2. \/ UpdateBalanceThen(transactions', Tail(calls))
        \/ UNCHANGED transactions
    BY <1>4 DEF SetBlockHeightCall, SetBlockHeight
  <2>3. QED
    BY <1>1, <1>4, <2>1, <2>2 DEF SetBlockHeightCall, Running
<1>5. QED
  BY <1>2, <1>3, <1>4
     DEF OtherStep, RegisterTransaction, RemoveTransaction, SetTimestamp, ExtendSyncChain,
         ReplaceSyncBlock, Reorganize, ChainUpdatedBlockHeight, NewTip, Idle, Running

\* Every step keeps what is known of the balances recorded.
LEMMA NextHistoryInv ==
  ASSUME Shape, HistoryInv, [Next]_vars
  PROVE  HistoryInv'
<1>1. CASE UNCHANGED vars
  BY <1>1 DEF vars, HistoryInv, Running, Recorded
<1>2. CASE UpdateBalanceStep
  <2> DEFINE t == transactions[pass.at]
             n == Len(transactions) - pass.at
  <2>1. pass.at \in 1 .. Len(transactions) /\ pass.results \in Results /\ Len(transactions) \in Nat
    BY <1>2, LenProperties DEF Shape, TypeOK, CallsInv, UpdateBalanceStep
  <2>2. t \in Txs
    BY <2>1, ElementOfSeq DEF Shape, TypeOK
  <2>3. n \in Nat /\ Len(pass.results.history) = n
    BY <1>2, <2>1 DEF HistoryInv, Recorded, UpdateBalanceStep
  <2> HIDE DEF t
  <2>4. Recorded(Process(pass.results, t), n + 1)
    <3> HIDE DEF n
    <3>1. QED
      BY <2>1, <2>2, <2>3, ProcessRecords
  <2>5. /\ pass' = [at |-> pass.at - 1, results |-> Process(pass.results, t)]
        /\ UNCHANGED <<transactions, calls>>
    BY <1>2 DEF UpdateBalanceStep, t
  <2>6. Len(transactions') - pass'.at = n + 1 /\ pass'.results = Process(pass.results, t)
    BY <2>1, <2>5
  <2>7. Running("updateBalance")'
    BY <1>2, <2>5 DEF UpdateBalanceStep, Running
  <2> HIDE DEF n
  <2>8. QED
    BY <2>4, <2>6, <2>7 DEF HistoryInv, Recorded
<1>3. CASE FinishUpdateBalance
  <2>1. cache' = pass.results /\ pass.at = 0 /\ UNCHANGED transactions /\ Running("updateBalance")
    BY <1>3 DEF FinishUpdateBalance
  <2>2. Len(transactions) \in Nat
    BY LenProperties DEF Shape, TypeOK
  <2>3. Recorded(cache, Len(transactions))'
    BY <2>1, <2>2 DEF HistoryInv, Recorded
  <2>4. ~Running("updateBalance")'
    BY <1>3, FinishedNotRunning
  <2>5. QED
    BY <2>3, <2>4 DEF HistoryInv
<1>4. CASE OtherStep /\ ~FinishUpdateBalance
  <2>1. /\ ~Running("updateBalance") /\ UNCHANGED cache
        /\ ~Running("updateBalance")' => UNCHANGED transactions
    BY <1>4, OtherStepList
  <2>2. CASE Running("updateBalance")'
    <3>1. pass' = StartPass(transactions')
      BY <1>4, <2>2, OtherStepShape DEF Fresh
    <3>2. Len(transactions') \in Nat
      BY <1>4, OtherStepShape, LenProperties DEF Shape, TypeOK
    <3>3. pass'.results.history = <<>> /\ Len(transactions') - pass'.at = 0
      BY <3>1, <3>2 DEF StartPass, NoResults
    <3>4. Recorded(pass.results, Len(transactions) - pass.at)'
      BY <3>3 DEF Recorded
    <3>5. QED
      BY <2>2, <3>4 DEF HistoryInv
  <2>3. CASE ~Running("updateBalance")'
    BY <2>1, <2>3 DEF HistoryInv, Recorded
  <2>4. QED
    BY <2>2, <2>3
<1>5. QED
  BY <1>1, <1>2, <1>3, <1>4, NextSplit

\* balanceAfterTransaction: once no handler runs there is a balance for each
\* transaction of the list, and the latest is the current one.
THEOREM HistoryOfList == Spec => []HistoryFollowsList
<1>1. Init => HistoryInv
  BY DEF Init, HistoryInv, Running, Recorded, NoResults
<1>2. Shape /\ HistoryInv => HistoryFollowsList
  <2> SUFFICES ASSUME Shape, HistoryInv, Idle
               PROVE  /\ Len(cache.history) = Len(transactions)
                      /\ transactions # <<>> => cache.history[1] = cache.balance
    BY DEF HistoryFollowsList
  <2>1. Recorded(cache, Len(transactions))
    BY DEF HistoryInv, Running, Idle
  <2>2. transactions # <<>> => Len(transactions) > 0
    BY EmptySeq, LenProperties DEF Shape, TypeOK
  <2>3. QED
    BY <2>1, <2>2 DEF Recorded
<1>3. Shape /\ HistoryInv /\ [Next]_vars => HistoryInv'
  BY NextHistoryInv
<1>4. QED
  BY <1>1, <1>2, <1>3, ShapeInvariant, PTL DEF Spec

-----------------------------------------------------------------------------
(* What a removal takes along *)

\* A listed transaction which allTx has lost, or for which it has another object,
\* keeps the height it was given.
LostHaveHeights ==
  \A t \in Txs : t \in (Listed \ Known) \cup twins => blockHeight[t] # Unconfirmed

\* The transactions that a removal takes are closed under dependence.
LEMMA RemovalCloses ==
  ASSUME NEW t, NEW v \in RemovedWith(t)
  PROVE  Dependents(v) \cap Known \subseteq RemovedWith(t)
BY DEF RemovedWith

\* A step keeps what is known of lost transactions.
LEMMA NextLostHaveHeights ==
  ASSUME Shape, LostHaveHeights, [Next]_vars
  PROVE  LostHaveHeights'
<1>1. transactions \in Seq(Txs) /\ Listed \subseteq Txs
  BY ListedType DEF Shape, TypeOK
<1>2. ASSUME UNCHANGED <<allTx, transactions, twins, blockHeight>>
      PROVE  LostHaveHeights'
  BY <1>2 DEF LostHaveHeights, Listed, Known
<1>3. ASSUME NEW t \in Txs, RegisterTransaction(t)
      PROVE  LostHaveHeights'
  <2>1. Known' = Known \cup {t} /\ t \notin Known /\ blockHeight' = blockHeight
    BY <1>3 DEF RegisterTransaction, Known
  <2>2. CASE t \in Listed
    BY <1>3, <2>1, <2>2 DEF RegisterTransaction, LostHaveHeights, Listed
  <2>3. CASE t \notin Listed
    <3>1. transactions' = <<t>> \o transactions /\ twins' = twins
      BY <1>3, <2>3 DEF RegisterTransaction
    <3>2. Listed' \subseteq Listed \cup {t}
      BY <1>1, <3>1, PrependListed
    <3>3. QED
      BY <2>1, <3>1, <3>2 DEF LostHaveHeights
  <2>4. QED
    BY <2>2, <2>3
<1>4. ASSUME NEW t \in Txs, RemoveTransaction(t)
      PROVE  LostHaveHeights'
  <2>1. Known' = Known \ RemovedWith(t)
    BY <1>4 DEF RemoveTransaction, Known
  <2>2. Listed' = Listed \ RemovedWith(t)
    BY <1>1, <1>4, ArrangementDistinct DEF RemoveTransaction, ListsWithout
  <2>3. /\ twins' = twins \ RemovedWith(t)
        /\ \A u \in Txs \ RemovedWith(t) : blockHeight'[u] = blockHeight[u]
    BY <1>4 DEF RemoveTransaction
  <2>4. QED
    BY <2>1, <2>2, <2>3 DEF LostHaveHeights
<1>5. CASE SetBlockHeightCall
  <2> DEFINE h == Head(calls).height
  <2>1. PICK touched \in SUBSET (Head(calls).hashes \cap Known) :
          /\ DOMAIN allTx' = IF h = Unconfirmed THEN Known
                             ELSE Known \ (touched \ {t \in touched : CanContain(Known, t)})
          /\ blockHeight' =
               [t \in Txs |-> IF t \in (touched \cap Listed) \ twins THEN h ELSE blockHeight[t]]
          /\ transactions' \in SortedLists(blockHeight') \/ transactions' = transactions
    BY <1>5 DEF SetBlockHeightCall, SetBlockHeight
  <2>2. Listed' = Listed
    <3>1. CASE transactions' = transactions
      BY <3>1 DEF Listed
    <3>2. CASE transactions' \in SortedLists(blockHeight')
      BY <1>1, <3>2, ArrangementDistinct DEF SortedLists
    <3>3. QED
      BY <2>1, <3>1, <3>2
  <2>3. twins' = twins
    BY <1>5 DEF SetBlockHeightCall
  <2>4. SUFFICES ASSUME NEW t \in Txs, t \in (Listed \ Known') \cup twins
                 PROVE  blockHeight'[t] # Unconfirmed
    BY <2>2, <2>3 DEF LostHaveHeights
  <2>5. CASE t \in twins \/ t \notin Known
    <3>1. blockHeight'[t] = blockHeight[t]
      BY <2>1, <2>5
    <3>2. QED
      BY <2>4, <2>5, <3>1 DEF LostHaveHeights
  <2>6. CASE t \notin twins /\ t \in Known
    <3>1. t \in Listed /\ t \notin DOMAIN allTx'
      BY <2>4, <2>6 DEF Known
    <3>2. h # Unconfirmed /\ t \in touched
      BY <2>1, <2>6, <3>1
    <3>3. blockHeight'[t] = h
      BY <2>1, <2>6, <3>1, <3>2
    <3>4. QED
      BY <3>2, <3>3
  <2>7. QED
    BY <2>5, <2>6
<1>6. CASE Wipe
  BY <1>6 DEF Wipe, LostHaveHeights, Listed
<1>7. QED
  BY <1>2, <1>3, <1>4, <1>5, <1>6
     DEF Next, HandlerStep, UpdateBalanceStep, FinishUpdateBalance, ChainUpdatedBlockHeight, NewTip,
         SetTimestamp, ExtendSyncChain, ReplaceSyncBlock, Reorganize, vars

\* No step but a removal and a wipe takes transactions from the list.
LEMMA OthersKeepListed ==
  ASSUME Shape, Next, \A t \in Txs : ~RemoveTransaction(t), ~Wipe
  PROVE  Listed \subseteq Listed'
<1>1. transactions \in Seq(Txs) /\ Listed \subseteq Txs
  BY ListedType DEF Shape, TypeOK
<1>2. ASSUME UNCHANGED transactions
      PROVE  Listed \subseteq Listed'
  BY <1>2 DEF Listed
<1>3. ASSUME NEW t \in Txs, RegisterTransaction(t)
      PROVE  Listed \subseteq Listed'
  <2>1. transactions' = transactions \/ transactions' = <<t>> \o transactions
    BY <1>3 DEF RegisterTransaction
  <2>2. QED
    BY <1>1, <1>2, <2>1, PrependListed
<1>4. CASE SetBlockHeightCall
  <2>1. transactions' \in SortedLists(blockHeight') \/ transactions' = transactions
    BY <1>4 DEF SetBlockHeightCall, SetBlockHeight
  <2>2. QED
    BY <1>1, <1>2, <2>1, ArrangementDistinct DEF SortedLists
<1>5. QED
  BY <1>2, <1>3, <1>4
     DEF Next, HandlerStep, UpdateBalanceStep, FinishUpdateBalance, ChainUpdatedBlockHeight, NewTip,
         SetTimestamp, ExtendSyncChain, ReplaceSyncBlock, Reorganize

\* removeTransaction: as long as nothing in the list is confirmed the loop over it
\* is never broken off, and no transaction stays whose parent is taken.
THEOREM DependentsGo == Spec => DependentsRemoved
<1>1. Init => LostHaveHeights
  BY DEF Init, LostHaveHeights, Listed
<1>2. ASSUME Shape, LostHaveHeights, Next, \A t \in Listed : blockHeight[t] = Unconfirmed
      PROVE  TakesDependents
  <2>1. transactions \in Seq(Txs) /\ Listed \subseteq Txs
    BY <1>2, ListedType DEF Shape, TypeOK
  <2>2. ASSUME NEW x \in Txs, RemoveTransaction(x)
        PROVE  TakesDependents
    <3>1. Listed' = Listed \ RemovedWith(x)
      BY <2>1, <2>2, ArrangementDistinct DEF RemoveTransaction, ListsWithout
    <3>2. SUFFICES ASSUME NEW t \in Listed, t \in RemovedWith(x),
                          NEW u \in Listed, u \notin RemovedWith(x), t \in Parents(u)
                   PROVE  FALSE
      BY <3>1 DEF TakesDependents
    <3>3. u \in Known
      BY <1>2, <2>1 DEF LostHaveHeights
    <3>4. u \in Dependents(t)
      <4>1. t \in Known
        BY <3>2 DEF RemovedWith
      <4>2. allTx[t] \in Heights
        BY <1>2, <4>1 DEF Shape, TypeOK
      <4>3. Unconfirmed >= allTx[t]
        BY <4>2, AccountAssumption DEF Heights, AccountAssumption, HeightAssumption
      <4>4. PICK i \in DOMAIN transactions : transactions[i] = u
        BY DEF Listed
      <4>5. \A j \in 1 .. i : j \in DOMAIN transactions
        BY <2>1, <4>4, LenProperties
      <4>6. \A j \in 1 .. i : blockHeight[transactions[j]] >= allTx[t]
        BY <1>2, <4>3, <4>5 DEF Listed
      <4>7. QED
        BY <3>2, <4>4, <4>6 DEF Dependents
    <3>5. QED
      BY <3>2, <3>3, <3>4, RemovalCloses
  <2>3. CASE Wipe
    BY <2>3 DEF Wipe, TakesDependents, Listed
  <2>4. QED
    BY <1>2, <2>2, <2>3, OthersKeepListed DEF TakesDependents
<1>3. Shape /\ LostHaveHeights /\ [Next]_vars
        => [(\A t \in Listed : blockHeight[t] = Unconfirmed) => TakesDependents]_vars
  BY <1>2
<1>4. Shape /\ LostHaveHeights /\ [Next]_vars => LostHaveHeights'
  BY NextLostHaveHeights
<1>5. QED
  BY <1>1, <1>3, <1>4, ShapeInvariant, PTL DEF Spec, DependentsRemoved
=============================================================================
