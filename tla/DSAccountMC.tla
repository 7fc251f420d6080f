----------------------------- MODULE DSAccountMC -----------------------------
(***************************************************************************)
(* Small sets of transactions for TLC.  A coin is named for the            *)
(* transaction it is an output of; x and y belong to others.               *)
(***************************************************************************)
EXTENDS DSAccount, FiniteSetsExt

Worth(coins) == [S \in SUBSET coins |-> 3 * Cardinality(S)]

\* t1 and t2 both spend x; r spends the output of t1, pays nothing to the
\* account and can be replaced; b is the coinbase of block 1.
PayCoins == {"x", "c1", "c2", "cb"}
PayCreatedBy == [x |-> "elsewhere", c1 |-> "t1", c2 |-> "t2", cb |-> "b"]
PaySpends == [t1 |-> {"x"}, t2 |-> {"x"}, r |-> {"c1"}, b |-> {}]
PayLockHeight == [t1 |-> 0, t2 |-> 0, r |-> 0, b |-> 0]
PayCoinbaseHeight == [b |-> 1]
PayValue == Worth(PayCoins)

\* u spends two coins, and each of t and w one of them.
ClashCoins == {"x", "y", "ct", "cu", "cw"}
ClashCreatedBy ==
  [x |-> "elsewhere", y |-> "elsewhere", ct |-> "t", cu |-> "u", cw |-> "w"]
ClashSpends == [t |-> {"x"}, u |-> {"x", "y"}, w |-> {"y"}]
ClashLockHeight == [t |-> 0, u |-> 0, w |-> 0]
NoCoinbaseHeight == [t \in {} |-> 0]
ClashValue == Worth(ClashCoins)
=============================================================================
