---------------------------- MODULE Wallet_proofs ----------------------------
(***************************************************************************)
(* Proofs about Wallet, for every set of addresses, every seed and every   *)
(* amount: the types, that no transaction burns more than its fee, and     *)
(* that the coins, the stale reads and the competing daemons together      *)
(* implement AccountLedger.                                                *)
(***************************************************************************)
EXTENDS Wallet, SequenceTheorems, FiniteSetTheorems, TLAPS

-----------------------------------------------------------------------------
(* Type correctness.                                                       *)

\* The coins and the transaction of a deposit are well formed.
LEMMA DepositedType ==
  ASSUME NEW n \in Nat, NEW to \in Addrs, NEW amt \in Nat
  PROVE  /\ Deposited(n, to, amt) \in Transactions
         /\ Deposited(n, to, amt).ins = {}
         /\ Deposited(n, to, amt).outs = {[tx |-> n, addr |-> to, amt |-> amt]}
         /\ Deposited(n, to, amt).outs \subseteq Coins
BY DEF Deposited, Transactions, Coins

\* Whatever a call computes, the outputs that the node accepts are coins of the
\* new transaction: their amounts are the node's check, not the caller's.
LEMMA OutputsType ==
  ASSUME NEW k \in Kinds, NEW n \in Nat, NEW c \in Calls, c # Idle,
         NEW S, Accepts(S, Outputs(k, n, c))
  PROVE  /\ Outputs(k, n, c) \subseteq Coins
         /\ \A o \in Outputs(k, n, c) : o.tx = n
<1>1. c.from \in Addrs /\ c.to \in Addrs
  BY DEF Calls
<1>2. CASE k = "tip"
  BY <1>1, <1>2 DEF Accepts, Outputs, TipOutputs, PayAndChange, Coins
<1>3. CASE k = "fund"
  BY <1>1, <1>3 DEF Accepts, Outputs, FundOutputs, PayAndChange, Coins
<1>4. CASE k = "withdraw"
  <2>1. PICK amt : Outputs(k, n, c) = {[tx |-> n, addr |-> c.to, amt |-> amt]}
    BY <1>4 DEF Outputs, WithdrawOutputs
  <2>2. amt \in Nat
    BY <2>1 DEF Accepts
  <2> QED
    BY <1>1, <2>1, <2>2 DEF Coins
<1> QED
  BY <1>2, <1>3, <1>4 DEF Kinds

\* The first states are well typed.
LEMMA InitTypeOK == Init => TypeOK
<1> SUFFICES ASSUME Init PROVE TypeOK
  OBVIOUS
<1>1. /\ Len(Seed) \in Nat
      /\ \A i \in 1 .. Len(Seed) : Seed[i].addr \in Addrs /\ Seed[i].amt \in Nat
  <2>1. \A i \in 1 .. Len(Seed) : Seed[i] \in [addr : Addrs, amt : Nat]
    BY SeedAssumption, ElementOfSeq
  <2> QED
    BY SeedAssumption, <2>1, LenProperties
<1>2. \A i \in 1 .. Len(Seed) :
        Deposited(i, Seed[i].addr, Seed[i].amt) \in Transactions
  <2> TAKE i \in 1 .. Len(Seed)
  <2>1. i \in Nat /\ Seed[i].addr \in Addrs /\ Seed[i].amt \in Nat
    BY <1>1
  <2> QED
    BY <2>1, DepositedType
<1>3. txs \in Seq(Transactions) /\ Len(txs) = Len(Seed)
  BY <1>1, <1>2 DEF Init
<1>4. unspent \subseteq Coins
  BY <1>1 DEF Init, Coins
<1>5. call \in [Kinds -> Calls]
  BY DEF Init, Calls
<1> QED
  BY <1>1, <1>3, <1>4, <1>5 DEF TypeOK, Init

\* Every step keeps the types.
LEMMA NextTypeOK == TypeOK /\ [Next]_vars => TypeOK'
<1> SUFFICES ASSUME TypeOK, [Next]_vars PROVE TypeOK'
  OBVIOUS
<1> USE DEF TypeOK
<1>1. ASSUME NEW k \in Kinds, NEW from \in Addrs, NEW to \in Addrs, Read(k, from, to)
      PROVE  TypeOK'
  <2>1. ListUnspent(from) \subseteq Coins
    BY DEF ListUnspent
  <2>2. call'[k] \in Calls
    BY <1>1, <2>1 DEF Read, Calls
  <2> QED
    BY <1>1, <2>2 DEF Read
<1>2. ASSUME NEW from \in Users, NEW to \in Users, BeginTip(from, to)
      PROVE  TypeOK'
  BY <1>1, <1>2 DEF BeginTip, Kinds, Addrs
<1>3. ASSUME NEW to \in Users, BeginFund(to)
      PROVE  TypeOK'
  BY <1>1, <1>3 DEF BeginFund, Kinds, Addrs
<1>4. ASSUME NEW from \in Users, NEW to \in Addrs, BeginWithdraw(from, to)
      PROVE  TypeOK'
  BY <1>1, <1>4 DEF BeginWithdraw, Kinds, Addrs
<1>5. ASSUME NEW k \in Kinds, Broadcast(k)
      PROVE  TypeOK'
  <2> DEFINE c == call[k]
             outs == Outputs(k, Len(txs) + 1, c)
             tx == [kind |-> k, from |-> c.from, to |-> c.to,
                    ins |-> c.ins, outs |-> outs]
  <2>1. c \in Calls /\ c # Idle
    BY <1>5 DEF Broadcast
  <2>2. c.from \in Addrs /\ c.to \in Addrs /\ c.ins \subseteq Coins
    BY <2>1 DEF Calls
  <2>3. Len(txs) + 1 \in Nat
    OBVIOUS
  <2>4. outs \subseteq Coins
    BY <1>5, <2>1, <2>3, OutputsType DEF Broadcast
  <2> HIDE DEF outs
  <2>5. tx \in Transactions
    BY <2>2, <2>4 DEF Transactions
  <2>6. /\ txs' = Append(txs, tx)
        /\ unspent' = (unspent \ c.ins) \union outs
        /\ call' = [call EXCEPT ![k] = Idle]
    BY <1>5 DEF Broadcast, outs
  <2> HIDE DEF tx, c
  <2>7. txs' \in Seq(Transactions) /\ Len(txs') = Len(txs) + 1
    BY <2>5, <2>6
  <2>8. unspent' \subseteq Coins
    BY <2>4, <2>6
  <2>9. call' \in [Kinds -> Calls]
    BY <2>6 DEF Calls
  <2> QED
    BY <2>6, <2>7, <2>8, <2>9
<1>6. ASSUME NEW k \in Kinds, GiveUp(k)
      PROVE  TypeOK'
  BY <1>6 DEF GiveUp, Calls
<1>7. ASSUME NEW to \in Users \union {Reserves}, NEW amt \in DepositAmounts, Deposit(to, amt)
      PROVE  TypeOK'
  <2> DEFINE tx == Deposited(Len(txs) + 1, to, amt)
  <2>1. to \in Addrs /\ amt \in Nat /\ Len(txs) + 1 \in Nat
    BY AmountsAssumption DEF Addrs
  <2>2. tx \in Transactions /\ tx.outs \subseteq Coins
    BY <2>1, DepositedType
  <2>3. /\ txs' = Append(txs, tx)
        /\ unspent' = unspent \union tx.outs
        /\ UNCHANGED call
    BY <1>7 DEF Deposit
  <2> HIDE DEF tx
  <2>4. txs' \in Seq(Transactions) /\ Len(txs') = Len(txs) + 1
    BY <2>2, <2>3
  <2> QED
    BY <2>2, <2>3, <2>4
<1>8. CASE UNCHANGED vars
  BY <1>8 DEF vars
<1> QED
  BY <1>2, <1>3, <1>4, <1>5, <1>6, <1>7, <1>8 DEF Next

\* Every reachable state is well typed: no coin has a negative amount.
THEOREM TypeCorrect == Spec => []TypeOK
BY InitTypeOK, NextTypeOK, PTL DEF Spec

-----------------------------------------------------------------------------
(* The coins of the chain.                                                 *)

\* Every unspent coin is of a transaction there is: hence the coins of the next
\* one are new, which is what lets BalanceAfter add them up.
UnspentHaveTx == \A c \in unspent : c.tx \in 1 .. Len(txs)

\* A transaction appended to the chain keeps it so, since its coins carry its
\* txid.
LEMMA AppendKeepsUnspentHaveTx ==
  ASSUME TypeOK, UnspentHaveTx, NEW tx \in Transactions, NEW ins,
         txs' = Append(txs, tx),
         unspent' = (unspent \ ins) \union tx.outs,
         \A c \in tx.outs : c.tx = Len(txs) + 1
  PROVE  UnspentHaveTx'
<1>1. Len(txs) \in Nat /\ Len(txs') = Len(txs) + 1
  BY DEF TypeOK
<1> QED
  BY <1>1 DEF UnspentHaveTx

\* At the start every coin is that of a deposit.
LEMMA InitUnspentHaveTx == Init => UnspentHaveTx
<1> SUFFICES ASSUME Init PROVE UnspentHaveTx
  OBVIOUS
<1>1. Len(Seed) \in Nat
  BY SeedAssumption, LenProperties
<1>2. Len(txs) = Len(Seed)
  BY <1>1 DEF Init
<1> QED
  BY <1>2 DEF Init, UnspentHaveTx

\* Every step keeps it: only a broadcast and a deposit touch coins.
LEMMA NextUnspentHaveTx == TypeOK /\ UnspentHaveTx /\ [Next]_vars => UnspentHaveTx'
<1> SUFFICES ASSUME TypeOK, UnspentHaveTx, [Next]_vars PROVE UnspentHaveTx'
  OBVIOUS
<1>1. ASSUME UNCHANGED <<txs, unspent>> PROVE UnspentHaveTx'
  BY <1>1 DEF UnspentHaveTx
<1>2. ASSUME NEW k \in Kinds, Broadcast(k) PROVE UnspentHaveTx'
  <2> DEFINE c == call[k]
             outs == Outputs(k, Len(txs) + 1, c)
             tx == [kind |-> k, from |-> c.from, to |-> c.to,
                    ins |-> c.ins, outs |-> outs]
  <2>1. c \in Calls /\ c # Idle /\ Len(txs) + 1 \in Nat
    BY <1>2 DEF Broadcast, TypeOK
  <2>2. c.from \in Addrs /\ c.to \in Addrs /\ c.ins \subseteq Coins
    BY <2>1 DEF Calls
  <2>3. outs \subseteq Coins /\ \A o \in outs : o.tx = Len(txs) + 1
    BY <1>2, <2>1, OutputsType DEF Broadcast
  <2> HIDE DEF outs
  <2>4. tx \in Transactions
    BY <2>2, <2>3 DEF Transactions
  <2>5. /\ txs' = Append(txs, tx)
        /\ unspent' = (unspent \ tx.ins) \union tx.outs
    BY <1>2 DEF Broadcast, outs
  <2>6. tx.outs = outs
    OBVIOUS
  <2> HIDE DEF tx
  <2> QED
    BY <2>3, <2>4, <2>5, <2>6, AppendKeepsUnspentHaveTx
<1>3. ASSUME NEW to \in Users \union {Reserves}, NEW amt \in DepositAmounts, Deposit(to, amt)
      PROVE  UnspentHaveTx'
  <2> DEFINE tx == Deposited(Len(txs) + 1, to, amt)
  <2>1. to \in Addrs /\ amt \in Nat /\ Len(txs) + 1 \in Nat
    BY AmountsAssumption DEF Addrs, TypeOK
  <2>2. /\ tx \in Transactions /\ tx.ins = {}
        /\ \A c \in tx.outs : c.tx = Len(txs) + 1
    BY <2>1, DepositedType
  <2>3. txs' = Append(txs, tx) /\ unspent' = unspent \union tx.outs
    BY <1>3 DEF Deposit
  <2> HIDE DEF tx
  <2>4. unspent' = (unspent \ tx.ins) \union tx.outs
    BY <2>2, <2>3
  <2> QED
    BY <2>2, <2>3, <2>4, AppendKeepsUnspentHaveTx
<1>4. ASSUME NEW k \in Kinds, NEW from, NEW to, Read(k, from, to)
      PROVE  UNCHANGED <<txs, unspent>>
  BY <1>4 DEF Read
<1>5. ASSUME \/ \E from, to \in Users : BeginTip(from, to)
             \/ \E to \in Users : BeginFund(to)
             \/ \E from \in Users, to \in Addrs : BeginWithdraw(from, to)
      PROVE  UNCHANGED <<txs, unspent>>
  BY <1>4, <1>5 DEF BeginTip, BeginFund, BeginWithdraw, Kinds
<1>6. ASSUME NEW k \in Kinds, GiveUp(k) PROVE UNCHANGED <<txs, unspent>>
  BY <1>6 DEF GiveUp
<1>7. ASSUME UNCHANGED vars PROVE UNCHANGED <<txs, unspent>>
  BY <1>7 DEF vars
<1> QED
  BY <1>1, <1>2, <1>3, <1>5, <1>6, <1>7 DEF Next

-----------------------------------------------------------------------------
(* Sums of coins.                                                          *)

\* Finitely many coins hold finitely many satoshi.
LEMMA SatoshiFinite ==
  ASSUME NEW S \in SUBSET Coins, IsFiniteSet(S)
  PROVE  IsFiniteSet(Satoshi(S)) /\ Total(S) \in Nat
<1> DEFINE T == {{c} \X (1 .. c.amt) : c \in S}
           f == [c \in S |-> {c} \X (1 .. c.amt)]
<1>1. f \in Surjection(S, T)
  BY DEF Surjection
<1>2. IsFiniteSet(T)
  BY <1>1, FS_Surjection
<1>3. ASSUME NEW c \in S PROVE IsFiniteSet({c} \X (1 .. c.amt))
  <2>1. c.amt \in Nat
    BY DEF Coins
  <2>2. IsFiniteSet({c})
    BY FS_Singleton
  <2>3. IsFiniteSet(1 .. c.amt)
    BY <2>1, FS_Interval
  <2> QED
    BY <2>2, <2>3, FS_Product
<1>4. IsFiniteSet(UNION T)
  BY <1>2, <1>3, FS_UNION
<1> QED
  BY <1>4, FS_CardinalityType DEF Satoshi, Total

\* No coins are worth nothing.
LEMMA TotalEmpty == Total({}) = 0
<1>1. Satoshi({}) = {}
  BY DEF Satoshi
<1> QED
  BY <1>1, FS_EmptySet DEF Total

\* One coin is worth its amount.
LEMMA TotalSingleton ==
  ASSUME NEW c \in Coins
  PROVE  Total({c}) = c.amt
<1>1. c.amt \in Nat
  BY DEF Coins
<1>2. Satoshi({c}) = {c} \X (1 .. c.amt)
  BY DEF Satoshi
<1>3. IsFiniteSet({c}) /\ Cardinality({c}) = 1
  BY FS_Singleton
<1>4. IsFiniteSet(1 .. c.amt) /\ Cardinality(1 .. c.amt) = c.amt
  BY <1>1, FS_Interval
<1>5. Cardinality({c} \X (1 .. c.amt)) = Cardinality({c}) * Cardinality(1 .. c.amt)
  BY <1>3, <1>4, FS_Product
<1>6. Cardinality({c} \X (1 .. c.amt)) = c.amt
  BY <1>1, <1>3, <1>4, <1>5
<1> QED
  BY <1>2, <1>6 DEF Total

\* Two sets of coins that have none in common are worth the sum of the two.
LEMMA TotalUnion ==
  ASSUME NEW S \in SUBSET Coins, IsFiniteSet(S),
         NEW T \in SUBSET Coins, IsFiniteSet(T),
         S \intersect T = {}
  PROVE  Total(S \union T) = Total(S) + Total(T)
<1>1. Satoshi(S \union T) = Satoshi(S) \union Satoshi(T)
  BY DEF Satoshi
<1>2. Satoshi(S) \intersect Satoshi(T) = {}
  BY DEF Satoshi
<1>3. IsFiniteSet(Satoshi(S)) /\ IsFiniteSet(Satoshi(T))
  BY SatoshiFinite
<1>4. Cardinality(Satoshi(S) \union Satoshi(T)) =
        Cardinality(Satoshi(S)) + Cardinality(Satoshi(T))
          - Cardinality(Satoshi(S) \intersect Satoshi(T))
  BY <1>3, FS_Union
<1>5. Cardinality(Satoshi(S)) \in Nat /\ Cardinality(Satoshi(T)) \in Nat
  BY <1>3, FS_CardinalityType
<1>6. Cardinality(Satoshi(S) \intersect Satoshi(T)) = 0
  BY <1>2, FS_EmptySet
<1>7. Cardinality(Satoshi(S) \union Satoshi(T)) =
        Cardinality(Satoshi(S)) + Cardinality(Satoshi(T))
  BY <1>4, <1>5, <1>6
<1> QED
  BY <1>1, <1>7 DEF Total

\* Coins that are part of others are worth the less by the rest.
LEMMA TotalDifference ==
  ASSUME NEW S \in SUBSET Coins, IsFiniteSet(S), NEW T \in SUBSET S
  PROVE  Total(S \ T) = Total(S) - Total(T) /\ Total(T) <= Total(S)
<1>1. IsFiniteSet(T) /\ IsFiniteSet(S \ T)
  <2>1. T \in SUBSET S /\ (S \ T) \in SUBSET S
    OBVIOUS
  <2> QED
    BY <2>1, FS_Subset
<1>2. T \in SUBSET Coins /\ (S \ T) \in SUBSET Coins /\ (S \ T) \intersect T = {}
  OBVIOUS
<1>3. Total((S \ T) \union T) = Total(S \ T) + Total(T)
  BY <1>1, <1>2, TotalUnion
<1>4. Total((S \ T) \union T) = Total(S)
  <2>1. (S \ T) \union T = S
    OBVIOUS
  <2> QED
    BY <2>1
<1>5. Total(S \ T) \in Nat /\ Total(T) \in Nat
  BY <1>1, <1>2, SatoshiFinite
<1> QED
  BY <1>3, <1>4, <1>5

\* Two coins of one transaction, at two addresses.
LEMMA TotalPair ==
  ASSUME NEW c \in Coins, NEW d \in Coins, c # d
  PROVE  IsFiniteSet({c, d}) /\ Total({c, d}) = c.amt + d.amt
<1>1. IsFiniteSet({c}) /\ IsFiniteSet({d})
  BY FS_Singleton
<1>2. {c, d} = {c} \union {d} /\ {c} \intersect {d} = {}
  OBVIOUS
<1>3. IsFiniteSet({c} \union {d})
  BY <1>1, FS_Union
<1>4. Total({c} \union {d}) = Total({c}) + Total({d})
  BY <1>1, <1>2, TotalUnion
<1> QED
  BY <1>2, <1>3, <1>4, TotalSingleton

-----------------------------------------------------------------------------
(* What a broadcast pays.                                                  *)

\* A fee is a multiple of its unit.
LEMMA MultipleOfUnit ==
  ASSUME NEW m \in Nat, NEW s \in Nat \ {0}
  PROVE  (m * s) % s = 0
<1>1. m * s \in Int
  OBVIOUS
<1> QED
  BY <1>1, SMTT(30)

\* More bytes at the same price cost no less.
LEMMA ProductMonotone ==
  ASSUME NEW a \in Nat, NEW b \in Nat, NEW s \in Nat, a <= b
  PROVE  a * s <= b * s
OBVIOUS

\* The fee of a withdrawal: a multiple of the standard fee, at least one, and
\* above one never more than one per 1000 bytes.
LEMMA WithdrawFeeBounds ==
  ASSUME NEW n \in Nat
  PROVE  /\ WithdrawFee(n) \in Nat
         /\ WithdrawFee(n) >= StandardFee
         /\ \/ WithdrawFee(n) = StandardFee
            \/ WithdrawFee(n) * 1000 <= Bytes(n) * StandardFee
         /\ WithdrawFee(n) % StandardFee = 0
<1> DEFINE m == Bytes(n) \div 1000
           s == StandardFee
<1>1. s \in Nat \ {0}
  BY AmountsAssumption
<1>2. Bytes(n) \in Nat
  BY DEF Bytes
<1>3. m \in Nat /\ m * 1000 <= Bytes(n)
  BY <1>2
<1>4. WithdrawFee(n) = IF m * s > s THEN m * s ELSE s
  BY DEF WithdrawFee
<1> HIDE DEF m, s
<1>5. m * s \in Nat
  BY <1>1, <1>3
<1>6. (m * s) * 1000 <= Bytes(n) * s
  <2>1. (m * 1000) * s <= Bytes(n) * s
    BY <1>1, <1>2, <1>3, ProductMonotone
  <2>2. (m * 1000) * s = (m * s) * 1000
    BY <1>1, <1>3
  <2> QED
    BY <2>1, <2>2
<1>7. (m * s) % s = 0
  BY <1>1, <1>3, MultipleOfUnit
<1>8. s % s = 0
  BY <1>1
<1>9. /\ WithdrawFee(n) \in Nat
      /\ WithdrawFee(n) >= s
      /\ WithdrawFee(n) = s \/ WithdrawFee(n) * 1000 <= Bytes(n) * s
      /\ WithdrawFee(n) % s = 0
  <2>1. CASE m * s > s
    <3>1. WithdrawFee(n) = m * s
      BY <1>4, <2>1
    <3> QED
      BY <1>1, <1>5, <1>6, <1>7, <2>1, <3>1
  <2>2. CASE ~ (m * s > s)
    <3>1. WithdrawFee(n) = s
      BY <1>4, <2>2
    <3> QED
      BY <1>1, <1>8, <3>1
  <2> QED
    BY <2>1, <2>2
<1> QED
  BY <1>9 DEF s

\* The coins of S at address a.
At(S, a) == {c \in S : c.addr = a}

\* outs gives amount to one address, change to another, nothing to a third.
Pays(outs, from, to, amount, change) ==
  /\ IsFiniteSet(outs) /\ outs \subseteq Coins
  /\ Total(outs) = amount + change
  /\ Total(At(outs, from)) = change
  /\ Total(At(outs, to)) = amount
  /\ \A a \in Addrs \ {from, to} : At(outs, a) = {}

\* A payment with change, whose payer is not the payee.
LEMMA PayAndChangePays ==
  ASSUME NEW n \in Nat, NEW from \in Addrs, NEW to \in Addrs, from # to,
         NEW amount \in Nat, NEW change \in Nat
  PROVE  Pays(PayAndChange(n, from, to, amount, change), from, to, amount, change)
<1> DEFINE outs == PayAndChange(n, from, to, amount, change)
           pay == [tx |-> n, addr |-> to, amt |-> amount]
           left == [tx |-> n, addr |-> from, amt |-> change]
<1>1. outs = {left, pay}
  BY DEF PayAndChange
<1>2. /\ pay \in Coins /\ pay.addr = to /\ pay.amt = amount
      /\ left \in Coins /\ left.addr = from /\ left.amt = change
  BY DEF Coins
<1> HIDE DEF outs, pay, left
<1>3. left # pay
  BY <1>2
<1>4. IsFiniteSet(outs) /\ Total(outs) = amount + change
  <2>1. IsFiniteSet({left, pay}) /\ Total({left, pay}) = left.amt + pay.amt
    BY <1>2, <1>3, TotalPair
  <2> QED
    BY <1>1, <1>2, <2>1
<1>5. Total(At(outs, from)) = change
  <2>1. At(outs, from) = {left}
    BY <1>1, <1>2 DEF At
  <2> QED
    BY <1>2, <2>1, TotalSingleton
<1>6. Total(At(outs, to)) = amount
  <2>1. At(outs, to) = {pay}
    BY <1>1, <1>2 DEF At
  <2> QED
    BY <1>2, <2>1, TotalSingleton
<1>7. \A a \in Addrs \ {from, to} : At(outs, a) = {}
  BY <1>1, <1>2 DEF At
<1> QED
  BY <1>1, <1>2, <1>4, <1>5, <1>6, <1>7 DEF Pays, outs

\* A payment of everything, without change.
LEMMA PayAllPays ==
  ASSUME NEW n \in Nat, NEW from \in Addrs, NEW to \in Addrs, from # to,
         NEW amount \in Nat
  PROVE  Pays({[tx |-> n, addr |-> to, amt |-> amount]}, from, to, amount, 0)
<1> DEFINE pay == [tx |-> n, addr |-> to, amt |-> amount]
<1>1. pay \in Coins /\ pay.addr = to /\ pay.amt = amount
  BY DEF Coins
<1> HIDE DEF pay
<1>2. IsFiniteSet({pay}) /\ Total({pay}) = amount
  BY <1>1, FS_Singleton, TotalSingleton
<1>3. At({pay}, to) = {pay} /\ \A a \in Addrs \ {to} : At({pay}, a) = {}
  BY <1>1 DEF At
<1>4. Pays({pay}, from, to, amount, 0)
  <2>1. Total(At({pay}, from)) = 0
    BY <1>3, TotalEmpty
  <2>2. Total(At({pay}, to)) = amount
    BY <1>2, <1>3
  <2> QED
    BY <1>1, <1>2, <1>3, <2>1, <2>2 DEF Pays
<1> QED
  BY <1>4 DEF pay

\* What a call holds between its two RPCs: finitely many coins of one payer,
\* enough of them for the fixed amounts, and a payee other than the payer.
HeldCoins(k, c) ==
  /\ IsFiniteSet(c.ins)
  /\ \A x \in c.ins : x.addr = c.from
  /\ c.from # c.to
  /\ k = "tip" => /\ c.from \in Users /\ c.to \in Users
                  /\ Total(c.ins) >= FeeAmount + TipAmount
  /\ k = "fund" => /\ c.from = Reserves /\ c.to \in Users
                   /\ Total(c.ins) >= FeeAmount + FundAmount
  /\ k = "withdraw" => c.from \in Users

\* What an accepted broadcast does with the coins that the call holds: the
\* payee's amount, the payer's change, and the fee meant for the operation.
LEMMA BroadcastPays ==
  ASSUME NEW k \in Kinds, NEW n \in Nat, NEW c \in Calls, c # Idle,
         HeldCoins(k, c), Accepts(c.ins, Outputs(k, n, c))
  PROVE  \E amount, change, fee \in Nat :
           /\ Pays(Outputs(k, n, c), c.from, c.to, amount, change)
           /\ Total(c.ins) = amount + change + fee
           /\ amount > 0
           /\ k = "tip" => amount = TipAmount /\ fee = FeeAmount
           /\ k = "fund" => amount = FundAmount /\ fee = FeeAmount
           /\ k = "withdraw" => change = 0 /\ fee = WithdrawFee(Cardinality(c.ins))
<1> DEFINE outs == Outputs(k, n, c)
           sum == Total(c.ins)
<1>1. /\ c.from \in Addrs /\ c.to \in Addrs /\ c.from # c.to
      /\ c.ins \in SUBSET Coins /\ IsFiniteSet(c.ins)
  BY DEF Calls, HeldCoins
<1>2. sum \in Nat
  BY <1>1, SatoshiFinite
<1>3. {TipAmount, FeeAmount, FundAmount, Dust} \subseteq Nat \ {0}
  BY AmountsAssumption
<1>4. CASE k = "tip"
  <2>1. sum - TipAmount - FeeAmount \in Nat
    BY <1>2, <1>3, <1>4 DEF HeldCoins
  <2>2. outs = PayAndChange(n, c.from, c.to, TipAmount, sum - TipAmount - FeeAmount)
    BY <1>4 DEF Outputs, TipOutputs
  <2> HIDE DEF outs, sum
  <2>3. Pays(outs, c.from, c.to, TipAmount, sum - TipAmount - FeeAmount)
    BY <1>1, <1>3, <2>1, <2>2, PayAndChangePays
  <2>4. sum = TipAmount + (sum - TipAmount - FeeAmount) + FeeAmount
    BY <1>2, <1>3
  <2> QED
    BY <1>3, <1>4, <2>1, <2>3, <2>4 DEF outs, sum
<1>5. CASE k = "fund"
  <2>1. sum - FundAmount - FeeAmount \in Nat
    BY <1>2, <1>3, <1>5 DEF HeldCoins
  <2>2. outs = PayAndChange(n, c.from, c.to, FundAmount, sum - FundAmount - FeeAmount)
    BY <1>5 DEF Outputs, FundOutputs
  <2> HIDE DEF outs, sum
  <2>3. Pays(outs, c.from, c.to, FundAmount, sum - FundAmount - FeeAmount)
    BY <1>1, <1>3, <2>1, <2>2, PayAndChangePays
  <2>4. sum = FundAmount + (sum - FundAmount - FeeAmount) + FeeAmount
    BY <1>2, <1>3
  <2> QED
    BY <1>3, <1>5, <2>1, <2>3, <2>4 DEF outs, sum
<1>6. CASE k = "withdraw"
  <2> DEFINE fee == WithdrawFee(Cardinality(c.ins))
             amount == sum - fee
  <2>1. Cardinality(c.ins) \in Nat
    BY <1>1, FS_CardinalityType
  <2>2. fee \in Nat
    BY <2>1, WithdrawFeeBounds
  <2>3. outs = {[tx |-> n, addr |-> c.to, amt |-> amount]}
    BY <1>6 DEF Outputs, WithdrawOutputs
  <2>4. amount \in Nat /\ amount >= Dust
    <3>1. \A o \in outs : o.amt \in Nat /\ o.amt >= Dust
      BY DEF Accepts
    <3> QED
      BY <2>3, <3>1
  <2> HIDE DEF outs, sum
  <2>5. sum = amount + 0 + fee
    BY <1>2, <2>2
  <2> HIDE DEF fee, amount
  <2>6. Pays(outs, c.from, c.to, amount, 0)
    BY <1>1, <2>3, <2>4, PayAllPays
  <2>7. amount > 0
    BY <1>3, <2>4
  <2> QED
    BY <1>6, <2>2, <2>4, <2>5, <2>6, <2>7 DEF outs, sum, fee
<1> QED
  BY <1>4, <1>5, <1>6 DEF Kinds

-----------------------------------------------------------------------------
(* Fees.                                                                   *)

\* Every call in progress holds such coins.
CallsHold == \A k \in Kinds : call[k] # Idle => HeldCoins(k, call[k])

\* FeesAsIntended is not inductive: the fee of a broadcast is what the call left
\* out of the coins it HOLDS, read at an earlier step.  That the difference is
\* the fee needs those coins to be worth enough (else the change is negative),
\* payer and payee to differ (else the hash loses an output), and sums to be
\* numbers, hence finitely many coins.
FeeInv ==
  /\ IsFiniteSet(unspent)
  /\ CallsHold
  /\ FeesAsIntended

\* A transaction appended to the chain keeps the fees as intended when its own
\* fee is.
LEMMA AppendKeepsFees ==
  ASSUME TypeOK, FeesAsIntended, NEW tx, txs' = Append(txs, tx), IntendedFee(tx)
  PROVE  FeesAsIntended'
<1>1. /\ DOMAIN txs = 1 .. Len(txs) /\ DOMAIN txs' = 1 .. Len(txs) + 1
      /\ \A i \in 1 .. Len(txs) : txs'[i] = txs[i]
      /\ txs'[Len(txs) + 1] = tx /\ Len(txs) \in Nat
  BY DEF TypeOK
<1>2. \A i \in DOMAIN txs' : i \in DOMAIN txs \/ i = Len(txs) + 1
  BY <1>1
<1>3. \A i \in DOMAIN txs' : IntendedFee(txs'[i])
  BY <1>1, <1>2 DEF FeesAsIntended
<1> QED
  BY <1>3 DEF FeesAsIntended, IntendedFee, FeePaid

\* The chain at the start holds deposits only, and they pay no fee.
LEMMA InitFeeInv == Init => FeeInv
<1> SUFFICES ASSUME Init PROVE FeeInv
  OBVIOUS
<1>1. Len(Seed) \in Nat
  BY SeedAssumption, LenProperties
<1>2. IsFiniteSet(unspent)
  <2> DEFINE coin == [i \in 1 .. Len(Seed) |->
                        [tx |-> i, addr |-> Seed[i].addr, amt |-> Seed[i].amt]]
  <2>1. coin \in Surjection(1 .. Len(Seed), unspent)
    BY DEF Init, Surjection
  <2>2. IsFiniteSet(1 .. Len(Seed))
    BY <1>1, FS_Interval
  <2> QED
    BY <2>1, <2>2, FS_Surjection
<1>3. CallsHold
  BY DEF Init, CallsHold
<1>4. FeesAsIntended
  BY DEF Init, FeesAsIntended, IntendedFee, Deposited
<1> QED
  BY <1>2, <1>3, <1>4 DEF FeeInv

\* A first RPC that answers keeps the invariant when the call has what it
\* needs of the coins it read.
LEMMA ReadKeepsFeeInv ==
  ASSUME TypeOK, FeeInv, NEW k \in Kinds, NEW from \in Addrs, NEW to \in Addrs,
         Read(k, from, to), from # to,
         k = "tip" => /\ from \in Users /\ to \in Users
                      /\ Total(ListUnspent(from)) >= FeeAmount + TipAmount,
         k = "fund" => /\ from = Reserves /\ to \in Users
                       /\ Total(ListUnspent(from)) >= FeeAmount + FundAmount,
         k = "withdraw" => from \in Users
  PROVE  FeeInv'
<1> DEFINE c == [pc |-> "send", from |-> from, to |-> to, ins |-> ListUnspent(from)]
<1>1. call' = [call EXCEPT ![k] = c] /\ UNCHANGED <<txs, unspent>>
  BY DEF Read
<1>2. IsFiniteSet(ListUnspent(from))
  <2>1. ListUnspent(from) \in SUBSET unspent /\ IsFiniteSet(unspent)
    BY DEF ListUnspent, FeeInv
  <2> QED
    BY <2>1, FS_Subset
<1>3. HeldCoins(k, c)
  BY <1>2 DEF HeldCoins, ListUnspent
<1> HIDE DEF c
<1>4. CallsHold'
  <2> SUFFICES ASSUME NEW j \in Kinds, call'[j] # Idle
               PROVE  HeldCoins(j, call'[j])
    BY DEF CallsHold, HeldCoins, Total, Satoshi
  <2>1. CASE j = k
    BY <1>1, <1>3, <2>1 DEF TypeOK
  <2>2. CASE j # k
    <3>1. call'[j] = call[j]
      BY <1>1, <2>2 DEF TypeOK
    <3> QED
      BY <3>1 DEF FeeInv, CallsHold
  <2> QED
    BY <2>1, <2>2
<1> QED
  BY <1>1, <1>4 DEF FeeInv, FeesAsIntended, IntendedFee, FeePaid

\* A call that ends holds nothing.
LEMMA IdleKeepsCallsHold ==
  ASSUME TypeOK, CallsHold, NEW k \in Kinds, call' = [call EXCEPT ![k] = Idle]
  PROVE  CallsHold'
<1> SUFFICES ASSUME NEW j \in Kinds, call'[j] # Idle
             PROVE  HeldCoins(j, call'[j])
  BY DEF CallsHold, HeldCoins, Total, Satoshi
<1>1. j # k /\ call'[j] = call[j]
  BY DEF TypeOK
<1> QED
  BY <1>1 DEF CallsHold

\* Every step keeps the invariant.
LEMMA NextFeeInv == TypeOK /\ FeeInv /\ [Next]_vars => FeeInv'
<1> SUFFICES ASSUME TypeOK, FeeInv, [Next]_vars PROVE FeeInv'
  OBVIOUS
<1>1. ASSUME NEW from \in Users, NEW to \in Users, BeginTip(from, to)
      PROVE  FeeInv'
  BY <1>1, ReadKeepsFeeInv DEF BeginTip, Kinds, Addrs
<1>2. ASSUME NEW to \in Users, BeginFund(to)
      PROVE  FeeInv'
  BY <1>2, ReadKeepsFeeInv, AddrsAssumption DEF BeginFund, Kinds, Addrs
<1>3. ASSUME NEW from \in Users, NEW to \in Addrs, BeginWithdraw(from, to)
      PROVE  FeeInv'
  BY <1>3, ReadKeepsFeeInv DEF BeginWithdraw, Kinds, Addrs
<1>4. ASSUME NEW k \in Kinds, Broadcast(k)
      PROVE  FeeInv'
  <2> DEFINE c == call[k]
             outs == Outputs(k, Len(txs) + 1, c)
             tx == [kind |-> k, from |-> c.from, to |-> c.to,
                    ins |-> c.ins, outs |-> outs]
  <2>1. c \in Calls /\ c # Idle /\ Len(txs) + 1 \in Nat /\ HeldCoins(k, c)
    BY <1>4 DEF Broadcast, TypeOK, FeeInv, CallsHold
  <2>2. /\ Accepts(c.ins, outs)
        /\ txs' = Append(txs, tx)
        /\ unspent' = (unspent \ c.ins) \union outs
        /\ call' = [call EXCEPT ![k] = Idle]
    BY <1>4 DEF Broadcast
  <2>3. PICK amount, change, fee \in Nat :
          /\ Pays(outs, c.from, c.to, amount, change)
          /\ Total(c.ins) = amount + change + fee
          /\ k = "tip" => fee = FeeAmount
          /\ k = "fund" => fee = FeeAmount
          /\ k = "withdraw" => fee = WithdrawFee(Cardinality(c.ins))
    BY <2>1, <2>2, BroadcastPays
  <2>4. IsFiniteSet(c.ins)
    BY <2>1 DEF HeldCoins
  <2> HIDE DEF outs, c
  <2>5. FeePaid(tx) = fee
    BY <2>3 DEF FeePaid, Pays
  <2>6. IntendedFee(tx)
    <3>1. tx.kind = k /\ tx.ins = c.ins
      OBVIOUS
    <3> HIDE DEF tx
    <3>2. CASE k = "withdraw"
      <4>1. Cardinality(c.ins) \in Nat
        BY <2>4, FS_CardinalityType
      <4> QED
        BY <2>3, <2>5, <3>1, <3>2, <4>1, WithdrawFeeBounds DEF IntendedFee
    <3>3. CASE k # "withdraw"
      BY <2>3, <2>5, <3>1, <3>3 DEF IntendedFee
    <3> QED
      BY <3>2, <3>3
  <2> HIDE DEF tx
  <2>7. FeesAsIntended'
    BY <2>2, <2>6, AppendKeepsFees DEF FeeInv
  <2>8. CallsHold'
    BY <2>2, IdleKeepsCallsHold DEF FeeInv
  <2>9. IsFiniteSet(unspent')
    <3>1. IsFiniteSet(unspent) /\ IsFiniteSet(outs)
      BY <2>3 DEF FeeInv, Pays
    <3>2. IsFiniteSet(unspent \ c.ins)
      BY <3>1, FS_Difference
    <3> QED
      BY <2>2, <3>1, <3>2, FS_Union
  <2> QED
    BY <2>7, <2>8, <2>9 DEF FeeInv
<1>5. ASSUME NEW k \in Kinds, GiveUp(k)
      PROVE  FeeInv'
  <2>1. call' = [call EXCEPT ![k] = Idle] /\ UNCHANGED <<txs, unspent>>
    BY <1>5 DEF GiveUp
  <2>2. CallsHold'
    BY <2>1, IdleKeepsCallsHold DEF FeeInv
  <2> QED
    BY <2>1, <2>2 DEF FeeInv, FeesAsIntended, IntendedFee, FeePaid
<1>6. ASSUME NEW to \in Users \union {Reserves}, NEW amt \in DepositAmounts, Deposit(to, amt)
      PROVE  FeeInv'
  <2> DEFINE tx == Deposited(Len(txs) + 1, to, amt)
  <2>1. txs' = Append(txs, tx) /\ unspent' = unspent \union tx.outs /\ UNCHANGED call
    BY <1>6 DEF Deposit
  <2>2. IntendedFee(tx) /\ tx.outs = {[tx |-> Len(txs) + 1, addr |-> to, amt |-> amt]}
    BY DEF IntendedFee, Deposited
  <2> HIDE DEF tx
  <2>3. FeesAsIntended'
    BY <2>1, <2>2, AppendKeepsFees DEF FeeInv
  <2>4. CallsHold'
    BY <2>1 DEF FeeInv, CallsHold, HeldCoins, Total, Satoshi
  <2>5. IsFiniteSet(unspent')
    <3>1. IsFiniteSet(unspent)
      BY DEF FeeInv
    <3>2. IsFiniteSet(tx.outs)
      BY <2>2, FS_Singleton
    <3> QED
      BY <2>1, <3>1, <3>2, FS_Union
  <2> QED
    BY <2>3, <2>4, <2>5 DEF FeeInv
<1>7. CASE UNCHANGED vars
  BY <1>7 DEF vars, FeeInv, CallsHold, HeldCoins, Total, Satoshi,
              FeesAsIntended, IntendedFee, FeePaid
<1> QED
  BY <1>1, <1>2, <1>3, <1>4, <1>5, <1>6, <1>7 DEF Next

\* No transaction of any call, however stale the coins it read, burns more or
\* less than the fee meant for it.
THEOREM FeesIntended == Spec => []FeesAsIntended
<1>1. Spec => [](TypeOK /\ FeeInv)
  BY InitTypeOK, NextTypeOK, InitFeeInv, NextFeeInv, PTL DEF Spec
<1>2. FeeInv => FeesAsIntended
  BY DEF FeeInv
<1> QED
  BY <1>1, <1>2, PTL

-----------------------------------------------------------------------------
(* Refinement of the ledger of accounts.                                   *)

\* Every balance is a number of satoshi.
LEMMA BalancesType ==
  ASSUME TypeOK, IsFiniteSet(unspent)
  PROVE  Balances \in [Addrs -> Nat]
<1> SUFFICES ASSUME NEW a \in Addrs PROVE Total(ListUnspent(a)) \in Nat
  BY DEF Balances
<1>1. ListUnspent(a) \in SUBSET unspent /\ ListUnspent(a) \in SUBSET Coins
  BY DEF ListUnspent, TypeOK
<1>2. IsFiniteSet(ListUnspent(a))
  BY <1>1, FS_Subset
<1> QED
  BY <1>1, <1>2, SatoshiFinite

\* What replacing the coins ins by the new coins outs does to a balance.
LEMMA BalanceAfter ==
  ASSUME TypeOK, UnspentHaveTx, IsFiniteSet(unspent),
         NEW ins \in SUBSET unspent,
         NEW outs \in SUBSET Coins, IsFiniteSet(outs),
         \A o \in outs : o.tx = Len(txs) + 1,
         unspent' = (unspent \ ins) \union outs,
         NEW a \in Addrs
  PROVE  Balances'[a] = Balances[a] - Total(At(ins, a)) + Total(At(outs, a))
<1> DEFINE old == At(unspent, a)
           gone == At(ins, a)
           new == At(outs, a)
<1>1. Balances[a] = Total(old)
  BY DEF Balances, ListUnspent, At
<1>2. Balances'[a] = Total(At(unspent', a))
  BY DEF Balances, ListUnspent, At, Total, Satoshi
<1>3. At(unspent', a) = (old \ gone) \union new
  BY DEF At
<1>4. /\ old \in SUBSET unspent /\ old \in SUBSET Coins
      /\ gone \in SUBSET old
      /\ new \in SUBSET outs /\ new \in SUBSET Coins
      /\ old \ gone \in SUBSET old /\ old \ gone \in SUBSET Coins
  BY DEF At, TypeOK
<1>5. (old \ gone) \intersect new = {}
  <2>1. Len(txs) \in Nat
    BY DEF TypeOK
  <2> QED
    BY <2>1 DEF At, UnspentHaveTx
<1> HIDE DEF old, gone, new
<1>6. IsFiniteSet(old) /\ IsFiniteSet(new)
  BY <1>4, FS_Subset
<1>7. IsFiniteSet(old \ gone) /\ IsFiniteSet(gone)
  BY <1>4, <1>6, FS_Subset
<1>8. Total((old \ gone) \union new) = Total(old \ gone) + Total(new)
  BY <1>4, <1>5, <1>6, <1>7, TotalUnion
<1>9. Total(old \ gone) = Total(old) - Total(gone)
  BY <1>4, <1>6, TotalDifference
<1> QED
  BY <1>1, <1>2, <1>3, <1>8, <1>9 DEF old, gone, new

\* An accepted broadcast is one movement of money between two accounts.
LEMMA BroadcastMoves ==
  ASSUME TypeOK, UnspentHaveTx, FeeInv, NEW k \in Kinds, Broadcast(k)
  PROVE  \E from, to \in Addrs, amount, fee \in Nat :
           /\ amount > 0
           /\ Ledger!Move(from, to, amount, fee)
           /\ k = "tip" => /\ from \in Users /\ to \in Users
                           /\ amount = TipAmount /\ fee = FeeAmount
           /\ k = "fund" => /\ from = Reserves /\ to \in Users
                            /\ amount = FundAmount /\ fee = FeeAmount
           /\ k = "withdraw" => /\ from \in Users
                                /\ fee >= StandardFee /\ fee % StandardFee = 0
<1> DEFINE c == call[k]
           outs == Outputs(k, Len(txs) + 1, c)
<1>1. c \in Calls /\ c # Idle /\ Len(txs) + 1 \in Nat /\ HeldCoins(k, c)
  BY DEF Broadcast, TypeOK, FeeInv, CallsHold
<1>2. /\ Accepts(c.ins, outs)
      /\ unspent' = (unspent \ c.ins) \union outs
  BY DEF Broadcast
<1>3. /\ c.from \in Addrs /\ c.to \in Addrs /\ c.from # c.to
      /\ c.ins \in SUBSET unspent /\ c.ins \in SUBSET Coins /\ IsFiniteSet(c.ins)
      /\ \A x \in c.ins : x.addr = c.from
  BY <1>1, <1>2 DEF Calls, HeldCoins, Accepts
<1>4. \A o \in outs : o.tx = Len(txs) + 1
  BY <1>1, <1>2, OutputsType
<1>5. PICK amount, change, fee \in Nat :
        /\ Pays(outs, c.from, c.to, amount, change)
        /\ Total(c.ins) = amount + change + fee
        /\ amount > 0
        /\ k = "tip" => amount = TipAmount /\ fee = FeeAmount
        /\ k = "fund" => amount = FundAmount /\ fee = FeeAmount
        /\ k = "withdraw" => fee = WithdrawFee(Cardinality(c.ins))
  BY <1>1, <1>2, BroadcastPays
<1> HIDE DEF outs
<1>6. UnspentHaveTx /\ IsFiniteSet(unspent)
  BY DEF FeeInv
<1>7. outs \in SUBSET Coins /\ IsFiniteSet(outs)
  BY <1>5 DEF Pays
<1>8. \A a \in Addrs :
        Balances'[a] = Balances[a] - Total(At(c.ins, a)) + Total(At(outs, a))
  BY <1>2, <1>3, <1>4, <1>6, <1>7, BalanceAfter
<1>9. Balances \in [Addrs -> Nat]
  BY <1>6, BalancesType
<1>10. Balances' = [Balances EXCEPT ![c.from] = @ - amount - fee, ![c.to] = @ + amount]
  <2>1. Balances'[c.from] = Balances[c.from] - amount - fee
    <3>1. At(c.ins, c.from) = c.ins
      BY <1>3 DEF At
    <3>2. Total(At(c.ins, c.from)) = amount + change + fee
      BY <1>5, <3>1
    <3>3. Total(At(outs, c.from)) = change
      BY <1>5 DEF Pays
    <3>4. Balances[c.from] \in Nat
      BY <1>3, <1>9
    <3>5. Balances'[c.from] = Balances[c.from] - (amount + change + fee) + change
      BY <1>3, <1>8, <3>2, <3>3
    <3> QED
      BY <3>4, <3>5
  <2>2. ASSUME NEW a \in Addrs, a # c.from
        PROVE  Balances'[a] = Balances[a] + Total(At(outs, a))
    <3>1. At(c.ins, a) = {}
      BY <1>3, <2>2 DEF At
    <3>2. Total(At(c.ins, a)) = 0
      BY <3>1, TotalEmpty
    <3>3. Balances[a] \in Nat
      BY <1>9
    <3> QED
      BY <1>8, <3>2, <3>3
  <2>3. Balances'[c.to] = Balances[c.to] + amount
    BY <1>3, <1>5, <2>2 DEF Pays
  <2>4. ASSUME NEW a \in Addrs, a # c.from, a # c.to
        PROVE  Balances'[a] = Balances[a]
    <3>1. At(outs, a) = {}
      BY <1>5, <2>4 DEF Pays
    <3>2. Total(At(outs, a)) = 0
      BY <3>1, TotalEmpty
    <3>3. Balances[a] \in Nat
      BY <1>9
    <3> QED
      BY <2>2, <2>4, <3>2, <3>3
  <2>5. DOMAIN Balances' = Addrs /\ Balances' = [a \in Addrs |-> Balances'[a]]
    BY DEF Balances
  <2> QED
    BY <1>3, <1>9, <2>1, <2>3, <2>4, <2>5
<1>11. Balances[c.from] >= amount + fee
  <2>1. c.ins \in SUBSET ListUnspent(c.from)
    BY <1>3 DEF ListUnspent
  <2>2. /\ ListUnspent(c.from) \in SUBSET unspent
        /\ ListUnspent(c.from) \in SUBSET Coins
    BY DEF ListUnspent, TypeOK
  <2>3. IsFiniteSet(ListUnspent(c.from))
    BY <1>6, <2>2, FS_Subset
  <2>4. Total(c.ins) <= Total(ListUnspent(c.from))
    BY <2>1, <2>2, <2>3, TotalDifference
  <2>5. Balances[c.from] = Total(ListUnspent(c.from)) /\ Balances[c.from] \in Nat
    BY <1>3, <1>9 DEF Balances
  <2>6. amount + change + fee <= Balances[c.from]
    BY <1>5, <2>4, <2>5
  <2> QED
    BY <2>5, <2>6
<1>12. Ledger!Move(c.from, c.to, amount, fee)
  BY <1>3, <1>10, <1>11 DEF Ledger!Move
<1>13. k = "withdraw" => fee >= StandardFee /\ fee % StandardFee = 0
  <2>1. Cardinality(c.ins) \in Nat
    BY <1>3, FS_CardinalityType
  <2> QED
    BY <1>5, <2>1, WithdrawFeeBounds
<1>14. /\ k = "tip" => c.from \in Users /\ c.to \in Users
       /\ k = "fund" => c.from = Reserves /\ c.to \in Users
       /\ k = "withdraw" => c.from \in Users
  BY <1>1 DEF HeldCoins
<1> HIDE DEF c
<1> QED
  BY <1>3, <1>5, <1>12, <1>13, <1>14

\* A deposit adds to one balance.
LEMMA DepositAdds ==
  ASSUME TypeOK, UnspentHaveTx, FeeInv,
         NEW to \in Users \union {Reserves}, NEW amt \in DepositAmounts, Deposit(to, amt)
  PROVE  Ledger!Deposit(to)
<1> DEFINE coin == [tx |-> Len(txs) + 1, addr |-> to, amt |-> amt]
<1>1. to \in Addrs /\ amt \in Nat /\ amt > 0 /\ Len(txs) + 1 \in Nat
  BY AmountsAssumption DEF Addrs, TypeOK
<1>2. unspent' = (unspent \ {}) \union {coin}
  BY DEF Deposit, Deposited
<1>3. coin \in Coins /\ coin.tx = Len(txs) + 1 /\ coin.addr = to /\ coin.amt = amt
  BY <1>1 DEF Coins
<1> HIDE DEF coin
<1>4. UnspentHaveTx /\ IsFiniteSet(unspent)
  BY DEF FeeInv
<1>5. IsFiniteSet({coin}) /\ {coin} \in SUBSET Coins /\ {} \in SUBSET unspent
  BY <1>3, FS_Singleton
<1>6. \A a \in Addrs :
        Balances'[a] = Balances[a] - Total(At({}, a)) + Total(At({coin}, a))
  BY <1>2, <1>3, <1>4, <1>5, BalanceAfter
<1>7. Balances \in [Addrs -> Nat]
  BY <1>4, BalancesType
<1>8. ASSUME NEW a \in Addrs
      PROVE  Balances'[a] = Balances[a] + Total(At({coin}, a))
  <2>1. At({}, a) = {}
    BY DEF At
  <2>2. Total(At({}, a)) = 0
    BY <2>1, TotalEmpty
  <2>3. Balances[a] - 0 = Balances[a]
    BY <1>7
  <2> QED
    BY <1>6, <2>2, <2>3
<1>9. Balances'[to] = Balances[to] + amt
  <2>1. At({coin}, to) = {coin}
    BY <1>3 DEF At
  <2>2. Total(At({coin}, to)) = amt
    BY <1>3, <2>1, TotalSingleton
  <2> QED
    BY <1>1, <1>8, <2>2
<1>10. ASSUME NEW a \in Addrs, a # to
       PROVE  Balances'[a] = Balances[a]
  <2>1. At({coin}, a) = {}
    BY <1>3, <1>10 DEF At
  <2>2. Total(At({coin}, a)) = 0
    BY <2>1, TotalEmpty
  <2>3. Balances[a] \in Nat
    BY <1>7
  <2> QED
    BY <1>8, <2>2, <2>3
<1>11. Balances' = [a \in Addrs |-> Balances'[a]]
  BY DEF Balances
<1>12. Balances'[to] > Balances[to]
  BY <1>1, <1>7, <1>9
<1>13. Balances' = [Balances EXCEPT ![to] = Balances'[to]]
  BY <1>1, <1>7, <1>10, <1>11
<1> QED
  BY <1>12, <1>13 DEF Ledger!Deposit

\* The first balances are an initial state of the ledger.
LEMMA InitLedger == Init => Ledger!Init
<1> SUFFICES ASSUME Init PROVE Ledger!Init
  OBVIOUS
<1>1. TypeOK /\ IsFiniteSet(unspent)
  BY InitTypeOK, InitFeeInv DEF FeeInv
<1> QED
  BY <1>1, BalancesType DEF Ledger!Init

\* Every step of the coins and the daemons is a step of the ledger or leaves
\* every balance as it was.
LEMMA NextLedger ==
  TypeOK /\ UnspentHaveTx /\ FeeInv /\ [Next]_vars => [Ledger!Next]_Balances
<1> SUFFICES ASSUME TypeOK, UnspentHaveTx, FeeInv, [Next]_vars
             PROVE  [Ledger!Next]_Balances
  OBVIOUS
<1>1. ASSUME UNCHANGED unspent PROVE UNCHANGED Balances
  BY <1>1 DEF Balances, ListUnspent, Total, Satoshi
<1>2. ASSUME NEW k \in Kinds, Broadcast(k) PROVE Ledger!Next
  <2>1. PICK from \in Addrs, to \in Addrs, amount \in Nat, fee \in Nat :
           /\ amount > 0
           /\ Ledger!Move(from, to, amount, fee)
           /\ k = "tip" => /\ from \in Users /\ to \in Users
                           /\ amount = TipAmount /\ fee = FeeAmount
           /\ k = "fund" => /\ from = Reserves /\ to \in Users
                            /\ amount = FundAmount /\ fee = FeeAmount
           /\ k = "withdraw" => /\ from \in Users
                                /\ fee >= StandardFee /\ fee % StandardFee = 0
    BY <1>2, BroadcastMoves
  <2>2. CASE k = "tip"
    <3>1. Ledger!Tip(from, to)
      BY <2>1, <2>2 DEF Ledger!Tip
    <3> QED
      BY <2>1, <2>2, <3>1 DEF Ledger!Next
  <2>3. CASE k = "fund"
    <3>1. Ledger!Fund(to)
      BY <2>1, <2>3 DEF Ledger!Fund
    <3> QED
      BY <2>1, <2>3, <3>1 DEF Ledger!Next
  <2>4. CASE k = "withdraw"
    <3>1. Balances \in [Addrs -> Nat]
      BY BalancesType DEF FeeInv
    <3>2. /\ Balances'[to] - Balances[to] = amount
          /\ Balances[from] - Balances'[from] - amount = fee
      <4>1. /\ from # to
            /\ Balances' = [Balances EXCEPT ![from] = @ - amount - fee,
                                            ![to] = @ + amount]
        BY <2>1 DEF Ledger!Move
      <4>2. /\ Balances'[to] = Balances[to] + amount
            /\ Balances'[from] = Balances[from] - amount - fee
        BY <2>1, <3>1, <4>1
      <4>3. Balances[to] \in Nat /\ Balances[from] \in Nat
        BY <2>1, <3>1
      <4> QED
        BY <2>1, <4>2, <4>3
    <3>3. Ledger!Withdraw(from, to)
      BY <2>1, <2>4, <3>2 DEF Ledger!Withdraw
    <3> QED
      BY <2>1, <2>4, <3>3 DEF Ledger!Next
  <2> QED
    BY <2>2, <2>3, <2>4 DEF Kinds
<1>3. ASSUME NEW to \in Users \union {Reserves}, NEW amt \in DepositAmounts, Deposit(to, amt)
      PROVE  Ledger!Next
  <2>1. to \in Addrs
    BY DEF Addrs
  <2>2. Ledger!Deposit(to)
    BY <1>3, DepositAdds
  <2> QED
    BY <2>1, <2>2 DEF Ledger!Next
<1>4. ASSUME NEW k \in Kinds, NEW from, NEW to, Read(k, from, to)
      PROVE  UNCHANGED unspent
  BY <1>4 DEF Read
<1>5. ASSUME \/ \E from, to \in Users : BeginTip(from, to)
             \/ \E to \in Users : BeginFund(to)
             \/ \E from \in Users, to \in Addrs : BeginWithdraw(from, to)
      PROVE  UNCHANGED unspent
  BY <1>4, <1>5 DEF BeginTip, BeginFund, BeginWithdraw, Kinds
<1>6. ASSUME NEW k \in Kinds, GiveUp(k) PROVE UNCHANGED unspent
  BY <1>6 DEF GiveUp
<1>7. ASSUME UNCHANGED vars PROVE UNCHANGED unspent
  BY <1>7 DEF vars
<1> QED
  BY <1>1, <1>2, <1>3, <1>5, <1>6, <1>7 DEF Next

\* The wallet implements the ledger of accounts: whatever the daemons read and
\* whenever they broadcast, every step moves one amount between two different
\* accounts and burns one fee, adds a deposit, or changes no balance.
THEOREM ImplementsLedger == Spec => ImplementsAccountLedger
<1>1. Spec => [](TypeOK /\ UnspentHaveTx /\ FeeInv)
  BY InitTypeOK, NextTypeOK, InitUnspentHaveTx, NextUnspentHaveTx, InitFeeInv, NextFeeInv,
     PTL DEF Spec
<1> QED
  BY <1>1, InitLedger, NextLedger, PTL DEF Spec, ImplementsAccountLedger, Ledger!Spec
=============================================================================
