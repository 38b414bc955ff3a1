------------------------------- MODULE Wallet -------------------------------
(***************************************************************************)
(* The money of Tipper: class B (lib/b.rb) over a shared bitcoind wallet.  *)
(*                                                                         *)
(* Three daemons call B, one process each (config/tipper.eye): the tips    *)
(* worker calls tip_user, the withdraw worker withdraw and the fund worker *)
(* fundUser.  Every call reads the unspent outputs of the paying address   *)
(* (listunspent), builds a transaction that spends ALL of them, and        *)
(* broadcasts it with a later RPC.  Between the two RPCs other daemons, or *)
(* the outside world, may spend or add coins: nothing locks the address,   *)
(* only the node's refusal of a spent input keeps the money right.         *)
(*                                                                         *)
(* Amounts are integers (satoshi); the code's Ruby floats and their        *)
(* rounding are not modelled.                                              *)
(***************************************************************************)
EXTENDS Integers, Sequences, FiniteSets

CONSTANTS
  Users,         \* addresses of users (account "tipper_users")
  Reserves,      \* RESERVES_ADDRESS
  External,      \* addresses outside the wallet
  TipAmount,     \* TIP_AMOUNT
  FeeAmount,     \* FEE_AMOUNT
  StandardFee,   \* STANDARD_FEE_AMOUNT
  FundAmount,    \* FUND_AMOUNT
  Dust,          \* the least output the node relays
  Seed,          \* the coins there are at the start: a sequence of [addr, amt]
  DepositAmounts,\* what the outside world may send in one transaction
  MaxTxs         \* bound on the length of the chain

Addrs == Users \union {Reserves} \union External

ASSUME AddrsAssumption ==
  /\ Reserves \notin Users \union External
  /\ Users \intersect External = {}

ASSUME AmountsAssumption ==
  /\ {TipAmount, FeeAmount, StandardFee, FundAmount, Dust} \subseteq Nat \ {0}
  /\ DepositAmounts \subseteq Nat \ {0}

ASSUME SeedAssumption == Seed \in Seq([addr : Addrs, amt : Nat])

ASSUME MaxTxsAssumption == MaxTxs \in Nat

VARIABLES
  txs,        \* the accepted transactions; a txid is an index of this sequence
  unspent,    \* the coins no accepted transaction spends
  call        \* call[k]: the call of B the daemon of kind k is in the middle of

vars == <<txs, unspent, call>>

\* A transaction has at most one output per address: createrawtransaction
\* takes a hash of amounts keyed by address.
Coins == [tx : Nat, addr : Addrs, amt : Nat]

Kinds == {"tip", "withdraw", "fund"}

Transactions ==
  [kind : Kinds \union {"deposit"}, from : Addrs, to : Addrs,
   ins : SUBSET Coins, outs : SUBSET Coins]

Idle == [pc |-> "idle"]

Calls == {Idle} \union
         [pc : {"send"}, from : Addrs, to : Addrs, ins : SUBSET Coins]

\* The single satoshi that coins hold: every coin is worth amt of them.
Satoshi(coins) == UNION {{c} \X (1 .. c.amt) : c \in coins}

\* The sum of the amounts of coins, as a count: a coin may equal another in
\* amount, never in its satoshi.
Total(coins) == Cardinality(Satoshi(coins))

-----------------------------------------------------------------------------
(* The node (external): what bitcoind answers to the RPCs of B.            *)

\* listunspent(0, 9999999, [address]): minconf is 0, unconfirmed coins
\* count, so blocks are not modelled.
ListUnspent(address) == {c \in unspent : c.addr = address}

\* Mutant of Accepts: the node does not look at the amounts.
AcceptsAnyAmount(ins, outs) == ins \subseteq unspent

\* createrawtransaction refuses a negative amount, sendrawtransaction a spent
\* input or an output that is dust.
Accepts(ins, outs) ==
  /\ ins \subseteq unspent
  /\ \A c \in outs : c.amt \in Nat /\ c.amt >= Dust

Deposited(n, to, amt) ==
  [kind |-> "deposit", from |-> to, to |-> to,
   ins |-> {}, outs |-> {[tx |-> n, addr |-> to, amt |-> amt]}]

\* Someone outside pays an address of the wallet.
Deposit(to, amt) ==
  LET tx == Deposited(Len(txs) + 1, to, amt) IN
  /\ Len(txs) < MaxTxs
  /\ txs' = Append(txs, tx)
  /\ unspent' = unspent \union tx.outs
  /\ UNCHANGED call

-----------------------------------------------------------------------------
(* Class B.                                                                *)

\* The size of a transaction with n inputs and two outputs, in bytes.
Bytes(n) == 148 * n + 34 * 2 + 10

\* Mutant of WithdrawFee: without the minimum.
WithdrawFeeNoMinimum(n) == (Bytes(n) \div 1000) * StandardFee

\* The division is Ruby's on integers: below 2000 bytes the fee is the minimum.
WithdrawFee(n) ==
  LET transaction_fee == (Bytes(n) \div 1000) * StandardFee
  IN  IF transaction_fee > StandardFee THEN transaction_fee ELSE StandardFee

\* The hash {from => change, to => amount}: when both keys are the same
\* address the second pair overwrites the first.
PayAndChange(n, from, to, amount, change) ==
  {[tx |-> n, addr |-> a, amt |-> IF a = to THEN amount ELSE change] :
     a \in {from, to}}

\* Mutant of TipOutputs: the two amounts are swapped.
TipOutputsSwapped(n, c) ==
  PayAndChange(n, c.from, c.to, Total(c.ins) - TipAmount - FeeAmount, TipAmount)

\* The outputs of the transaction number n that a call builds from the coins
\* it read, which need not be the coins there are now.
TipOutputs(n, c) ==
  PayAndChange(n, c.from, c.to, TipAmount, Total(c.ins) - TipAmount - FeeAmount)

FundOutputs(n, c) ==
  PayAndChange(n, c.from, c.to, FundAmount, Total(c.ins) - FundAmount - FeeAmount)

WithdrawOutputs(n, c) ==
  {[tx |-> n, addr |-> c.to, amt |-> Total(c.ins) - WithdrawFee(Cardinality(c.ins))]}

Outputs(k, n, c) ==
  CASE k = "tip"      -> TipOutputs(n, c)
    [] k = "fund"     -> FundOutputs(n, c)
    [] k = "withdraw" -> WithdrawOutputs(n, c)

\* The first RPC of a call has answered: the daemon holds the coins of from.
Read(k, from, to) ==
  /\ call[k] = Idle
  /\ ListUnspent(from) # {}
  /\ call' = [call EXCEPT ![k] = [pc |-> "send", from |-> from, to |-> to,
                                  ins |-> ListUnspent(from)]]
  /\ UNCHANGED <<txs, unspent>>

\* Mutant of BeginTip: a tip to oneself is not refused.
BeginTipToSelf(from, to) ==
  /\ Total(ListUnspent(from)) >= FeeAmount + TipAmount
  /\ Read("tip", from, to)

\* B.tip_user up to its broadcast.  Where a guard fails the code returns nil
\* and nothing changes.
BeginTip(from, to) ==
  /\ from # to
  /\ Total(ListUnspent(from)) >= FeeAmount + TipAmount
  /\ Read("tip", from, to)

\* B.fundUser up to its broadcast; it has no guard on to.
BeginFund(to) ==
  /\ Total(ListUnspent(Reserves)) >= FeeAmount + FundAmount
  /\ Read("fund", Reserves, to)

\* B.withdraw up to its broadcast.
BeginWithdraw(from, to) ==
  /\ from # to
  /\ Read("withdraw", from, to)

\* sendrawtransaction succeeds.  Whether the reply reaches the daemon is the
\* caller's concern: the ledger is the same.
Broadcast(k) ==
  LET c == call[k]
      n == Len(txs) + 1
      outs == Outputs(k, n, c)
  IN
  /\ c # Idle
  /\ Len(txs) < MaxTxs
  /\ Accepts(c.ins, outs)
  /\ txs' = Append(txs, [kind |-> k, from |-> c.from, to |-> c.to,
                         ins |-> c.ins, outs |-> outs])
  /\ unspent' = (unspent \ c.ins) \union outs
  /\ call' = [call EXCEPT ![k] = Idle]

\* The node refuses, an RPC fails and is rescued, or the daemon dies.
GiveUp(k) ==
  /\ call[k] # Idle
  /\ call' = [call EXCEPT ![k] = Idle]
  /\ UNCHANGED <<txs, unspent>>

-----------------------------------------------------------------------------
Init ==
  /\ txs = [i \in 1 .. Len(Seed) |-> Deposited(i, Seed[i].addr, Seed[i].amt)]
  /\ unspent = {[tx |-> i, addr |-> Seed[i].addr, amt |-> Seed[i].amt] :
                  i \in 1 .. Len(Seed)}
  /\ call = [k \in Kinds |-> Idle]

Next ==
  \/ \E from, to \in Users : BeginTip(from, to)
  \/ \E to \in Users : BeginFund(to)
  \/ \E from \in Users, to \in Addrs : BeginWithdraw(from, to)
  \/ \E k \in Kinds : Broadcast(k) \/ GiveUp(k)
  \/ \E to \in Users \union {Reserves}, amt \in DepositAmounts : Deposit(to, amt)

Spec == Init /\ [][Next]_vars

-----------------------------------------------------------------------------
(* Properties.                                                             *)

\* Every variable holds values of its type; in particular no coin has a
\* negative amount, although withdraw subtracts a fee it never compares with
\* the balance.
TypeOK ==
  /\ txs \in Seq(Transactions)
  /\ unspent \subseteq Coins
  /\ call \in [Kinds -> Calls]

\* What a transaction leaves to the miner.
FeePaid(tx) == Total(tx.ins) - Total(tx.outs)

IntendedFee(tx) ==
  /\ tx.kind \in {"tip", "fund"} => FeePaid(tx) = FeeAmount
  /\ tx.kind = "withdraw" =>
       /\ FeePaid(tx) >= StandardFee
       /\ \/ FeePaid(tx) = StandardFee
          \/ FeePaid(tx) * 1000 <= Bytes(Cardinality(tx.ins)) * StandardFee

\* The money that disappears in a transaction is exactly the fee meant for it:
\* the fixed fee for a tip or a deposit from the reserves; for a withdrawal at
\* least the standard fee, and never more than that fee per 1000 bytes.  An
\* output overwritten in the hash, or a change computed from other coins than
\* those spent, would burn the difference without any error.
FeesAsIntended == \A i \in DOMAIN txs : IntendedFee(txs[i])

\* The balance of an address is the sum of its unspent coins.
Balances == [a \in Addrs |-> Total(ListUnspent(a))]

Ledger == INSTANCE AccountLedger WITH bal <- Balances

\* Each step of the coins and the daemons is one movement of money between
\* accounts, or none: the wallet implements AccountLedger.
ImplementsAccountLedger == Ledger!Spec
=============================================================================
