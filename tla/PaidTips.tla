------------------------------ MODULE PaidTips ------------------------------
(***************************************************************************)
(* The tips worker over the wallet: TipPipeline with Wallet under it.      *)
(*                                                                         *)
(* In TipPipeline a payment is one step.  Here it is what B.tip_user does: *)
(* the worker asks for the sender's coins, holds them while the other      *)
(* daemons and the outside world move money, broadcasts what it built from *)
(* them, and learns the txid, nothing, or dies.  What the worker tells the *)
(* users is compared with the node's chain.                                *)
(***************************************************************************)
EXTENDS TipPipeline

CONSTANTS
  Address,   \* Address[u]: BitcoinAddress in the record of user u
  Author,    \* Author[t]: BitcoinAddress of the user who wrote tweet t
  Owned, Reserves, External, TipAmount, FeeAmount, StandardFee, FundAmount,
  Dust, Seed, DepositAmounts, MaxTxs  \* the constants of Wallet

VARIABLES
  txs, unspent, call,  \* the variables of Wallet
  onchain              \* onchain[n]: the transaction of the payment number n

Bank == INSTANCE Wallet WITH Users <- Owned

ASSUME BankAssumption ==
  /\ Bank!AddrsAssumption /\ Bank!AmountsAssumption
  /\ Bank!SeedAssumption /\ Bank!MaxTxsAssumption

ASSUME AddressAssumption == Address \in [Users -> Owned] /\ Author \in [Tweets -> Owned]

chain == <<txs, unspent, call>>

From(m) == Address[m.fav[1]]
To(m) == Author[m.fav[2]]

-----------------------------------------------------------------------------
\* listunspent has answered: B.tip_user holds the sender's coins.
PayBegins ==
  /\ At("pay")
  /\ Bank!BeginTip(From(worker.msg), To(worker.msg))
  /\ UNCHANGED <<vars, onchain>>

\* sendrawtransaction succeeds, and its answer arrives or is lost.
PayBroadcasts ==
  /\ Bank!Broadcast("tip")
  /\ PaySent \/ PayLost
  /\ onchain' = Append(onchain, Len(txs) + 1)

\* The call is over without a transaction, if there was one.
CallEnds ==
  /\ IF call["tip"] = Bank!Idle THEN UNCHANGED chain ELSE Bank!GiveUp("tip")
  /\ UNCHANGED onchain

\* B.tip_user returns nil: the own tweet, too little money, or an RPC raises,
\* the first or a later one.
PayRefused == PayNil /\ CallEnds

\* The worker dies in B.tip_user, and with it what it held.
PayDies == At("pay") /\ Crash /\ CallEnds

\* Everything else of the pipeline: a worker about to pay stays so.
Elsewhere ==
  /\ Next
  /\ At("pay") => worker' = worker
  /\ UNCHANGED <<chain, onchain>>

\* The other daemons and the outside world move money.
OthersPay ==
  /\ Bank!Next
  /\ call'["tip"] = call["tip"]
  /\ UNCHANGED <<vars, onchain>>

-----------------------------------------------------------------------------
PaidInit == Init /\ Bank!Init /\ onchain = <<>>

PaidNext ==
  \/ PayBegins \/ PayBroadcasts \/ PayRefused \/ PayDies
  \/ Elsewhere
  \/ OthersPay

paidVars == <<vars, chain, onchain>>

PaidSpec == PaidInit /\ [][PaidNext]_paidVars

\* The fairness of TipPipeline: a worker that is about to pay pays, or learns
\* that it cannot.
PaidFairSpec == PaidSpec /\ Fairness

-----------------------------------------------------------------------------
(* Properties.                                                             *)

\* tx is a tip for the favorite of message m: from the sender, and with an
\* output of the amount of a tip for the author.
IsTipFor(tx, m) ==
  /\ tx.kind = "tip" /\ tx.from = From(m) /\ tx.to = To(m)
  /\ \E c \in tx.outs : c.addr = To(m) /\ c.amt = TipAmount

\* The chain has a tip for each payment the worker made, also for those whose
\* answer was lost, and no other tip: no coins that a dead worker read are
\* spent for somebody else's favorite, and no two payments are one transaction.
ChainHasPaidTips ==
  /\ DOMAIN onchain = DOMAIN paid
  /\ \A n \in DOMAIN paid :
       onchain[n] \in DOMAIN txs /\ IsTipFor(txs[onchain[n]], paid[n])
  /\ \A i \in DOMAIN txs : txs[i].kind = "tip" =>
       \E n \in DOMAIN onchain : onchain[n] = i
  /\ \A n, k \in DOMAIN onchain : n # k => onchain[n] # onchain[k]

\* Whoever is told of a tip can find it on the chain: the money left the
\* sender's address and there is an output for the author.
ToldTipsAreOnChain ==
  \A note \in notes : note.type # "low_balance" =>
    \E tx \in {txs[i] : i \in DOMAIN txs} : IsTipFor(tx, note.msg)
=============================================================================
