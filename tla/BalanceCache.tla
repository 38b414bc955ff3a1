----------------------------- MODULE BalanceCache -----------------------------
(***************************************************************************)
(* The balance that Tipper shows: the attribute BitcoinBalanceBTC of a     *)
(* user's record, a copy of what the unspent outputs of the user's address *)
(* add up to.                                                              *)
(*                                                                         *)
(* User.update_balance reads the sum from bitcoind and then writes it,     *)
(* with nothing in between to notice another writer.  These call it: the   *)
(* tips worker and the fund worker after a payment, the worker processes   *)
(* of puma when a user connects, and the wallet worker                     *)
(* (lib/process_wallet_notify_worker.rb) for every address in a            *)
(* transaction that bitcoind announces, once when the transaction appears  *)
(* and once when it is in a block.  The withdraw worker does not call it,  *)
(* and the address that a withdrawal empties is not among those announced. *)
(***************************************************************************)
EXTENDS Integers, Sequences, FiniteSets, SequencesExt

CONSTANTS
  Users,       \* users; each has one address
  WebProcesses,\* puma's worker processes
  MaxMoney,    \* bound: tips' worth of money at one address
  MaxTxs,      \* bound: transactions
  MaxFaults    \* bound: lost messages, failed RPCs and crashes

ASSUME CacheBoundsAssumption == {MaxMoney, MaxTxs, MaxFaults} \subseteq Nat

VARIABLES
  coins,       \* coins[u]: the unspent outputs of u's address, in tips
  cache,       \* cache[u]: BitcoinBalanceBTC
  job,         \* job[p]: the users whose balance p is to refresh, in order
  inbox,       \* announced transactions on the wallet worker's connection
  fresh,       \* transactions that are not in a block yet
  txs,         \* how many transactions there were
  faults,      \* how many faults there were
  excused      \* history: users of whom a refresh was missed, failed or raced

node == <<coins, inbox, fresh, txs>>
vars == <<node, cache, job, faults, excused>>

Updaters == {"tips", "fund", "wallet"} \union WebProcesses

\* The balance of Head(todo) was read, or is still to be read.
Unread == -1
Nothing == [todo |-> <<>>, read |-> Unread]
Jobs == [todo : Seq(Users), read : Nat \union {Unread}]

\* A transaction is its number and the users that its outputs pay.
Transactions == [n : Nat, pays : Seq(Users)]

Holds(p, u) == job[p].read # Unread /\ Head(job[p].todo) = u

Fault == faults < MaxFaults /\ faults' = faults + 1

-----------------------------------------------------------------------------
(* bitcoind and bin/walletnotify.rb.                                       *)

\* -walletnotify runs the script, which publishes the txid; Redis drops it when
\* the wallet worker is not connected.
Announce(pays) ==
  \/ /\ inbox' = Append(inbox, pays)
     /\ UNCHANGED faults
  \/ /\ Fault
     /\ UNCHANGED inbox

\* Those whose refresh depends on an announcement that was dropped.
Unannounced(pays) == IF inbox' = inbox THEN ToSet(pays) ELSE {}

\* A transaction is accepted and announced.
Accept(pays) ==
  /\ txs < MaxTxs
  /\ txs' = txs + 1
  /\ fresh' = fresh \union {[n |-> txs + 1, pays |-> pays]}
  /\ Announce(pays)

\* A block takes a transaction, which is announced again.
Confirm(tx) ==
  /\ tx \in fresh
  /\ fresh' = fresh \ {tx}
  /\ Announce(tx.pays)
  /\ excused' = excused \union Unannounced(tx.pays)
  /\ UNCHANGED <<coins, txs, cache, job>>

\* Someone outside pays u; or the fund worker does and does not get the node's
\* answer, which it takes for a refusal: it refreshes nothing.
Deposit(u) ==
  /\ coins[u] < MaxMoney
  /\ coins' = [coins EXCEPT ![u] = @ + 1]
  /\ Accept(<<u>>)
  /\ excused' = excused \union Unannounced(<<u>>)
  /\ UNCHANGED <<cache, job>>

-----------------------------------------------------------------------------
(* Who moves money.                                                        *)

\* B.tip_user of the tips worker: the node takes the payment.
Pay(from, to) ==
  /\ job["tips"] = Nothing
  /\ from # to
  /\ coins[from] > 0 /\ coins[to] < MaxMoney
  /\ coins' = [coins EXCEPT ![from] = @ - 1, ![to] = @ + 1]
  /\ Accept(<<from, to>>)
  /\ excused' = excused \union Unannounced(<<from, to>>)
  /\ UNCHANGED cache

\* The tips worker has paid: update_balance of both users, twice (once more in
\* Tip.new_tip).
Tip(from, to) ==
  /\ Pay(from, to)
  /\ job' = [job EXCEPT !["tips"].todo = <<from, to, from, to>>]

\* The answer of sendrawtransaction is lost: the worker takes the payment for
\* refused, and only the announcement leads to a refresh.
TipLost(from, to) == Pay(from, to) /\ UNCHANGED job

\* The fund worker has paid u from the reserves.
Fund(u) ==
  /\ job["fund"] = Nothing
  /\ coins[u] < MaxMoney
  /\ coins' = [coins EXCEPT ![u] = @ + 1]
  /\ Accept(<<u>>)
  /\ excused' = excused \union Unannounced(<<u>>)
  /\ job' = [job EXCEPT !["fund"].todo = <<u>>]
  /\ UNCHANGED cache

\* B.withdraw empties the address into one outside: no user's address is in the
\* details of the transaction, and the withdraw worker refreshes nothing.
Withdraw(u) ==
  /\ coins[u] > 0
  /\ coins' = [coins EXCEPT ![u] = 0]
  /\ Accept(<<>>)
  /\ excused' = excused \union {u}
  /\ UNCHANGED <<cache, job>>

-----------------------------------------------------------------------------
(* Who refreshes balances.                                                 *)

\* MeController#connect, in one of puma's processes.
Connect(p, u) ==
  /\ job[p] = Nothing
  /\ job' = [job EXCEPT ![p].todo = <<u>>]
  /\ UNCHANGED <<node, cache, faults, excused>>

\* Mutant of Receive: no address of the details is found.
ReceiveNobody ==
  /\ job["wallet"] = Nothing
  /\ inbox # <<>>
  /\ inbox' = Tail(inbox)
  /\ UNCHANGED <<coins, fresh, txs, cache, job, faults, excused>>

\* The wallet worker takes an announcement, writes the transaction's record and
\* goes through the addresses.
Receive ==
  /\ job["wallet"] = Nothing
  /\ inbox # <<>>
  /\ job' = [job EXCEPT !["wallet"].todo = Head(inbox)]
  /\ inbox' = Tail(inbox)
  /\ UNCHANGED <<coins, fresh, txs, cache, faults, excused>>

\* B.balance, when nobody else is between its own read and write of the same
\* user; what was missed before is made up for.
Read(p) ==
  LET u == Head(job[p].todo) IN
  /\ job[p].todo # <<>> /\ job[p].read = Unread
  /\ job' = [job EXCEPT ![p].read = coins[u]]
  /\ excused' = IF \E q \in Updaters : Holds(q, u) THEN excused \union {u} ELSE excused \ {u}
  /\ UNCHANGED <<node, cache, faults>>

\* listunspent raises: B.balance takes that for a balance of 0.
ReadFails(p) ==
  /\ job[p].todo # <<>> /\ job[p].read = Unread
  /\ Fault
  /\ job' = [job EXCEPT ![p].read = 0]
  /\ excused' = excused \union {Head(job[p].todo)}
  /\ UNCHANGED <<node, cache>>

\* Mutant of Write: what is left of the list is forgotten.
WriteForgetsRest(p) ==
  /\ job[p].read # Unread
  /\ cache' = [cache EXCEPT ![Head(job[p].todo)] = job[p].read]
  /\ job' = [job EXCEPT ![p] = Nothing]
  /\ UNCHANGED <<node, faults, excused>>

\* Mutant of Write: the next read is skipped.
WriteKeepsRead(p) ==
  /\ job[p].read # Unread
  /\ cache' = [cache EXCEPT ![Head(job[p].todo)] = job[p].read]
  /\ job' = [job EXCEPT ![p].todo = Tail(@)]
  /\ UNCHANGED <<node, faults, excused>>

\* User.update with UPDATE_BALANCE_EXPRESSION.
Write(p) ==
  /\ job[p].read # Unread
  /\ cache' = [cache EXCEPT ![Head(job[p].todo)] = job[p].read]
  /\ job' = [job EXCEPT ![p] = [todo |-> Tail(@.todo), read |-> Unread]]
  /\ UNCHANGED <<node, faults, excused>>

\* The process ends.  The wallet worker's connection goes with it.
Crash(p) ==
  /\ job[p] # Nothing
  /\ Fault
  /\ job' = [job EXCEPT ![p] = Nothing]
  /\ inbox' = IF p = "wallet" THEN <<>> ELSE inbox
  /\ excused' = excused \union ToSet(job[p].todo)
                        \union (IF p = "wallet" THEN UNION {ToSet(m) : m \in ToSet(inbox)} ELSE {})
  /\ UNCHANGED <<coins, fresh, txs, cache>>

-----------------------------------------------------------------------------
Init ==
  /\ coins = [u \in Users |-> 0] /\ cache = [u \in Users |-> 0]
  /\ job = [p \in Updaters |-> Nothing]
  /\ inbox = <<>> /\ fresh = {} /\ txs = 0
  /\ faults = 0 /\ excused = {}

Next ==
  \/ \E u \in Users : Deposit(u) \/ Fund(u) \/ Withdraw(u)
  \/ \E p \in WebProcesses, u \in Users : Connect(p, u)
  \/ \E from, to \in Users : Tip(from, to) \/ TipLost(from, to)
  \/ \E tx \in fresh : Confirm(tx)
  \/ Receive
  \/ \E p \in Updaters : Read(p) \/ ReadFails(p) \/ Write(p) \/ Crash(p)

\* A process that has begun to refresh goes on, and the wallet worker reads its
\* messages.
Fairness ==
  /\ \A p \in Updaters : WF_vars(Read(p)) /\ WF_vars(Write(p))
  /\ WF_vars(Receive)

Spec == Init /\ [][Next]_vars

FairSpec == Spec /\ Fairness

-----------------------------------------------------------------------------
(* Properties.                                                             *)

TypeOK ==
  /\ coins \in [Users -> 0 .. MaxMoney]
  /\ cache \in [Users -> Nat]
  /\ job \in [Updaters -> Jobs]
  /\ \A p \in Updaters : job[p].todo = <<>> => job[p].read = Unread
  /\ inbox \in Seq(Seq(Users))
  /\ fresh \subseteq Transactions
  /\ txs \in 0 .. MaxTxs
  /\ faults \in 0 .. MaxFaults
  /\ excused \subseteq Users

\* A refresh of u is on its way.
Pending(u) ==
  \/ \E p \in Updaters : u \in ToSet(job[p].todo)
  \/ \E m \in ToSet(inbox) : u \in ToSet(m)

\* A balance that is shown wrong is about to be refreshed, or there is a known
\* cause since the last undisturbed reading of it: the user withdrew, a message
\* or a process was lost, an RPC failed, or two processes refreshed the same
\* user at once.  Money that moves does not leave a stale balance otherwise.
StaleIsExplained ==
  \A u \in Users : cache[u] # coins[u] => Pending(u) \/ u \in excused

\* When money has come to rest the balance shown is right, for good, except
\* where such a cause was the last thing to happen.
EventuallyShown ==
  \A u \in Users : <>[](cache[u] = coins[u] \/ u \in excused)
=============================================================================
