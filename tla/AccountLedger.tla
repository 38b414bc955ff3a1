---------------------------- MODULE AccountLedger ----------------------------
(***************************************************************************)
(* What Tipper promises about money, with no coins, no RPC calls and no    *)
(* concurrency: every address has a balance, and an operation moves one    *)
(* fixed amount from one address to another and burns one fixed fee.       *)
(* Module Wallet implements this specification with unspent outputs, stale *)
(* reads and competing worker processes.                                   *)
(***************************************************************************)
EXTENDS Integers

CONSTANTS
  Addrs,         \* every address, the wallet's own and those outside it
  Users,         \* the addresses handed out to users (account "tipper_users")
  Reserves,      \* the address users are funded from
  TipAmount, FeeAmount, StandardFee, FundAmount

VARIABLE bal     \* bal[a]: what the unspent outputs of address a add up to

Move(from, to, amount, fee) ==
  /\ from # to
  /\ bal[from] >= amount + fee
  /\ bal' = [bal EXCEPT ![from] = @ - amount - fee, ![to] = @ + amount]

\* A favorite pays one tip from one user to another.
Tip(from, to) == Move(from, to, TipAmount, FeeAmount)

\* A charge pays one fixed amount from the reserves to a user.
Fund(to) == Move(Reserves, to, FundAmount, FeeAmount)

\* A withdrawal moves what the user had when it was computed; more may have
\* arrived since, and stays.  Its fee grows with the size of the transaction.
Withdraw(from, to) ==
  LET amount == bal'[to] - bal[to]
      fee    == bal[from] - bal'[from] - amount
  IN  /\ amount > 0
      /\ fee >= StandardFee /\ fee % StandardFee = 0
      /\ Move(from, to, amount, fee)

\* Money that comes from outside.
Deposit(to) ==
  /\ bal'[to] > bal[to]
  /\ bal' = [bal EXCEPT ![to] = bal'[to]]

Init == bal \in [Addrs -> Nat]

Next ==
  \/ \E from, to \in Users : Tip(from, to)
  \/ \E to \in Users : Fund(to)
  \/ \E from \in Users, to \in Addrs : Withdraw(from, to)
  \/ \E to \in Addrs : Deposit(to)

Spec == Init /\ [][Next]_bal
=============================================================================
