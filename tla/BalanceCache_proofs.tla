------------------------- MODULE BalanceCache_proofs --------------------------
(***************************************************************************)
(* Proofs about BalanceCache, for any users, web processes, money,         *)
(* transactions and faults: the types, and that a wrong balance is         *)
(* about to be refreshed or has one of the known causes.                   *)
(***************************************************************************)
EXTENDS BalanceCache, SequenceTheorems, TLAPS

-----------------------------------------------------------------------------
(* Sequences of users.                                                     *)

\* The elements of a sequence are those of its type.
LEMMA Elements ==
  ASSUME NEW T, NEW s \in Seq(T)
  PROVE  ToSet(s) \subseteq T
BY DEF ToSet

\* A nonempty sequence is its first element and the rest.
LEMMA HeadAndTail ==
  ASSUME NEW T, NEW s \in Seq(T), s # <<>>
  PROVE  /\ Head(s) \in T /\ Tail(s) \in Seq(T)
         /\ ToSet(s) = {Head(s)} \union ToSet(Tail(s))
<1>1. Head(s) \in T /\ Tail(s) \in Seq(T) /\ Len(s) \in Nat /\ Len(s) # 0
  OBVIOUS
<1>2. /\ Len(Tail(s)) = Len(s) - 1 /\ \A i \in 1 .. Len(Tail(s)) : Tail(s)[i] = s[i + 1]
      /\ Head(s) = s[1]
      /\ DOMAIN s = 1 .. Len(s) /\ DOMAIN Tail(s) = 1 .. Len(Tail(s))
  BY <1>1
<1>3. ASSUME NEW i \in 1 .. Len(s) PROVE s[i] \in {Head(s)} \union ToSet(Tail(s))
  <2>1. CASE i = 1
    BY <1>2, <2>1
  <2>2. CASE i # 1
    <3>1. i - 1 \in 1 .. Len(Tail(s)) /\ s[i] = Tail(s)[i - 1]
      BY <1>1, <1>2, <2>2
    <3>2. s[i] \in ToSet(Tail(s))
      BY <1>2, <3>1 DEF ToSet
    <3> QED
      BY <3>2
  <2> QED
    BY <2>1, <2>2
<1>4. ASSUME NEW i \in 1 .. Len(Tail(s)) PROVE Tail(s)[i] \in ToSet(s)
  <2>1. i + 1 \in 1 .. Len(s) /\ Tail(s)[i] = s[i + 1]
    BY <1>1, <1>2
  <2> QED
    BY <1>2, <2>1 DEF ToSet
<1>5. Head(s) \in ToSet(s)
  <2>1. 1 \in 1 .. Len(s) /\ Head(s) = s[1]
    BY <1>1, <1>2
  <2> QED
    BY <1>2, <2>1 DEF ToSet
<1>6. ToSet(s) \subseteq {Head(s)} \union ToSet(Tail(s))
  BY <1>2, <1>3 DEF ToSet
<1>7. ToSet(Tail(s)) \subseteq ToSet(s)
  BY <1>2, <1>4 DEF ToSet
<1> QED
  BY <1>1, <1>5, <1>6, <1>7

\* One more element at the end.
LEMMA AppendElements ==
  ASSUME NEW T, NEW s \in Seq(T), NEW x \in T
  PROVE  /\ Append(s, x) \in Seq(T)
         /\ ToSet(Append(s, x)) = ToSet(s) \union {x}
         /\ Append(s, x) # s
<1>1. /\ Append(s, x) \in Seq(T) /\ Len(Append(s, x)) = Len(s) + 1 /\ Len(s) \in Nat
      /\ \A i \in 1 .. Len(s) : Append(s, x)[i] = s[i]
      /\ Append(s, x)[Len(s) + 1] = x
  OBVIOUS
<1>2. DOMAIN Append(s, x) = 1 .. Len(s) + 1 /\ DOMAIN s = 1 .. Len(s)
  BY <1>1
<1>3. 1 .. Len(s) + 1 = (1 .. Len(s)) \union {Len(s) + 1}
  BY <1>1
<1>4. ToSet(Append(s, x)) = ToSet(s) \union {x}
  BY <1>1, <1>2, <1>3 DEF ToSet
<1>5. Append(s, x) # s
  BY <1>1
<1> QED
  BY <1>1, <1>4, <1>5

-----------------------------------------------------------------------------
(* Type correctness.                                                       *)

\* Nothing has happened at the start.
LEMMA InitTypeOK == Init => TypeOK
BY CacheBoundsAssumption DEF Init, TypeOK, Jobs, Nothing, Unread

\* The announcement of a transaction that pays some users.
LEMMA AnnounceTypes ==
  ASSUME TypeOK, NEW pays \in Seq(Users), Announce(pays)
  PROVE  /\ inbox' \in Seq(Seq(Users)) /\ faults' \in 0 .. MaxFaults
         /\ Unannounced(pays) \subseteq Users
<1>1. inbox' \in Seq(Seq(Users))
  <2>1. inbox \in Seq(Seq(Users))
    BY DEF TypeOK
  <2>2. Append(inbox, pays) \in Seq(Seq(Users))
    BY <2>1
  <2> QED
    BY <2>1, <2>2 DEF Announce
<1>2. faults' \in 0 .. MaxFaults
  BY CacheBoundsAssumption DEF Announce, Fault, TypeOK
<1>3. Unannounced(pays) \subseteq Users
  BY Elements DEF Unannounced
<1> QED
  BY <1>1, <1>2, <1>3

\* A transaction that is accepted.
LEMMA AcceptTypes ==
  ASSUME TypeOK, NEW pays \in Seq(Users), Accept(pays)
  PROVE  /\ inbox' \in Seq(Seq(Users)) /\ faults' \in 0 .. MaxFaults
         /\ Unannounced(pays) \subseteq Users
         /\ fresh' \subseteq Transactions /\ txs' \in 0 .. MaxTxs
<1>1. Announce(pays)
  BY DEF Accept
<1>2. txs \in Nat /\ txs' = txs + 1 /\ txs' \in 0 .. MaxTxs
  BY CacheBoundsAssumption DEF Accept, TypeOK
<1>3. [n |-> txs + 1, pays |-> pays] \in Transactions
  BY <1>2 DEF Transactions
<1>4. fresh' \subseteq Transactions
  BY <1>3 DEF Accept, TypeOK
<1> QED
  BY <1>1, <1>2, <1>4, AnnounceTypes

\* A process that gets a list of users to refresh.
LEMMA JobTypes ==
  ASSUME TypeOK, NEW p \in Updaters, job[p] = Nothing, NEW todo \in Seq(Users),
         job' = [job EXCEPT ![p].todo = todo]
  PROVE  /\ job' \in [Updaters -> Jobs]
         /\ \A q \in Updaters : job'[q].todo = <<>> => job'[q].read = Unread
         /\ job'[p] = [todo |-> todo, read |-> Unread]
         /\ \A q \in Updaters : q # p => job'[q] = job[q]
<1>1. job'[p] = [todo |-> todo, read |-> Unread]
  BY DEF TypeOK, Nothing
<1>2. job'[p] \in Jobs
  BY <1>1 DEF Jobs
<1>3. job' = [job EXCEPT ![p] = job'[p]]
  BY DEF TypeOK
<1>4. job' \in [Updaters -> Jobs] /\ \A q \in Updaters : q # p => job'[q] = job[q]
  BY <1>2, <1>3 DEF TypeOK
<1> QED
  BY <1>1, <1>4 DEF TypeOK

\* A process that has read a number.
LEMMA ReadingTypes ==
  ASSUME TypeOK, NEW p \in Updaters, job[p].todo # <<>>, job[p].read = Unread, NEW c \in Nat,
         job' = [job EXCEPT ![p].read = c]
  PROVE  /\ job' \in [Updaters -> Jobs]
         /\ \A q \in Updaters : job'[q].todo = <<>> => job'[q].read = Unread
         /\ job'[p] = [todo |-> job[p].todo, read |-> c]
         /\ \A q \in Updaters : q # p => job'[q] = job[q]
         /\ Head(job[p].todo) \in Users
<1>1. job[p] \in Jobs
  BY DEF TypeOK
<1>2. job'[p] = [todo |-> job[p].todo, read |-> c]
  BY <1>1 DEF TypeOK, Jobs
<1>3. job'[p] \in Jobs
  BY <1>1, <1>2 DEF Jobs
<1>4. job' = [job EXCEPT ![p] = job'[p]]
  BY DEF TypeOK
<1>5. job' \in [Updaters -> Jobs] /\ \A q \in Updaters : q # p => job'[q] = job[q]
  BY <1>3, <1>4 DEF TypeOK
<1>6. Head(job[p].todo) \in Users
  BY <1>1, HeadAndTail DEF Jobs
<1> QED
  BY <1>2, <1>5, <1>6 DEF TypeOK

\* A process that writes what it read.
LEMMA WriteTypes ==
  ASSUME TypeOK, NEW p \in Updaters, Write(p)
  PROVE  /\ job[p].todo \in Seq(Users) /\ job[p].todo # <<>>
         /\ Head(job[p].todo) \in Users /\ job[p].read \in Nat
         /\ cache' = [cache EXCEPT ![Head(job[p].todo)] = job[p].read]
         /\ cache' \in [Users -> Nat]
         /\ job'[p] = [todo |-> Tail(job[p].todo), read |-> Unread]
         /\ \A q \in Updaters : q # p => job'[q] = job[q]
         /\ job' \in [Updaters -> Jobs]
         /\ \A q \in Updaters : job'[q].todo = <<>> => job'[q].read = Unread
<1>1. job[p] \in Jobs /\ job[p].read # Unread
  BY DEF TypeOK, Write
<1>2. job[p].todo \in Seq(Users) /\ job[p].todo # <<>> /\ job[p].read \in Nat
  BY <1>1 DEF TypeOK, Jobs
<1>3. Head(job[p].todo) \in Users /\ Tail(job[p].todo) \in Seq(Users)
  BY <1>2, HeadAndTail
<1>4. cache' = [cache EXCEPT ![Head(job[p].todo)] = job[p].read]
  BY DEF Write
<1>5. cache' \in [Users -> Nat]
  BY <1>2, <1>3, <1>4 DEF TypeOK
<1>6. job' = [job EXCEPT ![p] = [todo |-> Tail(job[p].todo), read |-> Unread]]
  BY DEF Write
<1>7. [todo |-> Tail(job[p].todo), read |-> Unread] \in Jobs
  BY <1>3 DEF Jobs
<1>8. job' \in [Updaters -> Jobs] /\ \A q \in Updaters : q # p => job'[q] = job[q]
  BY <1>6, <1>7 DEF TypeOK
<1>9. job'[p] = [todo |-> Tail(job[p].todo), read |-> Unread]
  BY <1>6 DEF TypeOK
<1>10. job'[p].read = Unread
  BY <1>9
<1>11. \A q \in Updaters : job'[q].todo = <<>> => job'[q].read = Unread
  BY <1>8, <1>10 DEF TypeOK
<1> QED
  BY <1>2, <1>3, <1>4, <1>5, <1>8, <1>9, <1>11

\* A process that ends.
LEMMA CrashTypes ==
  ASSUME TypeOK, NEW p \in Updaters, Crash(p)
  PROVE  /\ job'[p] = Nothing /\ \A q \in Updaters : q # p => job'[q] = job[q]
         /\ job' \in [Updaters -> Jobs]
         /\ \A q \in Updaters : job'[q].todo = <<>> => job'[q].read = Unread
         /\ inbox' \in Seq(Seq(Users))
         /\ excused' \subseteq Users
<1>1. job' = [job EXCEPT ![p] = Nothing]
  BY DEF Crash
<1>2. Nothing \in Jobs /\ Nothing.read = Unread
  BY DEF Nothing, Jobs, Unread
<1>3. inbox' \in Seq(Seq(Users))
  BY DEF Crash, TypeOK
<1>4. ToSet(job[p].todo) \subseteq Users
  BY Elements DEF TypeOK, Jobs
<1>5. \A m \in ToSet(inbox) : ToSet(m) \subseteq Users
  <2>1. ToSet(inbox) \subseteq Seq(Users)
    BY Elements DEF TypeOK
  <2> QED
    BY <2>1, Elements
<1>6. excused' \subseteq Users
  BY <1>4, <1>5 DEF Crash, TypeOK
<1> QED
  BY <1>1, <1>2, <1>3, <1>6 DEF TypeOK

\* Every step keeps the types.
LEMMA NextTypeOK == TypeOK /\ [Next]_vars => TypeOK'
<1> SUFFICES ASSUME TypeOK, [Next]_vars PROVE TypeOK'
  OBVIOUS
<1> USE DEF node
<1>1. ASSUME NEW u \in Users, Deposit(u) PROVE TypeOK'
  <2>1. <<u>> \in Seq(Users) /\ Accept(<<u>>)
    BY <1>1 DEF Deposit
  <2>2. coins' \in [Users -> 0 .. MaxMoney]
    BY <1>1, CacheBoundsAssumption DEF Deposit, TypeOK
  <2> QED
    BY <1>1, <2>1, <2>2, AcceptTypes DEF Deposit, TypeOK
<1>2. ASSUME NEW u \in Users, Fund(u) PROVE TypeOK'
  <2>1. <<u>> \in Seq(Users) /\ Accept(<<u>>)
    BY <1>2 DEF Fund
  <2>2. coins' \in [Users -> 0 .. MaxMoney]
    BY <1>2, CacheBoundsAssumption DEF Fund, TypeOK
  <2>3. "fund" \in Updaters /\ job["fund"] = Nothing /\ job' = [job EXCEPT !["fund"].todo = <<u>>]
    BY <1>2 DEF Fund, Updaters
  <2> QED
    BY <1>2, <2>1, <2>2, <2>3, AcceptTypes, JobTypes DEF Fund, TypeOK
<1>3. ASSUME NEW u \in Users, Withdraw(u) PROVE TypeOK'
  <2>1. <<>> \in Seq(Users) /\ Accept(<<>>)
    BY <1>3 DEF Withdraw
  <2>2. coins' \in [Users -> 0 .. MaxMoney]
    BY <1>3, CacheBoundsAssumption DEF Withdraw, TypeOK
  <2> QED
    BY <1>3, <2>1, <2>2, AcceptTypes DEF Withdraw, TypeOK
<1>4. ASSUME NEW p \in WebProcesses, NEW u \in Users, Connect(p, u) PROVE TypeOK'
  <2>1. <<u>> \in Seq(Users)
    OBVIOUS
  <2>2. p \in Updaters /\ job[p] = Nothing /\ job' = [job EXCEPT ![p].todo = <<u>>]
    BY <1>4 DEF Connect, Updaters
  <2> QED
    BY <1>4, <2>1, <2>2, JobTypes DEF Connect, TypeOK
<1>5. ASSUME NEW from \in Users, NEW to \in Users, Pay(from, to)
      PROVE  /\ coins' \in [Users -> 0 .. MaxMoney]
             /\ inbox' \in Seq(Seq(Users)) /\ faults' \in 0 .. MaxFaults
             /\ fresh' \subseteq Transactions /\ txs' \in 0 .. MaxTxs
             /\ UNCHANGED cache /\ excused' \subseteq Users
  <2>1. <<from, to>> \in Seq(Users) /\ Accept(<<from, to>>)
    BY <1>5 DEF Pay
  <2>2. coins' \in [Users -> 0 .. MaxMoney]
    <3>1. coins \in [Users -> 0 .. MaxMoney] /\ MaxMoney \in Nat
      BY CacheBoundsAssumption DEF TypeOK
    <3>2. from # to /\ coins[from] > 0 /\ coins[to] < MaxMoney
      BY <1>5 DEF Pay
    <3>3. coins' = [[coins EXCEPT ![from] = coins[from] - 1] EXCEPT ![to] = coins[to] + 1]
      BY <1>5, <3>1, <3>2 DEF Pay
    <3>4. coins[from] - 1 \in 0 .. MaxMoney /\ coins[to] + 1 \in 0 .. MaxMoney
      BY <3>1, <3>2
    <3> QED
      BY <3>1, <3>3, <3>4
  <2>3. UNCHANGED cache /\ excused' = excused \union Unannounced(<<from, to>>)
    BY <1>5 DEF Pay
  <2> QED
    BY <2>1, <2>2, <2>3, AcceptTypes DEF TypeOK
<1>13. ASSUME NEW from \in Users, NEW to \in Users, Tip(from, to) PROVE TypeOK'
  <2>1. Pay(from, to) /\ <<from, to, from, to>> \in Seq(Users)
    BY <1>13 DEF Tip
  <2>2. /\ "tips" \in Updaters /\ job["tips"] = Nothing
        /\ job' = [job EXCEPT !["tips"].todo = <<from, to, from, to>>]
    BY <1>13 DEF Tip, Pay, Updaters
  <2> QED
    BY <1>5, <2>1, <2>2, JobTypes DEF TypeOK
<1>14. ASSUME NEW from \in Users, NEW to \in Users, TipLost(from, to) PROVE TypeOK'
  BY <1>5, <1>14 DEF TipLost, TypeOK
<1>6. ASSUME NEW tx \in fresh, Confirm(tx) PROVE TypeOK'
  <2>1. tx.pays \in Seq(Users) /\ Announce(tx.pays)
    BY <1>6 DEF Confirm, TypeOK, Transactions
  <2> QED
    BY <1>6, <2>1, AnnounceTypes DEF Confirm, TypeOK
<1>7. CASE Receive
  <2>1. Head(inbox) \in Seq(Users) /\ Tail(inbox) \in Seq(Seq(Users))
    BY <1>7, HeadAndTail DEF Receive, TypeOK
  <2>2. "wallet" \in Updaters /\ job["wallet"] = Nothing
        /\ job' = [job EXCEPT !["wallet"].todo = Head(inbox)]
    BY <1>7 DEF Receive, Updaters
  <2> QED
    BY <1>7, <2>1, <2>2, JobTypes DEF Receive, TypeOK
<1>8. ASSUME NEW p \in Updaters, Read(p) PROVE TypeOK'
  <2> DEFINE u == Head(job[p].todo)
  <2>1. u \in Users
    BY <1>8, HeadAndTail DEF Read, TypeOK, Jobs
  <2>2. coins[u] \in Nat
    BY <2>1, CacheBoundsAssumption DEF TypeOK
  <2>3. job[p].todo # <<>> /\ job[p].read = Unread /\ job' = [job EXCEPT ![p].read = coins[u]]
    BY <1>8 DEF Read
  <2>4. excused' \subseteq Users
    BY <1>8, <2>1 DEF Read, TypeOK
  <2> QED
    BY <1>8, <2>2, <2>3, <2>4, ReadingTypes DEF Read, TypeOK
<1>9. ASSUME NEW p \in Updaters, ReadFails(p) PROVE TypeOK'
  <2>1. job[p].todo # <<>> /\ job[p].read = Unread /\ job' = [job EXCEPT ![p].read = 0]
    BY <1>9 DEF ReadFails
  <2>2. faults' \in 0 .. MaxFaults
    BY <1>9, CacheBoundsAssumption DEF ReadFails, Fault, TypeOK
  <2> QED
    BY <1>9, <2>1, <2>2, ReadingTypes DEF ReadFails, TypeOK
<1>10. ASSUME NEW p \in Updaters, Write(p) PROVE TypeOK'
  BY <1>10, WriteTypes DEF Write, TypeOK
<1>11. ASSUME NEW p \in Updaters, Crash(p) PROVE TypeOK'
  <2>1. faults' \in 0 .. MaxFaults
    BY <1>11, CacheBoundsAssumption DEF Crash, Fault, TypeOK
  <2> QED
    BY <1>11, <2>1, CrashTypes DEF Crash, TypeOK
<1>12. CASE UNCHANGED vars
  BY <1>12 DEF vars, TypeOK
<1> QED
  BY <1>1, <1>2, <1>3, <1>4, <1>6, <1>7, <1>8, <1>9, <1>10, <1>11, <1>12,
     <1>13, <1>14 DEF Next

\* Every reachable state is well typed.
THEOREM TypeCorrect == Spec => []TypeOK
BY InitTypeOK, NextTypeOK, PTL DEF Spec

-----------------------------------------------------------------------------
(* Balances that are shown wrong.                                          *)

\* StaleIsExplained is not inductive: a write may replace a right balance by a
\* wrong one.  What a process has read and not written is therefore explained,
\* too, by what is to come after that write, and two processes that hold the
\* balance of one user make it excused.
Announced(u) == \E m \in ToSet(inbox) : u \in ToSet(m)

Due(p, u) ==
  \/ Announced(u)
  \/ \E q \in Updaters : q # p /\ u \in ToSet(job[q].todo)
  \/ u \in ToSet(Tail(job[p].todo))

CopiesExplained ==
  \A p \in Updaters : \A u \in Users :
    Holds(p, u) /\ job[p].read # coins[u] => Due(p, u) \/ u \in excused

OverlapsExcused ==
  \A p, q \in Updaters : \A u \in Users :
    p # q /\ Holds(p, u) /\ Holds(q, u) => u \in excused

StaleInv == CopiesExplained /\ OverlapsExcused /\ StaleIsExplained

\* Nobody holds anything at the start, and every balance is zero.
LEMMA InitStaleInv == Init => StaleInv
BY DEF Init, StaleInv, CopiesExplained, OverlapsExcused, StaleIsExplained, Holds, Nothing

\* A refresh of u that begins with a reading still to come.
Waiting(u) ==
  \/ Announced(u)
  \/ \E q \in Updaters : job[q].read = Unread /\ u \in ToSet(job[q].todo)

\* Money moves, is announced, or somebody gets to know of it.
LEMMA MoneyStep ==
  ASSUME StaleInv, UNCHANGED cache, excused \subseteq excused',
         \A p \in Updaters : job'[p] = job[p] \/ (job[p] = Nothing /\ job'[p].read = Unread),
         \A u \in Users : Announced(u) => Waiting(u)',
         \A u \in Users : coins'[u] # coins[u] => Waiting(u)' \/ u \in excused'
  PROVE  StaleInv'
<1>1. ASSUME NEW p \in Updaters, NEW u \in Users, Holds(p, u)'
      PROVE  job'[p] = job[p] /\ Holds(p, u)
  BY <1>1 DEF Holds
<1>2. ASSUME NEW q \in Updaters, NEW u \in Users, u \in ToSet(job[q].todo)
      PROVE  job'[q] = job[q]
  <2>1. ToSet(Nothing.todo) = {}
    BY DEF Nothing, ToSet
  <2> QED
    BY <1>2, <2>1
<1>3. ASSUME NEW p \in Updaters, NEW u \in Users, job'[p].read # Unread, Waiting(u)'
      PROVE  Due(p, u)'
  BY <1>3 DEF Due, Waiting
<1>4. CopiesExplained'
  <2> SUFFICES ASSUME NEW p \in Updaters, NEW u \in Users, Holds(p, u)',
                      job'[p].read # coins'[u]
               PROVE  Due(p, u)' \/ u \in excused'
    BY DEF CopiesExplained
  <2>1. job'[p] = job[p] /\ Holds(p, u) /\ job'[p].read # Unread
    BY <1>1 DEF Holds
  <2>2. CASE coins'[u] # coins[u]
    BY <1>3, <2>1, <2>2
  <2>3. CASE coins'[u] = coins[u]
    <3>1. Due(p, u) \/ u \in excused
      BY <2>1, <2>3 DEF StaleInv, CopiesExplained
    <3>2. CASE Announced(u)
      BY <1>3, <2>1, <3>2
    <3>3. ASSUME NEW q \in Updaters, q # p, u \in ToSet(job[q].todo) PROVE Due(p, u)'
      BY <1>2, <3>3 DEF Due
    <3>4. CASE u \in ToSet(Tail(job[p].todo))
      BY <2>1, <3>4 DEF Due
    <3> QED
      BY <3>1, <3>2, <3>3, <3>4 DEF Due
  <2> QED
    BY <2>2, <2>3
<1>5. OverlapsExcused'
  BY <1>1 DEF OverlapsExcused, StaleInv
<1>6. StaleIsExplained'
  <2> SUFFICES ASSUME NEW u \in Users, cache[u] # coins'[u]
               PROVE  Pending(u)' \/ u \in excused'
    BY DEF StaleIsExplained
  <2>1. Waiting(u)' => Pending(u)'
    BY DEF Waiting, Announced, Pending
  <2>2. CASE coins'[u] # coins[u]
    BY <2>1, <2>2
  <2>3. CASE coins'[u] = coins[u]
    <3>1. Pending(u) \/ u \in excused
      BY <2>3 DEF StaleInv, StaleIsExplained
    <3>2. ASSUME NEW q \in Updaters, u \in ToSet(job[q].todo) PROVE Pending(u)'
      BY <1>2, <3>2 DEF Pending
    <3> QED
      BY <2>1, <3>1, <3>2 DEF Pending, Announced
  <2> QED
    BY <2>2, <2>3
<1> QED
  BY <1>4, <1>5, <1>6 DEF StaleInv

\* A process reads a balance: it is right and nobody else holds it, or excused.
LEMMA ReadStep ==
  ASSUME TypeOK, StaleInv, NEW p \in Updaters, job[p].todo # <<>>, NEW c \in Nat,
         job'[p] = [todo |-> job[p].todo, read |-> c],
         \A q \in Updaters : q # p => job'[q] = job[q],
         UNCHANGED <<coins, cache, inbox>>,
         excused \ {Head(job[p].todo)} \subseteq excused',
         \/ Head(job[p].todo) \in excused'
         \/ c = coins[Head(job[p].todo)] /\ \A q \in Updaters : ~ Holds(q, Head(job[p].todo))
  PROVE  StaleInv'
<1> DEFINE h == Head(job[p].todo)
<1>1. \A q \in Updaters : job'[q].todo = job[q].todo
  OBVIOUS
<1>2. \A u \in Users : Pending(u)' <=> Pending(u)
  BY <1>1 DEF Pending
<1>3. \A q \in Updaters, u \in Users : Due(q, u)' <=> Due(q, u)
  BY <1>1 DEF Due, Announced
<1>4. ASSUME NEW q \in Updaters, NEW u \in Users, Holds(q, u)', u # h \/ q # p
      PROVE  Holds(q, u) /\ job'[q] = job[q]
  BY <1>4 DEF Holds
<1>5. h \in ToSet(job[p].todo)
  <2>1. job[p].todo \in Seq(Users)
    BY DEF TypeOK, Jobs
  <2> QED
    BY <2>1, HeadAndTail
<1>6. CopiesExplained'
  <2> SUFFICES ASSUME NEW q \in Updaters, NEW u \in Users, Holds(q, u)', job'[q].read # coins[u]
               PROVE  Due(q, u)' \/ u \in excused'
    BY DEF CopiesExplained
  <2>1. CASE u # h
    BY <1>3, <1>4, <2>1 DEF StaleInv, CopiesExplained
  <2>2. CASE u = h /\ u \notin excused'
    <3>1. c = coins[u] /\ ~ Holds(q, u)
      BY <2>2
    <3>2. q = p
      BY <1>4, <3>1
    <3> QED
      BY <3>1, <3>2
  <2> QED
    BY <2>1, <2>2
<1>7. OverlapsExcused'
  <2> SUFFICES ASSUME NEW q \in Updaters, NEW r \in Updaters, NEW u \in Users,
                      q # r, Holds(q, u)', Holds(r, u)'
               PROVE  u \in excused'
    BY DEF OverlapsExcused
  <2>1. CASE u # h
    BY <1>4, <2>1 DEF StaleInv, OverlapsExcused
  <2>2. CASE u = h
    BY <1>4, <2>2
  <2> QED
    BY <2>1, <2>2
<1>8. StaleIsExplained'
  <2> SUFFICES ASSUME NEW u \in Users, cache[u] # coins[u]
               PROVE  Pending(u)' \/ u \in excused'
    BY DEF StaleIsExplained
  <2>1. CASE u = h
    BY <1>2, <1>5, <2>1 DEF Pending
  <2>2. CASE u # h
    BY <1>2, <2>2 DEF StaleInv, StaleIsExplained
  <2> QED
    BY <2>1, <2>2
<1> QED
  BY <1>6, <1>7, <1>8 DEF StaleInv

\* A process writes what it holds and turns to the next user.
LEMMA WriteStep ==
  ASSUME TypeOK, StaleInv, NEW p \in Updaters, Write(p)
  PROVE  StaleInv'
<1> DEFINE h == Head(job[p].todo)
<1>1. /\ h \in Users /\ cache' = [cache EXCEPT ![h] = job[p].read]
      /\ job'[p].todo = Tail(job[p].todo) /\ job'[p].read = Unread
      /\ \A q \in Updaters : q # p => job'[q] = job[q]
      /\ UNCHANGED <<coins, inbox, excused>>
  BY WriteTypes DEF Write, node
<1>2. ToSet(job[p].todo) = {h} \union ToSet(Tail(job[p].todo))
  BY WriteTypes, HeadAndTail
<1>3. Holds(p, h)
  BY DEF Holds, Write
<1>4. ASSUME NEW q \in Updaters, NEW u \in Users, Holds(q, u)'
      PROVE  q # p /\ Holds(q, u) /\ job'[q] = job[q]
  BY <1>1, <1>4 DEF Holds
<1>5. CopiesExplained'
  <2> SUFFICES ASSUME NEW q \in Updaters, NEW u \in Users, Holds(q, u)', job'[q].read # coins[u]
               PROVE  Due(q, u)' \/ u \in excused
    BY <1>1 DEF CopiesExplained
  <2>1. q # p /\ Holds(q, u) /\ job'[q] = job[q]
    BY <1>4
  <2>2. CASE u = h
    BY <1>3, <2>1, <2>2 DEF StaleInv, OverlapsExcused
  <2>3. CASE u # h
    <3>1. Due(q, u) \/ u \in excused
      BY <2>1 DEF StaleInv, CopiesExplained
    <3>2. \A r \in Updaters : u \in ToSet(job[r].todo) => u \in ToSet(job'[r].todo)
      BY <1>1, <1>2, <2>3
    <3> QED
      BY <1>1, <2>1, <3>1, <3>2 DEF Due, Announced
  <2> QED
    BY <2>2, <2>3
<1>6. OverlapsExcused'
  BY <1>1, <1>4 DEF StaleInv, OverlapsExcused
<1>7. StaleIsExplained'
  <2> SUFFICES ASSUME NEW u \in Users, cache'[u] # coins[u]
               PROVE  Pending(u)' \/ u \in excused
    BY <1>1 DEF StaleIsExplained
  <2>1. CASE u = h
    <3>1. job[p].read # coins[u]
      BY <1>1, <2>1 DEF TypeOK
    <3>2. Due(p, u) \/ u \in excused
      BY <1>3, <2>1, <3>1 DEF StaleInv, CopiesExplained
    <3> QED
      BY <1>1, <3>2 DEF Due, Announced, Pending
  <2>2. CASE u # h
    <3>1. Pending(u) \/ u \in excused
      BY <1>1, <2>2 DEF StaleInv, StaleIsExplained, TypeOK
    <3>2. \A r \in Updaters : u \in ToSet(job[r].todo) => u \in ToSet(job'[r].todo)
      BY <1>1, <1>2, <2>2
    <3> QED
      BY <1>1, <3>1, <3>2 DEF Pending
  <2> QED
    BY <2>1, <2>2
<1> QED
  BY <1>5, <1>6, <1>7 DEF StaleInv

\* Whom a process, or a connection, that is lost was to refresh is excused.
LEMMA CrashStep ==
  ASSUME TypeOK, StaleInv, NEW p \in Updaters, Crash(p)
  PROVE  StaleInv'
<1>1. /\ job'[p] = Nothing /\ \A q \in Updaters : q # p => job'[q] = job[q]
      /\ UNCHANGED <<coins, cache>>
      /\ excused \subseteq excused' /\ ToSet(job[p].todo) \subseteq excused'
  BY CrashTypes DEF Crash
<1>2. ASSUME NEW u \in Users, Announced(u) PROVE Announced(u)' \/ u \in excused'
  <2>1. CASE p = "wallet"
    BY <1>2, <2>1 DEF Crash, Announced
  <2>2. CASE p # "wallet"
    BY <1>2, <2>2 DEF Crash, Announced
  <2> QED
    BY <2>1, <2>2
<1>3. ASSUME NEW q \in Updaters, NEW u \in Users, Holds(q, u)'
      PROVE  q # p /\ Holds(q, u) /\ job'[q] = job[q]
  BY <1>1, <1>3 DEF Holds, Nothing
<1>4. ASSUME NEW q \in Updaters, NEW u \in Users, u \in ToSet(job[q].todo)
      PROVE  u \in ToSet(job'[q].todo) \/ u \in excused'
  BY <1>1, <1>4
<1>5. CopiesExplained'
  <2> SUFFICES ASSUME NEW q \in Updaters, NEW u \in Users, Holds(q, u)', job'[q].read # coins[u]
               PROVE  Due(q, u)' \/ u \in excused'
    BY <1>1 DEF CopiesExplained
  <2>1. q # p /\ Holds(q, u) /\ job'[q] = job[q]
    BY <1>3
  <2>2. Due(q, u) \/ u \in excused
    BY <2>1 DEF StaleInv, CopiesExplained
  <2> QED
    BY <1>1, <1>2, <1>4, <2>1, <2>2 DEF Due
<1>6. OverlapsExcused'
  BY <1>1, <1>3 DEF StaleInv, OverlapsExcused
<1>7. StaleIsExplained'
  <2> SUFFICES ASSUME NEW u \in Users, cache[u] # coins[u]
               PROVE  Pending(u)' \/ u \in excused'
    BY <1>1 DEF StaleIsExplained
  <2>1. Pending(u) \/ u \in excused
    BY DEF StaleInv, StaleIsExplained
  <2>2. Announced(u) => Pending(u)' \/ u \in excused'
    BY <1>2 DEF Announced, Pending
  <2> QED
    BY <1>1, <1>4, <2>1, <2>2 DEF Pending, Announced
<1> QED
  BY <1>5, <1>6, <1>7 DEF StaleInv

\* A process that gets a list was idle, and the others stay as they are.
LEMMA JobBegins ==
  ASSUME TypeOK, NEW p \in Updaters, job[p] = Nothing, NEW todo \in Seq(Users),
         job' = [job EXCEPT ![p].todo = todo]
  PROVE  \A q \in Updaters : job'[q] = job[q] \/ (job[q] = Nothing /\ job'[q].read = Unread)
<1>1. job'[p] = [todo |-> todo, read |-> Unread] /\ \A q \in Updaters : q # p => job'[q] = job[q]
  BY JobTypes
<1>2. job'[p].read = Unread
  BY <1>1
<1> QED
  BY <1>1, <1>2

\* A payment is announced to whom it pays, or they are excused; what was
\* announced before is still there.
LEMMA AnnounceTells ==
  ASSUME TypeOK, NEW pays \in Seq(Users), Announce(pays)
  PROVE  /\ \A u \in Users : Announced(u) => Announced(u)'
         /\ \A u \in ToSet(pays) : Announced(u)' \/ u \in Unannounced(pays)
<1>1. inbox \in Seq(Seq(Users))
  BY DEF TypeOK
<1>2. CASE inbox' = Append(inbox, pays)
  <2>1. ToSet(inbox') = ToSet(inbox) \union {pays}
    BY <1>1, <1>2, AppendElements
  <2> QED
    BY <2>1 DEF Announced
<1>3. CASE inbox' = inbox
  BY <1>3 DEF Announced, Unannounced
<1> QED
  BY <1>2, <1>3 DEF Announce

\* Every step keeps the invariant.
LEMMA NextStaleInv == TypeOK /\ StaleInv /\ [Next]_vars => StaleInv'
<1> SUFFICES ASSUME TypeOK, StaleInv, [Next]_vars PROVE StaleInv'
  OBVIOUS
<1>0. \A u : Announced(u)' => Waiting(u)'
  BY DEF Waiting
<1>1. ASSUME NEW u \in Users, Deposit(u) PROVE StaleInv'
  <2>1. <<u>> \in Seq(Users) /\ Announce(<<u>>) /\ ToSet(<<u>>) = {u}
    BY <1>1 DEF Deposit, Accept, ToSet
  <2>2. \A v \in Users : coins'[v] # coins[v] => v = u
    BY <1>1 DEF Deposit, TypeOK
  <2>3. UNCHANGED <<cache, job>> /\ excused' = excused \union Unannounced(<<u>>)
    BY <1>1 DEF Deposit
  <2> QED
    BY <1>0, <2>1, <2>2, <2>3, AnnounceTells, MoneyStep
<1>2. ASSUME NEW u \in Users, Fund(u) PROVE StaleInv'
  <2>1. <<u>> \in Seq(Users) /\ Announce(<<u>>) /\ ToSet(<<u>>) = {u}
    BY <1>2 DEF Fund, Accept, ToSet
  <2>2. \A v \in Users : coins'[v] # coins[v] => v = u
    BY <1>2 DEF Fund, TypeOK
  <2>3. UNCHANGED cache /\ excused' = excused \union Unannounced(<<u>>)
    BY <1>2 DEF Fund
  <2>4. "fund" \in Updaters /\ job["fund"] = Nothing /\ job' = [job EXCEPT !["fund"].todo = <<u>>]
    BY <1>2 DEF Fund, Updaters
  <2>5. \A p \in Updaters : job'[p] = job[p] \/ (job[p] = Nothing /\ job'[p].read = Unread)
    BY <2>1, <2>4, JobBegins
  <2> QED
    BY <1>0, <2>1, <2>2, <2>3, <2>5, AnnounceTells, MoneyStep
<1>3. ASSUME NEW u \in Users, Withdraw(u) PROVE StaleInv'
  <2>1. <<>> \in Seq(Users) /\ Announce(<<>>)
    BY <1>3 DEF Withdraw, Accept
  <2>2. \A v \in Users : coins'[v] # coins[v] => v = u
    BY <1>3 DEF Withdraw, TypeOK
  <2>3. UNCHANGED <<cache, job>> /\ excused' = excused \union {u}
    BY <1>3 DEF Withdraw
  <2> QED
    BY <1>0, <2>1, <2>2, <2>3, AnnounceTells, MoneyStep
<1>4. ASSUME NEW p \in WebProcesses, NEW u \in Users, Connect(p, u) PROVE StaleInv'
  <2>1. <<u>> \in Seq(Users)
    OBVIOUS
  <2>2. p \in Updaters /\ job[p] = Nothing /\ job' = [job EXCEPT ![p].todo = <<u>>]
    BY <1>4 DEF Connect, Updaters
  <2>3. \A q \in Updaters : job'[q] = job[q] \/ (job[q] = Nothing /\ job'[q].read = Unread)
    BY <2>1, <2>2, JobBegins
  <2>4. UNCHANGED <<coins, inbox, cache, excused>>
    BY <1>4 DEF Connect, node
  <2>5. \A v \in Users : Announced(v) => Announced(v)'
    BY <2>4 DEF Announced
  <2> QED
    BY <1>0, <2>3, <2>4, <2>5, MoneyStep
<1>5. ASSUME NEW from \in Users, NEW to \in Users, Pay(from, to)
      PROVE  /\ UNCHANGED cache /\ excused \subseteq excused'
             /\ \A v \in Users : Announced(v) => Waiting(v)'
             /\ \A v \in Users : coins'[v] # coins[v] => Waiting(v)' \/ v \in excused'
  <2>1. <<from, to>> \in Seq(Users) /\ Announce(<<from, to>>)
    BY <1>5 DEF Pay, Accept
  <2>2. {from, to} \subseteq ToSet(<<from, to>>)
    BY DEF ToSet
  <2>3. \A v \in Users : coins'[v] # coins[v] => v \in {from, to}
    BY <1>5 DEF Pay, TypeOK
  <2>4. UNCHANGED cache /\ excused' = excused \union Unannounced(<<from, to>>)
    BY <1>5 DEF Pay
  <2>5. \A v \in Users : coins'[v] # coins[v] => Waiting(v)' \/ v \in excused'
    BY <1>0, <2>1, <2>2, <2>3, <2>4, AnnounceTells
  <2>6. \A v \in Users : Announced(v) => Waiting(v)'
    BY <1>0, <2>1, AnnounceTells
  <2> QED
    BY <2>4, <2>5, <2>6
<1>13. ASSUME NEW from \in Users, NEW to \in Users, Tip(from, to) PROVE StaleInv'
  <2>1. Pay(from, to) /\ <<from, to, from, to>> \in Seq(Users)
    BY <1>13 DEF Tip
  <2>2. /\ "tips" \in Updaters /\ job["tips"] = Nothing
        /\ job' = [job EXCEPT !["tips"].todo = <<from, to, from, to>>]
    BY <1>13 DEF Tip, Pay, Updaters
  <2>3. \A p \in Updaters : job'[p] = job[p] \/ (job[p] = Nothing /\ job'[p].read = Unread)
    BY <2>1, <2>2, JobBegins
  <2> QED
    BY <1>5, <2>1, <2>3, MoneyStep
<1>14. ASSUME NEW from \in Users, NEW to \in Users, TipLost(from, to) PROVE StaleInv'
  BY <1>5, <1>14, MoneyStep DEF TipLost
<1>6. ASSUME NEW tx \in fresh, Confirm(tx) PROVE StaleInv'
  <2>1. tx.pays \in Seq(Users) /\ Announce(tx.pays)
    BY <1>6 DEF Confirm, TypeOK, Transactions
  <2>2. UNCHANGED <<coins, cache, job>> /\ excused \subseteq excused'
    BY <1>6 DEF Confirm
  <2> QED
    BY <1>0, <2>1, <2>2, AnnounceTells, MoneyStep
<1>7. CASE Receive
  <2>1. inbox \in Seq(Seq(Users)) /\ inbox # <<>> /\ inbox' = Tail(inbox)
    BY <1>7 DEF Receive, TypeOK
  <2>2. Head(inbox) \in Seq(Users) /\ ToSet(inbox) = {Head(inbox)} \union ToSet(inbox')
    BY <2>1, HeadAndTail
  <2>3. "wallet" \in Updaters /\ job["wallet"] = Nothing
        /\ job' = [job EXCEPT !["wallet"].todo = Head(inbox)]
    BY <1>7 DEF Receive, Updaters
  <2>4. /\ job'["wallet"] = [todo |-> Head(inbox), read |-> Unread]
        /\ \A p \in Updaters : job'[p] = job[p] \/ (job[p] = Nothing /\ job'[p].read = Unread)
    BY <2>2, <2>3, JobTypes, JobBegins
  <2>5. \A u \in Users : Announced(u) => Waiting(u)'
    BY <2>2, <2>3, <2>4 DEF Announced, Waiting
  <2>6. UNCHANGED <<coins, cache, excused>>
    BY <1>7 DEF Receive
  <2> QED
    BY <2>4, <2>5, <2>6, MoneyStep
<1>8. ASSUME NEW p \in Updaters, Read(p) PROVE StaleInv'
  <2> DEFINE h == Head(job[p].todo)
  <2>1. job[p].todo # <<>> /\ job[p].read = Unread /\ job' = [job EXCEPT ![p].read = coins[h]]
        /\ UNCHANGED <<coins, cache, inbox>>
    BY <1>8 DEF Read, node
  <2>2. h \in Users
    BY <2>1, HeadAndTail DEF TypeOK, Jobs
  <2>3. coins[h] \in Nat
    BY <2>2, CacheBoundsAssumption DEF TypeOK
  <2>4. /\ job'[p] = [todo |-> job[p].todo, read |-> coins[h]]
        /\ \A q \in Updaters : q # p => job'[q] = job[q]
    BY <2>1, <2>3, ReadingTypes
  <2>5. /\ excused \ {h} \subseteq excused'
        /\ h \in excused' \/ \A q \in Updaters : ~ Holds(q, h)
    BY <1>8 DEF Read
  <2> QED
    BY <2>1, <2>3, <2>4, <2>5, ReadStep
<1>9. ASSUME NEW p \in Updaters, ReadFails(p) PROVE StaleInv'
  <2> DEFINE h == Head(job[p].todo)
  <2>1. job[p].todo # <<>> /\ job[p].read = Unread /\ job' = [job EXCEPT ![p].read = 0]
        /\ UNCHANGED <<coins, cache, inbox>> /\ excused' = excused \union {h}
    BY <1>9 DEF ReadFails, node
  <2>2. /\ job'[p] = [todo |-> job[p].todo, read |-> 0]
        /\ \A q \in Updaters : q # p => job'[q] = job[q]
    BY <2>1, ReadingTypes
  <2> QED
    BY <2>1, <2>2, ReadStep
<1>10. ASSUME NEW p \in Updaters, Write(p) PROVE StaleInv'
  BY <1>10, WriteStep
<1>11. ASSUME NEW p \in Updaters, Crash(p) PROVE StaleInv'
  BY <1>11, CrashStep
<1>12. CASE UNCHANGED vars
  <2>1. UNCHANGED <<coins, cache, job, inbox, excused>>
    BY <1>12 DEF vars, node
  <2>2. \A u \in Users : Announced(u) => Announced(u)'
    BY <2>1 DEF Announced
  <2> QED
    BY <1>0, <2>1, <2>2, MoneyStep
<1> QED
  BY <1>1, <1>2, <1>3, <1>4, <1>6, <1>7, <1>8, <1>9, <1>10, <1>11, <1>12,
     <1>13, <1>14 DEF Next

\* A balance that is shown wrong is about to be refreshed, or the user withdrew,
\* something was lost or failed, or two processes refreshed it at once.
THEOREM StaleExplained == Spec => []StaleIsExplained
<1>1. Spec => [](TypeOK /\ StaleInv)
  BY InitTypeOK, NextTypeOK, InitStaleInv, NextStaleInv, PTL DEF Spec
<1>2. StaleInv => StaleIsExplained
  BY DEF StaleInv
<1> QED
  BY <1>1, <1>2, PTL
=============================================================================
