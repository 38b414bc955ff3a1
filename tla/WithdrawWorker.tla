---------------------------- MODULE WithdrawWorker ----------------------------
(***************************************************************************)
(* Requests to withdraw, from SQS to an answer                             *)
(* (lib/process_withdraw_balance_worker.rb).                               *)
(*                                                                         *)
(* Unlike the tips worker this one deletes a message when all is done: a   *)
(* request is never lost, but one that dies half-way comes back and is     *)
(* carried out again on whatever money there is by then.  The withdrawal   *)
(* itself, which empties the address of the user, is module Wallet; here   *)
(* it is sent, refused, or sent with the answer lost.                      *)
(***************************************************************************)
EXTENDS Integers, Sequences, FiniteSets

CONSTANTS
  Users,          \* users with a record in TipperUsers
  Strangers,      \* Twitter ids in requests that no record has
  WithEndpoint,   \* users whose record has the attribute EndpointArn
  MaxRequests,    \* bound: requests sent
  MaxMoney,       \* bound: money at one address
  MaxArrivals,    \* bound: payments that arrive
  MaxFaults       \* bound: crashes and lost answers

ASSUME UsersAssumption ==
  WithEndpoint \subseteq Users /\ Users \intersect Strangers = {}

ASSUME WithdrawBoundsAssumption ==
  {MaxRequests, MaxMoney, MaxArrivals, MaxFaults} \subseteq Nat

VARIABLES
  asked,      \* asked[r]: who sent request number r
  queue,      \* the requests in SQS that are not deleted
  worker,     \* the request the worker is processing, and where it is
  money,      \* money[u]: what is at the address of u, after the fee
  withdrawn,  \* the withdrawals bitcoind broadcast; a txid is an index
  records,    \* the txids that TipperWithdrawTransaction has an item for
  told,       \* requests whose sender has a withdrawal_event notification
  refused,    \* requests that were answered by the failure branch
  alerted,    \* those of them whose sender was sent the failure push
  arrivals,   \* payments that arrived so far
  faults      \* faults[r]: crashes and lost answers while r was processed

vars == <<asked, queue, worker, money, withdrawn, records, told, refused,
          alerted, arrivals, faults>>

Requests == 1 .. MaxRequests

Idle == [pc |-> "idle"]

\* "find" before the user is looked up, "withdraw" before B.withdraw, "record"
\* and "tell" when it returned a txid, "fail" when it returned nil, "delete"
\* before the message is deleted.
Steps == {"find", "withdraw", "record", "tell", "fail", "delete"}

Working == [pc : Steps, req : Requests, tx : Nat]

At(pc) == worker # Idle /\ worker.pc = pc
GoTo(pc) == worker' = [worker EXCEPT !.pc = pc]

\* One more fault while request r is processed.
Fault(r) ==
  /\ faults[r] < MaxFaults
  /\ faults' = [faults EXCEPT ![r] = @ + 1]

-----------------------------------------------------------------------------
(* The world around the worker (external).                                 *)

\* The app sends a request for the user it is signed in as, or an old one for a
\* user who has no record (any more).
Ask(u) ==
  /\ Len(asked) < MaxRequests
  /\ asked' = Append(asked, u)
  /\ queue' = queue \union {Len(asked) + 1}
  /\ UNCHANGED <<worker, money, withdrawn, records, told, refused, alerted,
                 arrivals, faults>>

\* Somebody tips or funds u.
Arrive(u) ==
  /\ arrivals < MaxArrivals
  /\ money[u] < MaxMoney
  /\ arrivals' = arrivals + 1
  /\ money' = [money EXCEPT ![u] = @ + 1]
  /\ UNCHANGED <<asked, queue, worker, withdrawn, records, told, refused, alerted, faults>>

-----------------------------------------------------------------------------
(* The worker.                                                             *)

\* Mutant of Receive: the request is deleted right away.
ReceiveDeletes(r) ==
  /\ worker = Idle
  /\ r \in queue
  /\ worker' = [pc |-> "find", req |-> r, tx |-> 0]
  /\ queue' = queue \ {r}
  /\ UNCHANGED <<asked, money, withdrawn, records, told, refused, alerted,
                 arrivals, faults>>

\* The timer fires and SQS delivers a request, which stays in the queue.
Receive(r) ==
  /\ worker = Idle
  /\ r \in queue
  /\ worker' = [pc |-> "find", req |-> r, tx |-> 0]
  /\ UNCHANGED <<asked, queue, money, withdrawn, records, told, refused, alerted,
                 arrivals, faults>>

\* User.find_by_twitter_id finds the sender.
FindUser ==
  /\ At("find")
  /\ asked[worker.req] \in Users
  /\ GoTo("withdraw")
  /\ UNCHANGED <<asked, queue, money, withdrawn, records, told, refused, alerted,
                 arrivals, faults>>

\* It finds nobody: nil["BitcoinAddress"] raises, the process ends, and the
\* request is delivered again later.
FindNobody ==
  /\ At("find")
  /\ asked[worker.req] \notin Users
  /\ worker' = Idle
  /\ UNCHANGED <<asked, queue, money, withdrawn, records, told, refused, alerted,
                 arrivals, faults>>

\* B.withdraw broadcasts a transaction that empties the address.
Empty ==
  LET u == asked[worker.req] IN
  /\ money[u] > 0
  /\ withdrawn' = Append(withdrawn, [req |-> worker.req, amount |-> money[u]])
  /\ money' = [money EXCEPT ![u] = 0]

\* Mutant of WithdrawSent: the record is skipped.
WithdrawSentUnrecorded ==
  /\ At("withdraw")
  /\ Empty
  /\ worker' = [worker EXCEPT !.pc = "tell", !.tx = Len(withdrawn) + 1]
  /\ UNCHANGED <<asked, queue, records, told, refused, alerted, arrivals, faults>>

\* ... and returns its txid.
WithdrawSent ==
  /\ At("withdraw")
  /\ Empty
  /\ worker' = [worker EXCEPT !.pc = "record", !.tx = Len(withdrawn) + 1]
  /\ UNCHANGED <<asked, queue, records, told, refused, alerted, arrivals, faults>>

\* ... but the RPC raises before its answer is read: withdraw returns nil.
WithdrawLost ==
  /\ At("withdraw")
  /\ Empty
  /\ Fault(worker.req)
  /\ GoTo("fail")
  /\ UNCHANGED <<asked, queue, records, told, refused, alerted, arrivals>>

\* Mutant of WithdrawNil: the request is left for the next delivery.
WithdrawNilSilent ==
  /\ At("withdraw")
  /\ worker' = Idle
  /\ UNCHANGED <<asked, queue, money, withdrawn, records, told, refused, alerted,
                 arrivals, faults>>

\* B.withdraw returns nil: no money, the own address, or the node refuses.
WithdrawNil ==
  /\ At("withdraw")
  /\ GoTo("fail")
  /\ UNCHANGED <<asked, queue, money, withdrawn, records, told, refused, alerted,
                 arrivals, faults>>

\* Mutant of Record: the number of the next transaction.
RecordOffByOne ==
  /\ At("record")
  /\ records' = records \union {worker.tx + 1}
  /\ GoTo("tell")
  /\ UNCHANGED <<asked, queue, money, withdrawn, told, refused, alerted, arrivals, faults>>

\* Withdraw.create.
Record ==
  /\ At("record")
  /\ records' = records \union {worker.tx}
  /\ GoTo("tell")
  /\ UNCHANGED <<asked, queue, money, withdrawn, told, refused, alerted, arrivals, faults>>

\* NotifyUser.notify_withdrawal.
Tell ==
  /\ At("tell")
  /\ told' = told \union {worker.req}
  /\ GoTo("delete")
  /\ UNCHANGED <<asked, queue, money, withdrawn, records, refused, alerted, arrivals, faults>>

\* notify_sender_fail: a push for users with an EndpointArn, else nothing.
Fail ==
  /\ At("fail")
  /\ refused' = refused \union {worker.req}
  /\ alerted' = IF asked[worker.req] \in WithEndpoint
                THEN alerted \union {worker.req} ELSE alerted
  /\ GoTo("delete")
  /\ UNCHANGED <<asked, queue, money, withdrawn, records, told, arrivals, faults>>

\* Mutant of Delete: the request stays in the queue.
DeleteNothing ==
  /\ At("delete")
  /\ worker' = Idle
  /\ UNCHANGED <<asked, queue, money, withdrawn, records, told, refused, alerted,
                 arrivals, faults>>

\* The request is deleted last.
Delete ==
  /\ At("delete")
  /\ queue' = queue \ {worker.req}
  /\ worker' = Idle
  /\ UNCHANGED <<asked, money, withdrawn, records, told, refused, alerted,
                 arrivals, faults>>

\* An exception that nobody rescues, or the end of the process; eye restarts it.
Crash ==
  /\ worker # Idle
  /\ Fault(worker.req)
  /\ worker' = Idle
  /\ UNCHANGED <<asked, queue, money, withdrawn, records, told, refused, alerted,
                 arrivals>>

-----------------------------------------------------------------------------
Init ==
  /\ asked = <<>> /\ queue = {} /\ worker = Idle
  /\ money = [u \in Users |-> 0]
  /\ withdrawn = <<>> /\ records = {}
  /\ told = {} /\ refused = {} /\ alerted = {}
  /\ arrivals = 0
  /\ faults = [r \in Requests |-> 0]

\* What the worker does with a request it has received.
WorkerStep ==
  \/ FindUser \/ FindNobody
  \/ WithdrawSent \/ WithdrawNil
  \/ Record \/ Tell \/ Fail \/ Delete

Next ==
  \/ \E u \in Users \union Strangers : Ask(u)
  \/ \E u \in Users : Arrive(u)
  \/ \E r \in Requests : Receive(r)
  \/ WorkerStep
  \/ WithdrawLost
  \/ Crash

\* The worker never stops for long, and SQS delivers every message at last,
\* even when others come back again and again.
Fairness ==
  /\ WF_vars(WorkerStep)
  /\ \A r \in Requests : SF_vars(Receive(r))

Spec == Init /\ [][Next]_vars

FairSpec == Spec /\ Fairness

-----------------------------------------------------------------------------
(* Properties.                                                             *)

TypeOK ==
  /\ asked \in Seq(Users \union Strangers) /\ Len(asked) <= MaxRequests
  /\ queue \subseteq DOMAIN asked
  /\ worker \in {Idle} \union Working
  /\ worker # Idle => worker.req \in DOMAIN asked
  /\ money \in [Users -> Nat]
  /\ withdrawn \in Seq([req : Requests, amount : Nat])
  /\ records \subseteq DOMAIN withdrawn
  /\ told \subseteq DOMAIN asked
  /\ refused \subseteq DOMAIN asked
  /\ alerted \subseteq refused
  /\ arrivals \in Nat
  /\ faults \in [Requests -> Nat]

\* The withdrawals made for request r.
Withdrawals(r) == {n \in DOMAIN withdrawn : withdrawn[n].req = r}

Completed(r) == r \in told /\ Withdrawals(r) \intersect records # {}

\* No request disappears: until it is answered - recorded and announced, or run
\* through the failure branch - it is in the queue, wherever the worker dies.
NoRequestLost ==
  \A r \in DOMAIN asked : r \in queue \/ Completed(r) \/ r \in refused

\* A request moves money once, plus at most once more for every time the worker
\* failed while it had it: without a failure nothing is withdrawn twice.
RepeatedOnlyAfterFaults ==
  \A r \in DOMAIN asked : Cardinality(Withdrawals(r)) <= 1 + faults[r]

\* Every withdrawal that has no record is that of the worker at this moment, or
\* one that a fault interrupted.
UnrecordedOnlyByFaults ==
  \A r \in DOMAIN asked :
    LET current == IF At("record") /\ worker.req = r THEN 1 ELSE 0 IN
    Cardinality(Withdrawals(r) \ records) <= faults[r] + current

\* The request of a known user is answered, although one that names nobody
\* crashes the worker each time it is delivered and is never deleted.
KnownAnswered ==
  \A r \in Requests :
    (r \in DOMAIN asked /\ asked[r] \in Users) ~> (Completed(r) \/ r \in refused)

\* The push "Your withdraw request of ...BTC failed. Try again?": nothing was
\* withdrawn for this request.
FailedMeansNotSent == \A r \in alerted : Withdrawals(r) = {}
=============================================================================
