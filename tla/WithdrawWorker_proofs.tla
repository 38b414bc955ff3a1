------------------------ MODULE WithdrawWorker_proofs ------------------------
(***************************************************************************)
(* Proofs about WithdrawWorker, for any users, requests, money and faults: *)
(* the types, that no request is lost, and that faults bound how often one *)
(* is repeated and how many withdrawals go without a record.               *)
(***************************************************************************)
EXTENDS WithdrawWorker, FiniteSetTheorems, SequenceTheorems, TLAPS

-----------------------------------------------------------------------------
(* Type correctness.                                                       *)

\* TypeOK is not inductive: that a record names a withdrawal, and that money is
\* taken from an address there is, rests on what the worker has done before.
ProcessInv ==
  /\ \A n \in DOMAIN withdrawn : withdrawn[n].req \in DOMAIN asked
  /\ worker # Idle =>
       /\ worker.req \in queue
       /\ worker.pc \in {"withdraw", "record", "tell"} => asked[worker.req] \in Users
       /\ worker.pc \in {"record", "tell"} =>
            worker.tx \in DOMAIN withdrawn /\ withdrawn[worker.tx].req = worker.req
       /\ worker.pc = "record" => worker.tx \notin records
       /\ worker.pc = "tell" => worker.tx \in records
       /\ worker.pc = "delete" => Completed(worker.req) \/ worker.req \in refused

TypeInv == TypeOK /\ ProcessInv

\* What a busy worker holds, and what it holds after a change of place.
LEMMA BusyWorker ==
  ASSUME TypeOK, worker # Idle
  PROVE  /\ worker \in Working /\ worker.req \in DOMAIN asked /\ worker.req \in Requests
         /\ \A pc \in Steps : /\ [worker EXCEPT !.pc = pc] \in Working
                              /\ [worker EXCEPT !.pc = pc].pc = pc
                              /\ [worker EXCEPT !.pc = pc].req = worker.req
                              /\ [worker EXCEPT !.pc = pc].tx = worker.tx
                              /\ [worker EXCEPT !.pc = pc] # Idle
BY DEF TypeOK, Working, Idle, Steps

\* The chain with one more withdrawal.
LEMMA WithdrawnAppended ==
  ASSUME TypeInv, At("withdraw"), Empty, NEW req, req = worker.req
  PROVE  /\ withdrawn' \in Seq([req : Requests, amount : Nat])
         /\ money' \in [Users -> Nat]
         /\ Len(withdrawn) \in Nat
         /\ DOMAIN withdrawn = 1 .. Len(withdrawn)
         /\ DOMAIN withdrawn' = 1 .. Len(withdrawn) + 1
         /\ \A n \in DOMAIN withdrawn : withdrawn'[n] = withdrawn[n]
         /\ withdrawn'[Len(withdrawn) + 1].req = req
         /\ Len(withdrawn) + 1 \notin records
<1>1. asked[req] \in Users /\ req \in Requests /\ TypeOK
  BY BusyWorker DEF TypeInv, ProcessInv, At
<1>2. money[asked[req]] \in Nat
  BY <1>1 DEF TypeOK
<1>3. [req |-> req, amount |-> money[asked[req]]] \in [req : Requests, amount : Nat]
  BY <1>1, <1>2
<1>4. withdrawn' = Append(withdrawn, [req |-> req, amount |-> money[asked[req]]])
  BY DEF Empty
<1>5. money' \in [Users -> Nat]
  BY <1>1 DEF Empty, TypeOK
<1> QED
  BY <1>1, <1>3, <1>4, <1>5 DEF TypeOK

\* The faults after one more.
LEMMA OneMoreFault ==
  ASSUME TypeOK, NEW r \in Requests, faults' = [faults EXCEPT ![r] = @ + 1]
  PROVE  /\ faults' \in [Requests -> Nat]
         /\ faults'[r] = faults[r] + 1
         /\ \A s \in Requests : faults[s] \in Nat /\ faults'[s] \in Nat
                                /\ (s # r => faults'[s] = faults[s])
<1>1. faults \in [Requests -> Nat] /\ faults[r] + 1 \in Nat
  BY DEF TypeOK
<1>2. faults' \in [Requests -> Nat]
  BY <1>1
<1> QED
  BY <1>1, <1>2

\* The first states are well typed.
LEMMA InitTypeInv == Init => TypeInv
<1> SUFFICES ASSUME Init PROVE TypeInv
  OBVIOUS
<1>1. Len(asked) = 0
  BY DEF Init
<1>2. MaxRequests \in Nat
  BY WithdrawBoundsAssumption
<1> QED
  BY <1>1, <1>2 DEF Init, TypeInv, TypeOK, ProcessInv

\* Every step keeps the types.
LEMMA NextTypeInv == TypeInv /\ [Next]_vars => TypeInv'
<1> SUFFICES ASSUME TypeInv, [Next]_vars PROVE TypeInv'
  OBVIOUS
<1>1. TypeOK /\ ProcessInv
  BY DEF TypeInv
<1>2. ASSUME NEW u \in Users \union Strangers, Ask(u) PROVE TypeInv'
  <2>1. /\ asked \in Seq(Users \union Strangers) /\ Len(asked) \in Nat /\ Len(asked) < MaxRequests
        /\ asked' = Append(asked, u) /\ queue' = queue \union {Len(asked) + 1}
        /\ UNCHANGED <<worker, money, withdrawn, records, told, refused, alerted, arrivals, faults>>
    BY <1>1, <1>2 DEF Ask, TypeOK
  <2>2. /\ asked' \in Seq(Users \union Strangers) /\ Len(asked') <= MaxRequests
        /\ DOMAIN asked \subseteq DOMAIN asked' /\ Len(asked) + 1 \in DOMAIN asked'
        /\ \A r \in DOMAIN asked : asked'[r] = asked[r]
    BY <2>1, WithdrawBoundsAssumption
  <2>3. TypeOK'
    BY <1>1, <2>1, <2>2 DEF TypeOK
  <2>4. ProcessInv'
    BY <1>1, <2>1, <2>2, BusyWorker DEF ProcessInv, Completed, Withdrawals
  <2> QED
    BY <2>3, <2>4 DEF TypeInv
<1>3. ASSUME NEW u \in Users, Arrive(u) PROVE TypeInv'
  BY <1>1, <1>3 DEF Arrive, TypeInv, TypeOK, ProcessInv, Completed, Withdrawals
<1>4. ASSUME NEW r \in Requests, Receive(r) PROVE TypeInv'
  <2>1. /\ r \in queue /\ worker' = [pc |-> "find", req |-> r, tx |-> 0]
        /\ UNCHANGED <<asked, queue, money, withdrawn, records, told, refused, alerted, arrivals, faults>>
    BY <1>4 DEF Receive
  <2>2. worker' \in Working /\ worker'.req = r /\ worker'.pc = "find"
    BY <2>1 DEF Working, Steps
  <2> QED
    BY <1>1, <2>1, <2>2 DEF TypeInv, TypeOK, ProcessInv
<1>5. CASE FindUser
  <2>1. /\ worker # Idle /\ asked[worker.req] \in Users
        /\ worker' = [worker EXCEPT !.pc = "withdraw"]
        /\ UNCHANGED <<asked, queue, money, withdrawn, records, told, refused, alerted, arrivals, faults>>
    BY <1>5 DEF FindUser, At, GoTo
  <2>2. worker' \in Working /\ worker'.req = worker.req /\ worker'.pc = "withdraw"
    BY <1>1, <2>1, BusyWorker DEF Steps
  <2> QED
    BY <1>1, <2>1, <2>2 DEF TypeInv, TypeOK, ProcessInv
<1>6. ASSUME worker' = Idle, queue' \subseteq queue, faults' \in [Requests -> Nat],
             UNCHANGED <<asked, money, withdrawn, records, told, refused, alerted, arrivals>>
      PROVE  TypeInv'
  BY <1>1, <1>6 DEF TypeInv, TypeOK, ProcessInv
<1>7. CASE FindNobody
  BY <1>1, <1>6, <1>7 DEF FindNobody, TypeOK
<1>8. CASE WithdrawSent
  <2>1. /\ At("withdraw") /\ Empty /\ worker # Idle
        /\ worker' = [worker EXCEPT !.pc = "record", !.tx = Len(withdrawn) + 1]
        /\ UNCHANGED <<asked, queue, records, told, refused, alerted, arrivals, faults>>
    BY <1>8 DEF WithdrawSent, At
  <2>2. PICK req : req = worker.req
    OBVIOUS
  <2>3. /\ withdrawn' \in Seq([req : Requests, amount : Nat]) /\ money' \in [Users -> Nat]
        /\ Len(withdrawn) \in Nat /\ DOMAIN withdrawn = 1 .. Len(withdrawn)
        /\ DOMAIN withdrawn' = 1 .. Len(withdrawn) + 1
        /\ \A n \in DOMAIN withdrawn : withdrawn'[n] = withdrawn[n]
        /\ withdrawn'[Len(withdrawn) + 1].req = req /\ Len(withdrawn) + 1 \notin records
    BY <2>1, <2>2, WithdrawnAppended
  <2> worker \in Working /\ req \in DOMAIN asked /\ Len(withdrawn) + 1 \in Nat
    BY <1>1, <2>1, <2>2, <2>3, BusyWorker
  <2>4. /\ worker' \in Working /\ worker'.req = req /\ worker'.pc = "record"
        /\ worker'.tx = Len(withdrawn) + 1
        /\ req \in DOMAIN asked
    BY <2>1, <2>2 DEF Working, Steps
  <2>5. TypeOK'
    BY <1>1, <2>1, <2>3, <2>4 DEF TypeOK
  <2>6. req \in queue /\ asked[req] \in Users
    BY <1>1, <2>1, <2>2 DEF ProcessInv, At
  <2>7. \A n \in DOMAIN withdrawn' : withdrawn'[n].req \in DOMAIN asked
    BY <1>1, <2>3, <2>4 DEF ProcessInv
  <2>8. Len(withdrawn) + 1 \in DOMAIN withdrawn'
    BY <2>3
  <2>9. ProcessInv'
    BY <2>1, <2>3, <2>4, <2>6, <2>7, <2>8 DEF ProcessInv
  <2> QED
    BY <2>5, <2>9 DEF TypeInv
<1>9. CASE WithdrawLost
  <2>1. /\ At("withdraw") /\ Empty /\ worker # Idle
        /\ worker' = [worker EXCEPT !.pc = "fail"]
        /\ faults' = [faults EXCEPT ![worker.req] = @ + 1]
        /\ UNCHANGED <<asked, queue, records, told, refused, alerted, arrivals>>
    BY <1>9 DEF WithdrawLost, At, GoTo, Fault
  <2>2. PICK req : req = worker.req
    OBVIOUS
  <2>3. /\ withdrawn' \in Seq([req : Requests, amount : Nat]) /\ money' \in [Users -> Nat]
        /\ Len(withdrawn) \in Nat /\ DOMAIN withdrawn = 1 .. Len(withdrawn)
        /\ DOMAIN withdrawn' = 1 .. Len(withdrawn) + 1
        /\ \A n \in DOMAIN withdrawn : withdrawn'[n] = withdrawn[n]
        /\ withdrawn'[Len(withdrawn) + 1].req = req
    BY <2>1, <2>2, WithdrawnAppended
  <2>4. /\ worker' \in Working /\ worker'.req = req /\ worker'.pc = "fail"
        /\ req \in DOMAIN asked
    BY <1>1, <2>1, <2>2, BusyWorker DEF Steps
  <2> faults' \in [Requests -> Nat]
    BY <1>1, <2>1, BusyWorker, OneMoreFault
  <2>5. TypeOK'
    BY <1>1, <2>1, <2>3, <2>4 DEF TypeOK
  <2>6. \A n \in DOMAIN withdrawn' : withdrawn'[n].req \in DOMAIN asked
    BY <1>1, <2>3, <2>4 DEF ProcessInv
  <2>7. ProcessInv'
    BY <1>1, <2>1, <2>2, <2>4, <2>6 DEF ProcessInv
  <2> QED
    BY <2>5, <2>7 DEF TypeInv
<1>10. CASE WithdrawNil
  <2>1. /\ worker # Idle /\ worker' = [worker EXCEPT !.pc = "fail"]
        /\ UNCHANGED <<asked, queue, money, withdrawn, records, told, refused, alerted, arrivals, faults>>
    BY <1>10 DEF WithdrawNil, At, GoTo
  <2>2. worker' \in Working /\ worker'.req = worker.req /\ worker'.pc = "fail"
    BY <1>1, <2>1, BusyWorker DEF Steps
  <2> QED
    BY <1>1, <2>1, <2>2 DEF TypeInv, TypeOK, ProcessInv
<1>11. CASE Record
  <2>1. /\ worker # Idle /\ worker.pc = "record" /\ worker' = [worker EXCEPT !.pc = "tell"]
        /\ records' = records \union {worker.tx}
        /\ UNCHANGED <<asked, queue, money, withdrawn, told, refused, alerted, arrivals, faults>>
    BY <1>11 DEF Record, At, GoTo
  <2>2. /\ worker' \in Working /\ worker'.req = worker.req /\ worker'.pc = "tell"
        /\ worker'.tx = worker.tx
    BY <1>1, <2>1, BusyWorker DEF Steps
  <2> QED
    BY <1>1, <2>1, <2>2 DEF TypeInv, TypeOK, ProcessInv
<1>12. CASE Tell
  <2>1. /\ worker # Idle /\ worker.pc = "tell" /\ worker' = [worker EXCEPT !.pc = "delete"]
        /\ told' = told \union {worker.req}
        /\ UNCHANGED <<asked, queue, money, withdrawn, records, refused, alerted, arrivals, faults>>
    BY <1>12 DEF Tell, At, GoTo
  <2>2. /\ worker' \in Working /\ worker'.req = worker.req /\ worker'.pc = "delete"
        /\ worker.req \in DOMAIN asked
    BY <1>1, <2>1, BusyWorker DEF Steps
  <2>3. worker.tx \in records /\ worker.tx \in DOMAIN withdrawn /\ withdrawn[worker.tx].req = worker.req
    BY <1>1, <2>1 DEF ProcessInv
  <2>4. Completed(worker.req)'
    BY <2>1, <2>2, <2>3 DEF Completed, Withdrawals
  <2> QED
    BY <1>1, <2>1, <2>2, <2>4 DEF TypeInv, TypeOK, ProcessInv
<1>13. CASE Fail
  <2>1. /\ worker # Idle /\ worker' = [worker EXCEPT !.pc = "delete"]
        /\ refused' = refused \union {worker.req}
        /\ alerted' \subseteq alerted \union {worker.req}
        /\ UNCHANGED <<asked, queue, money, withdrawn, records, told, arrivals, faults>>
    BY <1>13 DEF Fail, At, GoTo
  <2>2. /\ worker' \in Working /\ worker'.req = worker.req /\ worker'.pc = "delete"
        /\ worker.req \in DOMAIN asked
    BY <1>1, <2>1, BusyWorker DEF Steps
  <2> QED
    BY <1>1, <2>1, <2>2 DEF TypeInv, TypeOK, ProcessInv
<1>14. CASE Delete
  BY <1>1, <1>6, <1>14 DEF Delete, TypeOK
<1>15. CASE Crash
  <2> faults' \in [Requests -> Nat]
    BY <1>1, <1>15, BusyWorker, OneMoreFault DEF Crash, Fault
  <2> QED
    BY <1>1, <1>6, <1>15 DEF Crash
<1>16. CASE UNCHANGED vars
  BY <1>1, <1>16 DEF vars, TypeInv, TypeOK, ProcessInv, Completed, Withdrawals
<1> QED
  BY <1>2, <1>3, <1>4, <1>5, <1>7, <1>8, <1>9, <1>10, <1>11, <1>12, <1>13, <1>14, <1>15,
     <1>16 DEF Next, WorkerStep

\* Every reachable state is well typed; a record names a withdrawal.
THEOREM TypeCorrect == Spec => []TypeOK
<1>1. Spec => []TypeInv
  BY InitTypeInv, NextTypeInv, PTL DEF Spec
<1>2. TypeInv => TypeOK
  BY DEF TypeInv
<1> QED
  BY <1>1, <1>2, PTL

-----------------------------------------------------------------------------
(* No request is lost.                                                     *)

LostInv == TypeInv /\ NoRequestLost

\* What has been answered stays answered.
LEMMA AnsweredStays ==
  ASSUME TypeInv, [Next]_vars, NEW r \in DOMAIN asked
  PROVE  /\ Completed(r) => Completed(r)'
         /\ r \in refused => r \in refused'
<1>1. refused \subseteq refused' /\ told \subseteq told' /\ records \subseteq records'
  BY DEF Next, vars, WorkerStep, Ask, Arrive, Receive, FindUser, FindNobody, WithdrawSent,
         WithdrawLost, WithdrawNil, Record, Tell, Fail, Delete, Crash
<1>2. UNCHANGED withdrawn \/ (At("withdraw") /\ Empty)
  BY DEF Next, vars, WorkerStep, Ask, Arrive, Receive, FindUser, FindNobody, WithdrawSent,
         WithdrawLost, WithdrawNil, Record, Tell, Fail, Delete, Crash
<1>3. Withdrawals(r) \subseteq Withdrawals(r)'
  <2>1. CASE UNCHANGED withdrawn
    BY <2>1 DEF Withdrawals
  <2>2. CASE At("withdraw") /\ Empty
    BY <2>2, WithdrawnAppended DEF Withdrawals
  <2> QED
    BY <1>2, <2>1, <2>2
<1> QED
  BY <1>1, <1>3 DEF Completed

\* Until it is answered - recorded and announced, or run through the failure
\* branch - a request is in the queue, wherever the worker dies: the worker
\* deletes a message as the last thing it does.
THEOREM NothingLost == Spec => []NoRequestLost
<1>1. Init => LostInv
  BY InitTypeInv DEF LostInv, Init, NoRequestLost
<1>2. LostInv /\ [Next]_vars => LostInv'
  <2> SUFFICES ASSUME LostInv, [Next]_vars PROVE LostInv'
    OBVIOUS
  <2>1. TypeInv /\ TypeInv' /\ TypeOK /\ ProcessInv
    BY NextTypeInv DEF LostInv, TypeInv
  <2>2. ASSUME NEW r \in DOMAIN asked'
        PROVE  (r \in queue \/ Completed(r) \/ r \in refused)'
    <3>1. CASE r \notin DOMAIN asked
      <4>1. asked' # asked
        BY <3>1
      <4>2. PICK u \in Users \union Strangers : Ask(u)
        BY <4>1 DEF Next, vars, WorkerStep, Arrive, Receive, FindUser, FindNobody,
                    WithdrawSent, WithdrawLost, WithdrawNil, Record, Tell, Fail, Delete, Crash
      <4>3. r = Len(asked) + 1
        BY <2>1, <3>1, <4>2 DEF Ask, TypeOK
      <4> QED
        BY <4>2, <4>3 DEF Ask
    <3>2. CASE r \in DOMAIN asked /\ r \in queue /\ r \notin queue'
      <4>1. Delete
        BY <3>2 DEF Next, vars, WorkerStep, Ask, Arrive, Receive, FindUser, FindNobody,
                    WithdrawSent, WithdrawLost, WithdrawNil, Record, Tell, Fail, Crash
      <4>2. worker # Idle /\ worker.pc = "delete" /\ r = worker.req
        BY <3>2, <4>1 DEF Delete, At
      <4>3. Completed(r) \/ r \in refused
        BY <2>1, <4>2 DEF ProcessInv
      <4> QED
        BY <2>1, <3>2, <4>3, AnsweredStays
    <3> QED
      BY <2>1, <3>1, <3>2, AnsweredStays DEF LostInv, NoRequestLost
  <2> QED
    BY <2>1, <2>2 DEF LostInv, NoRequestLost
<1>3. LostInv => NoRequestLost
  BY DEF LostInv
<1> QED
  BY <1>1, <1>2, <1>3, PTL DEF Spec

-----------------------------------------------------------------------------
(* A request moves money once, plus at most once more per fault.           *)

\* RepeatedOnlyAfterFaults says nothing of when the next withdrawal may come:
\* while request r can still be carried out, the faults pay for all so far.
Ahead(r) ==
  /\ r \in queue
  /\ worker # Idle /\ worker.req = r => worker.pc \in {"find", "withdraw"}

RepeatInv ==
  \A r \in DOMAIN asked :
    /\ Cardinality(Withdrawals(r)) <= 1 + faults[r]
    /\ Ahead(r) => Cardinality(Withdrawals(r)) <= faults[r]

\* A request's withdrawals can be counted; so can those without a record.
LEMMA Countable ==
  ASSUME TypeInv, NEW r
  PROVE  /\ IsFiniteSet(Withdrawals(r)) /\ Cardinality(Withdrawals(r)) \in Nat
         /\ IsFiniteSet(Withdrawals(r) \ records)
         /\ Cardinality(Withdrawals(r) \ records) \in Nat
<1>1. Len(withdrawn) \in Nat /\ DOMAIN withdrawn = 1 .. Len(withdrawn)
  BY DEF TypeInv, TypeOK
<1>2. IsFiniteSet(1 .. Len(withdrawn))
  BY <1>1, FS_Interval
<1>3. Withdrawals(r) \subseteq 1 .. Len(withdrawn)
  BY <1>1 DEF Withdrawals
<1>4. IsFiniteSet(Withdrawals(r))
  BY <1>2, <1>3, FS_Subset
<1>5. IsFiniteSet(Withdrawals(r) \ records)
  BY <1>4, FS_Difference
<1> QED
  BY <1>4, <1>5, FS_CardinalityType

\* A withdrawal counts for the request the worker has, and for no other.
LEMMA OneMoreWithdrawal ==
  ASSUME TypeInv, At("withdraw"), Empty, UNCHANGED records, NEW r
  PROVE  /\ r = worker.req =>
              /\ Cardinality(Withdrawals(r)') = Cardinality(Withdrawals(r)) + 1
              /\ Cardinality((Withdrawals(r) \ records)') = Cardinality(Withdrawals(r) \ records) + 1
         /\ r # worker.req => Withdrawals(r)' = Withdrawals(r)
<1>1. PICK req : req = worker.req
  OBVIOUS
<1>2. /\ Len(withdrawn) \in Nat /\ DOMAIN withdrawn = 1 .. Len(withdrawn)
      /\ DOMAIN withdrawn' = 1 .. Len(withdrawn) + 1
      /\ \A n \in DOMAIN withdrawn : withdrawn'[n] = withdrawn[n]
      /\ withdrawn'[Len(withdrawn) + 1].req = req
      /\ Len(withdrawn) + 1 \notin records
  BY <1>1, WithdrawnAppended
<1>3. PICK n : n = Len(withdrawn) + 1
  OBVIOUS
<1>4. n \notin Withdrawals(r) /\ n \notin records
  BY <1>2, <1>3 DEF Withdrawals
<1>5. \A k \in DOMAIN withdrawn' : k \in DOMAIN withdrawn \/ k = n
  BY <1>2, <1>3
<1>6. n \in DOMAIN withdrawn' /\ DOMAIN withdrawn \subseteq DOMAIN withdrawn'
  BY <1>2, <1>3
<1>7. ASSUME r # req PROVE Withdrawals(r)' = Withdrawals(r)
  BY <1>2, <1>3, <1>5, <1>6, <1>7 DEF Withdrawals
<1>8. ASSUME r = req PROVE Withdrawals(r)' = Withdrawals(r) \union {n}
  BY <1>2, <1>3, <1>5, <1>6, <1>8 DEF Withdrawals
<1>9. ASSUME r = req PROVE (Withdrawals(r) \ records)' = (Withdrawals(r) \ records) \union {n}
  BY <1>4, <1>8, <1>9
<1> QED
  BY <1>1, <1>4, <1>7, <1>8, <1>9, Countable, FS_AddElement

\* Nothing is withdrawn for a request that has just been sent.
LEMMA NewRequest ==
  ASSUME TypeInv, NEW u, Ask(u), NEW r \in DOMAIN asked', r \notin DOMAIN asked
  PROVE  /\ Withdrawals(r)' = {} /\ Cardinality(Withdrawals(r)') = 0
         /\ r \in Requests /\ faults'[r] \in Nat
<1>1. Withdrawals(r) = {} /\ UNCHANGED <<withdrawn, faults>>
  BY DEF TypeInv, ProcessInv, Withdrawals, Ask
<1>2. Withdrawals(r)' = {}
  BY <1>1 DEF Withdrawals
<1>3. /\ asked \in Seq(Users \union Strangers) /\ Len(asked) \in Nat /\ Len(asked) < MaxRequests
      /\ asked' = Append(asked, u)
  BY DEF TypeInv, TypeOK, Ask
<1>4. r \in 1 .. Len(asked) + 1
  BY <1>3
<1>5. r \in Requests
  BY <1>3, <1>4, WithdrawBoundsAssumption DEF Requests
<1> QED
  BY <1>1, <1>2, <1>5, FS_EmptySet DEF TypeInv, TypeOK

\* The requests are numbers that faults has a count for.
LEMMA RequestTypes ==
  ASSUME TypeOK, NEW r \in DOMAIN asked
  PROVE  r \in Requests /\ faults[r] \in Nat
<1>1. r \in 1 .. Len(asked) /\ Len(asked) \in Nat /\ Len(asked) <= MaxRequests
  BY DEF TypeOK
<1> QED
  BY <1>1, WithdrawBoundsAssumption DEF Requests, TypeOK

\* A step on requests there were already keeps RepeatInv.
LEMMA NextRepeats ==
  ASSUME TypeInv, TypeInv', RepeatInv, [Next]_vars, NEW r \in DOMAIN asked
  PROVE  /\ Cardinality(Withdrawals(r)') <= 1 + faults'[r]
         /\ Ahead(r)' => Cardinality(Withdrawals(r)') <= faults'[r]
<1> DEFINE C == Cardinality(Withdrawals(r))
<1>1. /\ C \in Nat /\ r \in Requests /\ faults[r] \in Nat
      /\ C <= 1 + faults[r] /\ (Ahead(r) => C <= faults[r])
  BY Countable, RequestTypes DEF TypeInv, RepeatInv
<1>2. ASSUME UNCHANGED <<withdrawn, faults>>, Ahead(r)' => Ahead(r)
      PROVE  /\ C' <= 1 + faults'[r]
             /\ Ahead(r)' => C' <= faults'[r]
  <2>1. C' = C
    BY <1>2 DEF Withdrawals
  <2> QED
    BY <1>1, <1>2, <2>1
<1>3. TypeOK /\ ProcessInv
  BY DEF TypeInv
<1>4. ASSUME NEW u \in Users \union Strangers, Ask(u)
      PROVE  UNCHANGED <<withdrawn, faults>> /\ (Ahead(r)' => Ahead(r))
  <2>1. r # Len(asked) + 1
    BY <1>3 DEF TypeOK
  <2> QED
    BY <1>4, <2>1 DEF Ask, Ahead
<1>5. ASSUME NEW u \in Users, Arrive(u)
      PROVE  UNCHANGED <<withdrawn, faults>> /\ (Ahead(r)' => Ahead(r))
  BY <1>5 DEF Arrive, Ahead
<1>6. ASSUME NEW q \in Requests, Receive(q)
      PROVE  UNCHANGED <<withdrawn, faults>> /\ (Ahead(r)' => Ahead(r))
  BY <1>6 DEF Receive, Ahead
<1>7. ASSUME At("find"), GoTo("withdraw") \/ worker' = Idle, UNCHANGED queue
      PROVE  Ahead(r)' => Ahead(r)
  BY <1>3, <1>7, BusyWorker DEF Ahead, At, GoTo, Steps
<1>8. CASE WithdrawNil \/ Record \/ Tell \/ Fail
  <2>1. /\ worker # Idle /\ UNCHANGED <<queue, withdrawn, faults>>
        /\ \E pc \in {"fail", "tell", "delete"} : worker' = [worker EXCEPT !.pc = pc]
    BY <1>8 DEF WithdrawNil, Record, Tell, Fail, At, GoTo
  <2>2. worker' # Idle /\ worker'.req = worker.req /\ worker'.pc \notin {"find", "withdraw"}
    BY <1>3, <2>1, BusyWorker DEF Steps
  <2>3. Ahead(r)' => Ahead(r)
    BY <2>1, <2>2 DEF Ahead
  <2> QED
    BY <1>2, <2>1, <2>3
<1>9. CASE Delete
  <2>1. Ahead(r)' => Ahead(r)
    BY <1>9 DEF Delete, Ahead
  <2> QED
    BY <1>2, <1>9, <2>1 DEF Delete
<1>10. CASE WithdrawSent
  <2>1. At("withdraw") /\ Empty /\ worker # Idle /\ worker.pc = "withdraw"
        /\ UNCHANGED <<queue, records, faults>>
        /\ worker' = [worker EXCEPT !.pc = "record", !.tx = Len(withdrawn) + 1]
    BY <1>10 DEF WithdrawSent, At
  <2>2. worker' # Idle /\ worker'.req = worker.req /\ worker'.pc = "record"
    BY <1>3, <2>1, BusyWorker DEF Working, Idle
  <2>3. CASE r = worker.req
    <3>1. Ahead(r) /\ ~Ahead(r)'
      BY <1>3, <2>1, <2>2, <2>3 DEF Ahead, ProcessInv
    <3>2. C' = C + 1
      BY <2>1, <2>3, OneMoreWithdrawal
    <3> QED
      BY <1>1, <2>1, <3>1, <3>2
  <2>4. CASE r # worker.req
    <3>1. Withdrawals(r)' = Withdrawals(r)
      BY <2>1, <2>4, OneMoreWithdrawal
    <3>2. C' = C /\ (Ahead(r)' => Ahead(r))
      BY <2>1, <2>4, <3>1 DEF Ahead
    <3> QED
      BY <1>1, <2>1, <3>2
  <2> QED
    BY <2>3, <2>4
<1>11. CASE WithdrawLost
  <2>1. At("withdraw") /\ Empty /\ worker # Idle /\ worker.pc = "withdraw"
        /\ UNCHANGED <<queue, records>> /\ worker' = [worker EXCEPT !.pc = "fail"]
        /\ faults' = [faults EXCEPT ![worker.req] = @ + 1]
    BY <1>11 DEF WithdrawLost, At, GoTo, Fault
  <2>2. worker' # Idle /\ worker'.req = worker.req /\ worker'.pc = "fail"
    BY <1>3, <2>1, BusyWorker DEF Steps
  <2>3. /\ faults'[worker.req] = faults[worker.req] + 1
        /\ r # worker.req => faults'[r] = faults[r]
    BY <1>1, <1>3, <2>1, BusyWorker, OneMoreFault
  <2>4. CASE r = worker.req
    <3>1. Ahead(r) /\ ~Ahead(r)'
      BY <1>3, <2>1, <2>2, <2>4 DEF Ahead, ProcessInv
    <3>2. C' = C + 1
      BY <2>1, <2>4, OneMoreWithdrawal
    <3> QED
      BY <1>1, <2>3, <2>4, <3>1, <3>2
  <2>5. CASE r # worker.req
    <3>1. Withdrawals(r)' = Withdrawals(r)
      BY <2>1, <2>5, OneMoreWithdrawal
    <3>2. C' = C /\ (Ahead(r)' => Ahead(r))
      BY <2>1, <2>5, <3>1 DEF Ahead
    <3> QED
      BY <1>1, <2>3, <2>5, <3>2
  <2> QED
    BY <2>4, <2>5
<1>12. CASE Crash
  <2>1. worker # Idle /\ UNCHANGED <<queue, withdrawn>>
        /\ faults' = [faults EXCEPT ![worker.req] = @ + 1]
    BY <1>12 DEF Crash, Fault
  <2>2. /\ faults'[worker.req] = faults[worker.req] + 1
        /\ r # worker.req => faults'[r] = faults[r]
    BY <1>1, <1>3, <2>1, BusyWorker, OneMoreFault
  <2>3. C' = C
    BY <2>1 DEF Withdrawals
  <2>4. r # worker.req => (Ahead(r)' => Ahead(r))
    BY <2>1 DEF Ahead
  <2> QED
    BY <1>1, <2>2, <2>3, <2>4
<1>13. CASE FindUser \/ FindNobody
  BY <1>2, <1>7, <1>13 DEF FindUser, FindNobody
<1>14. CASE UNCHANGED vars
  BY <1>2, <1>14 DEF vars, Ahead
<1> QED
  BY <1>2, <1>4, <1>5, <1>6, <1>8, <1>9, <1>10, <1>11, <1>12, <1>13, <1>14
     DEF Next, WorkerStep

\* A request moves money once, plus at most once more for every time the worker
\* failed while it had it: without a failure nothing is withdrawn twice.
THEOREM RepeatedByFaults == Spec => []RepeatedOnlyAfterFaults
<1>1. Init => RepeatInv
  BY DEF Init, RepeatInv
<1>2. TypeInv /\ TypeInv' /\ RepeatInv /\ [Next]_vars => RepeatInv'
  <2> SUFFICES ASSUME TypeInv, TypeInv', RepeatInv, [Next]_vars, NEW r \in DOMAIN asked'
               PROVE  /\ Cardinality(Withdrawals(r)') <= 1 + faults'[r]
                      /\ Ahead(r)' => Cardinality(Withdrawals(r)') <= faults'[r]
    BY DEF RepeatInv
  <2>1. CASE r \in DOMAIN asked
    BY <2>1, NextRepeats
  <2>2. CASE r \notin DOMAIN asked
    <3>1. PICK u \in Users \union Strangers : Ask(u)
      BY <2>2 DEF Next, vars, WorkerStep, Arrive, Receive, FindUser, FindNobody,
                  WithdrawSent, WithdrawLost, WithdrawNil, Record, Tell, Fail, Delete, Crash
    <3> QED
      BY <2>2, <3>1, NewRequest
  <2> QED
    BY <2>1, <2>2
<1>3. RepeatInv => RepeatedOnlyAfterFaults
  BY DEF RepeatInv, RepeatedOnlyAfterFaults
<1> QED
  BY <1>1, <1>2, <1>3, InitTypeInv, NextTypeInv, PTL DEF Spec

-----------------------------------------------------------------------------
(* Faults bound the withdrawals that have no record.                       *)

\* The withdrawal the worker is about to record.
Current(r) == IF At("record") /\ worker.req = r THEN 1 ELSE 0

\* A step on requests there were already keeps the bound.
LEMMA NextUnrecorded ==
  ASSUME TypeInv, TypeInv', UnrecordedOnlyByFaults, [Next]_vars, NEW r \in DOMAIN asked
  PROVE  Cardinality((Withdrawals(r) \ records)') <= faults'[r] + Current(r)'
<1> DEFINE C == Cardinality(Withdrawals(r) \ records)
<1>1. C \in Nat /\ r \in Requests /\ faults[r] \in Nat /\ C <= faults[r] + Current(r)
  BY Countable, RequestTypes DEF TypeInv, UnrecordedOnlyByFaults, Current
<1>2. TypeOK /\ ProcessInv
  BY DEF TypeInv
<1>3. UNCHANGED <<withdrawn, records>> => C' = C
  BY DEF Withdrawals
<1>4. ASSUME UNCHANGED <<withdrawn, records, faults>>, ~At("record") \/ UNCHANGED worker
      PROVE  C' <= faults'[r] + Current(r)'
  <2>1. C' = C
    BY <1>3, <1>4
  <2>2. Current(r) = 0 \/ Current(r)' = Current(r)
    BY <1>4 DEF Current, At
  <2>3. Current(r)' \in Nat
    BY DEF Current
  <2> QED
    BY <1>1, <1>4, <2>1, <2>2, <2>3
<1>5. CASE \E u \in Users \union Strangers : Ask(u)
  BY <1>4, <1>5 DEF Ask
<1>6. CASE \E u \in Users : Arrive(u)
  BY <1>4, <1>6 DEF Arrive
<1>7. CASE \E q \in Requests : Receive(q)
  BY <1>4, <1>7 DEF Receive, At
<1>8. CASE FindUser \/ FindNobody \/ WithdrawNil \/ Tell \/ Fail \/ Delete
  BY <1>4, <1>8 DEF FindUser, FindNobody, WithdrawNil, Tell, Fail, Delete, At
<1>9. CASE WithdrawSent
  <2>1. At("withdraw") /\ Empty /\ worker # Idle /\ worker.pc = "withdraw"
        /\ UNCHANGED <<queue, records, faults>>
        /\ worker' = [worker EXCEPT !.pc = "record", !.tx = Len(withdrawn) + 1]
    BY <1>9 DEF WithdrawSent, At
  <2>2. worker' # Idle /\ worker'.req = worker.req /\ worker'.pc = "record"
    BY <1>2, <2>1, BusyWorker DEF Working, Idle
  <2>3. CASE r = worker.req
    <3>1. Current(r) = 0 /\ Current(r)' = 1
      BY <2>1, <2>2, <2>3 DEF Current, At
    <3>2. C' = C + 1
      BY <2>1, <2>3, OneMoreWithdrawal
    <3> QED
      BY <1>1, <2>1, <3>1, <3>2
  <2>4. CASE r # worker.req
    <3>1. Withdrawals(r)' = Withdrawals(r)
      BY <2>1, <2>4, OneMoreWithdrawal
    <3>2. C' = C /\ Current(r) = 0 /\ Current(r)' = 0
      BY <2>1, <2>2, <2>4, <3>1 DEF Current
    <3> QED
      BY <1>1, <2>1, <3>2
  <2> QED
    BY <2>3, <2>4
<1>10. CASE WithdrawLost
  <2>1. At("withdraw") /\ Empty /\ worker # Idle /\ worker.pc = "withdraw"
        /\ UNCHANGED <<queue, records>> /\ worker' = [worker EXCEPT !.pc = "fail"]
        /\ faults' = [faults EXCEPT ![worker.req] = @ + 1]
    BY <1>10 DEF WithdrawLost, At, GoTo, Fault
  <2>2. worker'.pc = "fail"
    BY <1>2, <2>1, BusyWorker DEF Steps
  <2>3. /\ faults'[worker.req] = faults[worker.req] + 1
        /\ r # worker.req => faults'[r] = faults[r]
    BY <1>1, <1>2, <2>1, BusyWorker, OneMoreFault
  <2>4. Current(r) = 0 /\ Current(r)' = 0
    BY <2>1, <2>2 DEF Current, At
  <2>5. CASE r = worker.req
    <3>1. C' = C + 1
      BY <2>1, <2>5, OneMoreWithdrawal
    <3> QED
      BY <1>1, <2>3, <2>4, <2>5, <3>1
  <2>6. CASE r # worker.req
    <3>1. Withdrawals(r)' = Withdrawals(r)
      BY <2>1, <2>6, OneMoreWithdrawal
    <3>2. C' = C
      BY <2>1, <3>1
    <3> QED
      BY <1>1, <2>3, <2>4, <2>6, <3>2
  <2> QED
    BY <2>5, <2>6
<1>11. CASE Record
  <2>1. At("record") /\ worker # Idle /\ worker.pc = "record"
        /\ UNCHANGED <<withdrawn, faults>> /\ worker' = [worker EXCEPT !.pc = "tell"]
        /\ records' = records \union {worker.tx}
    BY <1>11 DEF Record, At, GoTo
  <2>2. worker'.pc = "tell"
    BY <1>2, <2>1, BusyWorker DEF Steps
  <2>3. PICK tx : tx = worker.tx
    OBVIOUS
  <2>4. /\ tx \in DOMAIN withdrawn /\ withdrawn[tx].req = worker.req
        /\ tx \notin records
    BY <1>2, <2>1, <2>3 DEF ProcessInv
  <2>5. (Withdrawals(r) \ records)' = (Withdrawals(r) \ records) \ {tx}
    BY <2>1, <2>3 DEF Withdrawals
  <2>6. Current(r)' = 0
    BY <2>2 DEF Current, At
  <2>7. CASE r = worker.req
    <3>1. tx \in Withdrawals(r) \ records /\ Current(r) = 1
      BY <2>1, <2>4, <2>7 DEF Withdrawals, Current
    <3>2. C' = C - 1
      BY <2>5, <3>1, Countable, FS_RemoveElement
    <3> QED
      BY <1>1, <2>1, <2>6, <3>1, <3>2
  <2>8. CASE r # worker.req
    <3>1. tx \notin Withdrawals(r) /\ Current(r) = 0
      BY <2>4, <2>8 DEF Withdrawals, Current
    <3>2. C' = C
      BY <2>5, <3>1
    <3> QED
      BY <1>1, <2>1, <2>6, <3>1, <3>2
  <2> QED
    BY <2>7, <2>8
<1>12. CASE Crash
  <2>1. worker # Idle /\ worker' = Idle /\ UNCHANGED <<withdrawn, records>>
        /\ faults' = [faults EXCEPT ![worker.req] = @ + 1]
    BY <1>12 DEF Crash, Fault
  <2>2. /\ faults'[worker.req] = faults[worker.req] + 1
        /\ r # worker.req => faults'[r] = faults[r]
    BY <1>1, <1>2, <2>1, BusyWorker, OneMoreFault
  <2>3. /\ C' = C /\ Current(r)' = 0 /\ Current(r) \in {0, 1}
        /\ r # worker.req => Current(r) = 0
    BY <1>3, <2>1 DEF Current, At
  <2> QED
    BY <1>1, <2>2, <2>3
<1>13. CASE UNCHANGED vars
  BY <1>4, <1>13 DEF vars
<1> QED
  BY <1>5, <1>6, <1>7, <1>8, <1>9, <1>10, <1>11, <1>12, <1>13 DEF Next, WorkerStep

\* Every withdrawal that has no record is that of the worker at this moment, or
\* one that a fault interrupted.
THEOREM UnrecordedByFaults == Spec => []UnrecordedOnlyByFaults
<1>1. Init => UnrecordedOnlyByFaults
  BY DEF Init, UnrecordedOnlyByFaults
<1>2. TypeInv /\ TypeInv' /\ UnrecordedOnlyByFaults /\ [Next]_vars => UnrecordedOnlyByFaults'
  <2> SUFFICES ASSUME TypeInv, TypeInv', UnrecordedOnlyByFaults, [Next]_vars, NEW r \in DOMAIN asked'
               PROVE  Cardinality((Withdrawals(r) \ records)') <= faults'[r] + Current(r)'
    BY DEF UnrecordedOnlyByFaults, Current
  <2>1. CASE r \in DOMAIN asked
    BY <2>1, NextUnrecorded
  <2>2. CASE r \notin DOMAIN asked
    <3>1. PICK u \in Users \union Strangers : Ask(u)
      BY <2>2 DEF Next, vars, WorkerStep, Arrive, Receive, FindUser, FindNobody,
                  WithdrawSent, WithdrawLost, WithdrawNil, Record, Tell, Fail, Delete, Crash
    <3>2. (Withdrawals(r) \ records)' = {} /\ faults'[r] \in Nat
      BY <2>2, <3>1, NewRequest
    <3>3. Cardinality((Withdrawals(r) \ records)') = 0
      BY <3>2, FS_EmptySet
    <3>4. Current(r)' \in Nat
      BY DEF Current
    <3> QED
      BY <3>2, <3>3, <3>4
  <2> QED
    BY <2>1, <2>2
<1> QED
  BY <1>1, <1>2, InitTypeInv, NextTypeInv, PTL DEF Spec
=============================================================================
