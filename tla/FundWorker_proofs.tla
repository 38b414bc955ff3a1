-------------------------- MODULE FundWorker_proofs --------------------------
(***************************************************************************)
(* Proofs about FundWorker, for any number of web processes, charges and   *)
(* deposits: the types, that a charge is funded at most once, and that     *)
(* every charge is accounted for.                                          *)
(***************************************************************************)
EXTENDS FundWorker, SequenceTheorems, TLAPS

-----------------------------------------------------------------------------
(* Type correctness.                                                       *)

\* TypeOK is not inductive: that the records name transactions of the chain
\* rests on the txid that the worker holds after it has paid.
TxidOfCharge ==
  At("record") \/ At("tell") =>
    /\ worker.tx \in DOMAIN funded
    /\ funded[worker.tx] = worker.charge

TypeInv == TypeOK /\ TxidOfCharge

\* A busy worker has a charge.
LEMMA BusyWorker ==
  ASSUME TypeOK, worker \notin {Away, Idle}
  PROVE  worker \in Working /\ worker.charge \in Charges
BY DEF TypeOK, Working

\* What the head of the worker's connection is, and what is left behind it.
LEMMA Inbox ==
  ASSUME TypeOK, inbox # <<>>
  PROVE  /\ Head(inbox) \in Charges /\ Tail(inbox) \in Seq(Charges)
         /\ Len(inbox) \in Nat /\ DOMAIN inbox = 1 .. Len(inbox)
         /\ DOMAIN Tail(inbox) = 1 .. Len(inbox) - 1
         /\ Head(inbox) = inbox[1] /\ 1 \in DOMAIN inbox
         /\ \A i \in DOMAIN Tail(inbox) :
              i + 1 \in DOMAIN inbox /\ i + 1 # 1 /\ Tail(inbox)[i] = inbox[i + 1]
<1>1. inbox \in Seq(Charges) /\ Len(inbox) \in Nat /\ Len(inbox) > 0
  BY DEF TypeOK
<1> QED
  BY <1>1

\* The chain grows by one transaction, that of the worker's charge.
LEMMA FundedAppended ==
  ASSUME TypeOK, NEW c \in Charges, funded' = Append(funded, c)
  PROVE  /\ funded' \in Seq(Charges)
         /\ Len(funded) \in Nat
         /\ DOMAIN funded = 1 .. Len(funded)
         /\ DOMAIN funded' = 1 .. Len(funded) + 1
         /\ \A i \in DOMAIN funded : i \in DOMAIN funded' /\ funded'[i] = funded[i]
         /\ Len(funded) + 1 \in DOMAIN funded'
         /\ funded'[Len(funded) + 1] = c
BY DEF TypeOK

\* The first states are well typed.
LEMMA InitTypeInv == Init => TypeInv
<1>1. Init => TypeOK
  BY FundAssumption DEF Init, TypeOK, NoCharge
<1>2. Init => TxidOfCharge
  BY DEF Init, TxidOfCharge, At
<1> QED
  BY <1>1, <1>2 DEF TypeInv

\* Every step keeps the types.
LEMMA NextTypeInv == TypeInv /\ [Next]_vars => TypeInv'
<1> SUFFICES ASSUME TypeOK, TxidOfCharge, [Next]_vars PROVE TypeOK' /\ TxidOfCharge'
  BY DEF TypeInv
<1>1. ASSUME UNCHANGED <<worker, funded>> PROVE TxidOfCharge'
  BY <1>1 DEF TxidOfCharge, At
<1>2. ASSUME worker' \in {Away, Idle} PROVE TxidOfCharge'
  BY <1>2 DEF TxidOfCharge, At
<1>3. ASSUME NEW h \in Handlers, Charge(h) PROVE TypeOK' /\ TxidOfCharge'
  BY <1>1, <1>3, FundAssumption DEF Charge, NoCharge, TypeOK, Charges
<1>4. ASSUME NEW h \in Handlers, Publish(h) PROVE TypeOK' /\ TxidOfCharge'
  <2>1. handler[h] \in Charges
    BY <1>4 DEF Publish, TypeOK, NoCharge
  <2>2. handler' \in [Handlers -> Charges \union {NoCharge}]
    BY <1>4 DEF Publish, TypeOK
  <2>3. inbox' \in Seq(Charges) /\ mishaps' \subseteq Charges
    <3>1. inbox \in Seq(Charges) /\ mishaps \subseteq Charges
      BY DEF TypeOK
    <3>2. CASE inbox' = Append(inbox, handler[h]) /\ UNCHANGED mishaps
      BY <2>1, <3>1, <3>2
    <3>3. CASE UNCHANGED inbox /\ mishaps' = mishaps \union {handler[h]}
      BY <2>1, <3>1, <3>3
    <3> QED
      BY <1>4, <3>2, <3>3 DEF Publish, Mishap
  <2> QED
    BY <1>1, <1>4, <2>2, <2>3 DEF Publish, TypeOK
<1>5. ASSUME NEW h \in Handlers, HandlerCrash(h) PROVE TypeOK' /\ TxidOfCharge'
  BY <1>1, <1>5 DEF HandlerCrash, Mishap, NoCharge, TypeOK
<1>6. CASE Subscribe
  BY <1>2, <1>6 DEF Subscribe, TypeOK
<1>7. CASE Receive
  <2>1. worker' \in Working /\ worker'.pc = "pay"
    BY <1>7, Inbox DEF Receive, Working
  <2>2. TxidOfCharge'
    BY <2>1 DEF TxidOfCharge, At
  <2> QED
    BY <1>7, <2>1, <2>2, Inbox DEF Receive, TypeOK
<1>8. ASSUME At("pay"), FromReserves
      PROVE  /\ funded' \in Seq(Charges) /\ reserves' \in 0 .. Deposits
             /\ txrecs \subseteq DOMAIN funded'
             /\ Len(funded) + 1 \in DOMAIN funded' /\ Len(funded) + 1 \in Nat
             /\ funded'[Len(funded) + 1] = worker.charge
  <2>1. worker.charge \in Charges
    BY <1>8, BusyWorker DEF At
  <2>2. funded' = Append(funded, worker.charge) /\ reserves > 0 /\ reserves' = reserves - 1
    BY <1>8 DEF FromReserves
  <2>3. reserves' \in 0 .. Deposits
    BY <2>2, FundAssumption DEF TypeOK
  <2> QED
    BY <2>1, <2>2, <2>3, FundedAppended DEF TypeOK
<1>9. CASE FundSent
  <2>1. At("pay") /\ FromReserves /\ worker \in Working
    BY <1>9, BusyWorker DEF FundSent, At
  <2>2. /\ worker' = [worker EXCEPT !.pc = "record", !.tx = Len(funded) + 1]
        /\ UNCHANGED <<charged, handler, inbox, txrecs, notes, depleted, mishaps>>
    BY <1>9 DEF FundSent
  <2>3. /\ worker' \in Working /\ worker'.tx = Len(funded) + 1
        /\ worker'.charge = worker.charge
    BY <1>8, <2>1, <2>2 DEF Working
  <2>4. TxidOfCharge'
    BY <1>8, <2>1, <2>3 DEF TxidOfCharge
  <2> QED
    BY <1>8, <2>1, <2>2, <2>3, <2>4 DEF TypeOK
<1>10. CASE FundLost
  <2>1. At("pay") /\ FromReserves /\ worker.charge \in Charges
    BY <1>10, BusyWorker DEF FundLost, At
  <2>2. /\ worker' = Idle /\ mishaps' = mishaps \union {worker.charge}
        /\ UNCHANGED <<charged, handler, inbox, txrecs, notes, depleted>>
    BY <1>10 DEF FundLost, Mishap
  <2> QED
    BY <1>2, <1>8, <2>1, <2>2 DEF TypeOK
<1>11. CASE FundDepleted
  BY <1>2, <1>11, BusyWorker DEF FundDepleted, At, TypeOK
<1>12. CASE FundRefused
  BY <1>2, <1>12, BusyWorker DEF FundRefused, At, Mishap, TypeOK
<1>13. CASE Record
  <2>1. worker \in Working /\ worker.tx \in DOMAIN funded /\ funded[worker.tx] = worker.charge
    BY <1>13, BusyWorker DEF Record, At, TxidOfCharge
  <2>2. /\ worker' \in Working
        /\ worker'.tx = worker.tx /\ worker'.charge = worker.charge
    BY <1>13, <2>1 DEF Record, Working
  <2>3. TxidOfCharge'
    BY <1>13, <2>1, <2>2 DEF TxidOfCharge, Record
  <2> QED
    BY <1>13, <2>1, <2>2, <2>3 DEF Record, TypeOK
<1>14. CASE Tell
  BY <1>2, <1>14, BusyWorker DEF Tell, At, TypeOK
<1>15. CASE Crash
  <2>1. ToSet(inbox) \subseteq Charges
    BY DEF TypeOK, ToSet
  <2>2. (IF worker = Idle THEN {} ELSE {worker.charge}) \subseteq Charges
    BY <1>15, BusyWorker DEF Crash
  <2>3. mishaps' \subseteq Charges
    BY <1>15, <2>1, <2>2 DEF Crash, Mishap, TypeOK
  <2> QED
    BY <1>2, <1>15, <2>3 DEF Crash, TypeOK
<1>16. CASE Refill
  BY <1>1, <1>16, FundAssumption DEF Refill, TypeOK
<1>17. CASE UNCHANGED vars
  BY <1>1, <1>17 DEF vars, TypeOK
<1> QED
  BY <1>3, <1>4, <1>5, <1>6, <1>7, <1>9, <1>10, <1>11, <1>12, <1>13, <1>14, <1>15,
     <1>16, <1>17 DEF Next, HandlerStep, WorkerStep

\* Every reachable state is well typed; a transaction's record names a deposit
\* that was broadcast.
THEOREM TypeCorrect == Spec => []TypeOK
<1>1. Spec => []TypeInv
  BY InitTypeInv, NextTypeInv, PTL DEF Spec
<1>2. TypeInv => TypeOK
  BY DEF TypeInv
<1> QED
  BY <1>1, <1>2, PTL

-----------------------------------------------------------------------------
(* One deposit for one charge.                                             *)

Unfunded(c) == \A i \in DOMAIN funded : funded[i] # c

\* FundedOncePerCharge is not inductive: a charge about to be paid must not have
\* been paid before, nor lie on the way a second time.  A charge is made by one
\* handler, then on the connection once, then with the worker.
HandledOnce ==
  \A h \in Handlers : handler[h] # NoCharge =>
    /\ handler[h] <= charged /\ Unfunded(handler[h])
    /\ \A g \in Handlers : g # h => handler[g] # handler[h]

QueuedOnce ==
  \A i \in DOMAIN inbox :
    /\ inbox[i] <= charged /\ Unfunded(inbox[i])
    /\ \A h \in Handlers : handler[h] # inbox[i]
    /\ \A j \in DOMAIN inbox : j # i => inbox[j] # inbox[i]

PaidOnce ==
  At("pay") =>
    /\ worker.charge <= charged /\ Unfunded(worker.charge)
    /\ \A h \in Handlers : handler[h] # worker.charge
    /\ \A i \in DOMAIN inbox : inbox[i] # worker.charge

PathInv == HandledOnce /\ QueuedOnce /\ PaidOnce /\ FundedOncePerCharge

\* What is on the way or paid are numbers of charges.
LEMMA Numbers ==
  ASSUME TypeOK
  PROVE  /\ \A i \in DOMAIN funded : funded[i] \in Nat
         /\ \A i \in DOMAIN inbox : inbox[i] \in Nat /\ inbox[i] # NoCharge
         /\ \A h \in Handlers : handler[h] \in Nat
<1>1. Charges \subseteq Nat /\ NoCharge \notin Charges /\ NoCharge \in Nat
  BY DEF Charges, NoCharge
<1>2. \A i \in DOMAIN funded : funded[i] \in Charges
  BY ElementOfSeq, LenProperties DEF TypeOK
<1>3. \A i \in DOMAIN inbox : inbox[i] \in Charges
  BY ElementOfSeq, LenProperties DEF TypeOK
<1>4. \A h \in Handlers : handler[h] \in Charges \union {NoCharge}
  BY DEF TypeOK
<1> QED
  BY <1>1, <1>2, <1>3, <1>4

\* At the start nothing is on its way.
LEMMA InitPathInv == Init => PathInv
BY DEF Init, PathInv, HandledOnce, QueuedOnce, PaidOnce, At, FundedOncePerCharge, NoCharge

\* A worker that does not come to a payment adds nothing to the way.
LEMMA WorkerElsewhere ==
  ASSUME PathInv, UNCHANGED <<charged, handler, inbox, funded>>, ~ At("pay")'
  PROVE  PathInv'
BY DEF PathInv, HandledOnce, QueuedOnce, PaidOnce, FundedOncePerCharge, Unfunded

\* The payment takes its charge off the way.
LEMMA PaymentKeepsPath ==
  ASSUME TypeOK, PathInv, At("pay"), FromReserves, ~ At("pay")',
         UNCHANGED <<charged, handler, inbox>>
  PROVE  PathInv'
<1>1. worker.charge \in Charges /\ funded' = Append(funded, worker.charge)
  BY BusyWorker DEF At, FromReserves
<1>2. /\ DOMAIN funded' = 1 .. Len(funded) + 1 /\ Len(funded) \in Nat
      /\ DOMAIN funded = 1 .. Len(funded)
      /\ \A i \in DOMAIN funded : funded'[i] = funded[i]
      /\ funded'[Len(funded) + 1] = worker.charge
      /\ \A i \in DOMAIN funded' : i \in DOMAIN funded \/ i = Len(funded) + 1
  BY <1>1, FundedAppended
<1>3. /\ worker.charge <= charged /\ Unfunded(worker.charge)
      /\ \A h \in Handlers : handler[h] # worker.charge
      /\ \A i \in DOMAIN inbox : inbox[i] # worker.charge
  BY DEF PathInv, PaidOnce
<1>4. \A c : Unfunded(c) /\ c # worker.charge => Unfunded(c)'
  BY <1>2 DEF Unfunded
<1>5. HandledOnce'
  BY <1>3, <1>4 DEF PathInv, HandledOnce
<1>6. QueuedOnce'
  BY <1>3, <1>4 DEF PathInv, QueuedOnce
<1>7. PaidOnce'
  BY DEF PaidOnce
<1>8. FundedOncePerCharge'
  <2>1. \A i \in DOMAIN funded : funded[i] # worker.charge
    BY <1>3 DEF Unfunded
  <2> QED
    BY <1>2, <1>3, <2>1 DEF PathInv, FundedOncePerCharge
<1> QED
  BY <1>5, <1>6, <1>7, <1>8 DEF PathInv

\* Every step keeps every charge on one way.
LEMMA NextPathInv == TypeOK /\ PathInv /\ [Next]_vars => PathInv'
<1> SUFFICES ASSUME TypeOK, PathInv, [Next]_vars PROVE PathInv'
  OBVIOUS
<1>1. ASSUME NEW h \in Handlers, Charge(h) PROVE PathInv'
  <2>1. /\ charged' = charged + 1 /\ charged \in Nat
        /\ handler' = [handler EXCEPT ![h] = charged + 1]
        /\ UNCHANGED <<inbox, worker, funded>>
    BY <1>1, FundAssumption DEF Charge, TypeOK
  <2>2. \A i \in DOMAIN funded : funded[i] <= charged
    BY DEF PathInv, FundedOncePerCharge
  <2>3. /\ funded \in Seq(Charges) /\ inbox \in Seq(Charges)
        /\ handler \in [Handlers -> Charges \union {NoCharge}]
        /\ Charges \subseteq Nat
    BY DEF TypeOK, Charges
  <2>4. /\ \A i \in DOMAIN funded : funded[i] \in Nat
        /\ \A i \in DOMAIN inbox : inbox[i] \in Nat
        /\ \A g \in Handlers : handler[g] \in Nat
    BY Numbers
  <2>5. Unfunded(charged + 1) /\ charged + 1 # NoCharge
    BY <2>1, <2>2, <2>4 DEF Unfunded, NoCharge
  <2>6. \A c : Unfunded(c)' <=> Unfunded(c)
    BY <2>1 DEF Unfunded
  <2>7. \A g \in Handlers : handler[g] # charged + 1
    BY <2>1, <2>4 DEF PathInv, HandledOnce, NoCharge
  <2>8. /\ handler'[h] = charged + 1
        /\ \A g \in Handlers : g # h => handler'[g] = handler[g]
    BY <2>1, <2>3
  <2>9. HandledOnce'
    BY <2>1, <2>4, <2>5, <2>6, <2>7, <2>8 DEF PathInv, HandledOnce
  <2>10. QueuedOnce'
    BY <2>1, <2>4, <2>6, <2>8 DEF PathInv, QueuedOnce
  <2>11. PaidOnce'
    <3>1. At("pay")' <=> At("pay")
      BY <2>1 DEF At
    <3>2. At("pay") => worker.charge \in Nat
      BY <2>3, BusyWorker DEF At
    <3> QED
      BY <2>1, <2>6, <2>8, <3>1, <3>2 DEF PathInv, PaidOnce
  <2>12. FundedOncePerCharge'
    BY <2>1, <2>4 DEF PathInv, FundedOncePerCharge
  <2> QED
    BY <2>9, <2>10, <2>11, <2>12 DEF PathInv
<1>2. ASSUME NEW h \in Handlers, UNCHANGED <<charged, inbox, worker, funded>>,
             handler' = [handler EXCEPT ![h] = NoCharge]
      PROVE  PathInv'
  <2>1. \A c : Unfunded(c)' <=> Unfunded(c)
    BY <1>2 DEF Unfunded
  <2>2. \A g \in Handlers : handler'[g] = handler[g] \/ handler'[g] = NoCharge
    BY <1>2 DEF TypeOK
  <2>3. HandledOnce'
    BY <1>2, <2>1, <2>2 DEF PathInv, HandledOnce
  <2>4. \A i \in DOMAIN inbox : inbox[i] # NoCharge
    BY Numbers
  <2>5. QueuedOnce'
    BY <1>2, <2>1, <2>2, <2>4 DEF PathInv, QueuedOnce
  <2>6. At("pay") => worker.charge # NoCharge
    BY BusyWorker DEF At, Charges, NoCharge
  <2>7. PaidOnce'
    BY <1>2, <2>1, <2>2, <2>6 DEF PathInv, PaidOnce, At
  <2> QED
    BY <1>2, <2>3, <2>5, <2>7 DEF PathInv, FundedOncePerCharge
<1>3. ASSUME NEW h \in Handlers, Publish(h) PROVE PathInv'
  <2>1. CASE UNCHANGED inbox
    BY <1>2, <1>3, <2>1 DEF Publish
  <2>2. CASE inbox' = Append(inbox, handler[h])
    <3> DEFINE c == handler[h]
    <3>1. /\ c # NoCharge /\ c \in Charges
          /\ handler' = [handler EXCEPT ![h] = NoCharge]
          /\ UNCHANGED <<charged, worker, funded>>
      BY <1>3 DEF Publish, TypeOK
    <3>2. /\ inbox \in Seq(Charges) /\ Len(inbox) \in Nat
          /\ DOMAIN inbox = 1 .. Len(inbox)
          /\ DOMAIN inbox' = 1 .. Len(inbox) + 1
          /\ \A i \in DOMAIN inbox : inbox'[i] = inbox[i]
          /\ inbox'[Len(inbox) + 1] = c
          /\ \A i \in DOMAIN inbox' : i \in DOMAIN inbox \/ i = Len(inbox) + 1
          /\ Len(inbox) + 1 \notin DOMAIN inbox
      BY <2>2, <3>1 DEF TypeOK
    <3>3. /\ handler'[h] = NoCharge
          /\ \A g \in Handlers : g # h => handler'[g] = handler[g] /\ handler[g] # c
      BY <3>1 DEF TypeOK, PathInv, HandledOnce
    <3>4. \A d : Unfunded(d)' <=> Unfunded(d)
      BY <3>1 DEF Unfunded
    <3>5. c <= charged /\ Unfunded(c) /\ (\A i \in DOMAIN inbox : inbox[i] # c)
      BY <3>1 DEF PathInv, HandledOnce, QueuedOnce
    <3>6. \A i \in DOMAIN inbox : inbox[i] # NoCharge
      BY Numbers
    <3> HIDE DEF c
    <3>7. HandledOnce'
      BY <3>1, <3>3, <3>4 DEF PathInv, HandledOnce
    <3>8. QueuedOnce'
      <4>1. \A i \in DOMAIN inbox :
              /\ inbox[i] <= charged /\ Unfunded(inbox[i])
              /\ \A g \in Handlers : handler'[g] # inbox[i]
        BY <3>3, <3>6 DEF PathInv, QueuedOnce
      <4>2. \A g \in Handlers : handler'[g] # c
        BY <3>1, <3>3
      <4>3. \A i, j \in DOMAIN inbox' : j # i => inbox'[j] # inbox'[i]
        BY <3>2, <3>5 DEF PathInv, QueuedOnce
      <4> QED
        BY <3>1, <3>2, <3>4, <3>5, <4>1, <4>2, <4>3 DEF QueuedOnce
    <3>9. PaidOnce'
      <4>1. At("pay") => worker.charge # NoCharge /\ worker.charge # c
        BY BusyWorker DEF At, Charges, NoCharge, PathInv, PaidOnce, c
      <4> QED
        BY <3>1, <3>2, <3>3, <3>4, <4>1 DEF PathInv, PaidOnce, At
    <3> QED
      BY <3>1, <3>7, <3>8, <3>9 DEF PathInv, FundedOncePerCharge
  <2> QED
    BY <1>3, <2>1, <2>2 DEF Publish
<1>4. ASSUME NEW h \in Handlers, HandlerCrash(h) PROVE PathInv'
  BY <1>2, <1>4 DEF HandlerCrash
<1>5. CASE Subscribe
  BY <1>5, WorkerElsewhere DEF Subscribe, At
<1>6. CASE Receive
  <2>1. /\ inbox # <<>> /\ inbox' = Tail(inbox)
        /\ worker' = [pc |-> "pay", charge |-> Head(inbox), tx |-> 0]
        /\ UNCHANGED <<charged, handler, funded>>
    BY <1>6 DEF Receive
  <2>2. /\ \A c : Unfunded(c)' <=> Unfunded(c)
        /\ HandledOnce' /\ FundedOncePerCharge'
    BY <2>1 DEF PathInv, HandledOnce, FundedOncePerCharge, Unfunded
  <2>3. QueuedOnce'
    <3>1. \A i, j \in DOMAIN inbox' : i # j => inbox'[i] # inbox'[j]
      <4> TAKE i, j \in DOMAIN inbox'
      <4>1. /\ i + 1 \in DOMAIN inbox /\ inbox'[i] = inbox[i + 1]
            /\ j + 1 \in DOMAIN inbox /\ inbox'[j] = inbox[j + 1]
            /\ i \in Nat /\ j \in Nat
        BY <2>1, Inbox
      <4> QED
        BY <4>1 DEF PathInv, QueuedOnce
    <3>2. \A i \in DOMAIN inbox' : \E k \in DOMAIN inbox : inbox'[i] = inbox[k]
      BY <2>1, Inbox
    <3> QED
      BY <2>1, <2>2, <3>1, <3>2 DEF PathInv, QueuedOnce
  <2>4. PaidOnce'
    <3>1. \A i \in DOMAIN inbox' : inbox'[i] # inbox[1]
      BY <2>1, Inbox DEF PathInv, QueuedOnce
    <3>2. 1 \in DOMAIN inbox /\ worker'.charge = inbox[1]
      BY <2>1, Inbox
    <3> QED
      BY <2>1, <2>2, <3>1, <3>2 DEF PathInv, QueuedOnce, PaidOnce
  <2> QED
    BY <2>2, <2>3, <2>4 DEF PathInv
<1>7. CASE FundSent
  <2>1. ~ At("pay")'
    BY <1>7, BusyWorker DEF FundSent, At, Working
  <2> QED
    BY <1>7, <2>1, PaymentKeepsPath DEF FundSent
<1>8. CASE FundLost
  BY <1>8, PaymentKeepsPath DEF FundLost, At
<1>9. CASE FundDepleted \/ FundRefused \/ Tell
  BY <1>9, WorkerElsewhere DEF FundDepleted, FundRefused, Tell, At
<1>10. CASE Record
  <2>1. ~ At("pay")'
    BY <1>10, BusyWorker DEF Record, At, Working
  <2> QED
    BY <1>10, <2>1, WorkerElsewhere DEF Record
<1>11. CASE Crash
  BY <1>11 DEF Crash, At, PathInv, HandledOnce, QueuedOnce, PaidOnce,
               FundedOncePerCharge, Unfunded
<1>12. CASE Refill \/ UNCHANGED vars
  BY <1>12 DEF Refill, vars, At, PathInv, HandledOnce, QueuedOnce, PaidOnce,
               FundedOncePerCharge, Unfunded
<1> QED
  BY <1>1, <1>3, <1>4, <1>5, <1>6, <1>7, <1>8, <1>9, <1>10, <1>11, <1>12
     DEF Next, HandlerStep, WorkerStep

\* No charge of a card pays out twice, and nothing pays out that was not
\* charged, whatever dies and however the requests overtake each other.
THEOREM FundedOnce == Spec => []FundedOncePerCharge
<1>1. Spec => [](TypeInv /\ PathInv)
  <2>1. TypeInv => TypeOK
    BY DEF TypeInv
  <2> QED
    BY <2>1, InitTypeInv, NextTypeInv, InitPathInv, NextPathInv, PTL DEF Spec
<1>2. PathInv => FundedOncePerCharge
  BY DEF PathInv
<1> QED
  BY <1>1, <1>2, PTL

-----------------------------------------------------------------------------
(* Every charge is accounted for.                                          *)

\* How a charge that is no longer on its way is accounted for.
Done(c) ==
  \/ /\ c \in notes
     /\ \E n \in txrecs : funded[n] = c
  \/ c \in depleted
  \/ c \in mishaps

\* The user is told last: the record is there by then.
RecordedBeforeTold == At("tell") => worker.tx \in txrecs

AccountInv == EveryChargeAccounted /\ RecordedBeforeTold

\* At the start nothing was charged.
LEMMA InitAccountInv == Init => AccountInv
BY DEF Init, AccountInv, EveryChargeAccounted, RecordedBeforeTold, At

\* What accounts for a charge is never taken back.
LEMMA DoneStays ==
  ASSUME notes \subseteq notes', txrecs \subseteq txrecs',
         depleted \subseteq depleted', mishaps \subseteq mishaps',
         \A n \in txrecs : funded'[n] = funded[n],
         NEW c, Done(c)
  PROVE  Done(c)'
BY DEF Done

\* The invariant survives a step that charges nothing when each charge on its
\* way stays on its way or is accounted for.
LEMMA StepKeepsAccounts ==
  ASSUME EveryChargeAccounted, charged' = charged,
         \A c : Done(c) => Done(c)',
         \A c : UnderWay(c) => UnderWay(c)' \/ Done(c)'
  PROVE  EveryChargeAccounted'
<1>1. \A c \in 1 .. charged : UnderWay(c) \/ Done(c)
  BY DEF EveryChargeAccounted, Done
<1>2. \A c \in 1 .. charged' : UnderWay(c)' \/ Done(c)'
  BY <1>1
<1> QED
  BY <1>2 DEF EveryChargeAccounted, Done

\* Every step keeps every charge accounted for.
LEMMA NextAccountInv == TypeInv /\ AccountInv /\ [Next]_vars => AccountInv'
<1> SUFFICES ASSUME TypeInv, AccountInv, [Next]_vars PROVE AccountInv'
  OBVIOUS
<1>1. TypeOK /\ EveryChargeAccounted /\ RecordedBeforeTold
  BY DEF TypeInv, AccountInv
<1>2. \A c : Done(c) => Done(c)'
  <2>1. /\ notes \subseteq notes' /\ txrecs \subseteq txrecs'
        /\ depleted \subseteq depleted' /\ mishaps \subseteq mishaps'
    BY DEF Next, HandlerStep, WorkerStep, Charge, Publish, HandlerCrash, Mishap, Subscribe,
           Receive, FundSent, FundLost, FundDepleted, FundRefused, Record, Tell, Crash,
           Refill, vars
  <2>2. UNCHANGED funded \/ (At("pay") /\ FromReserves)
    BY DEF Next, HandlerStep, WorkerStep, Charge, Publish, HandlerCrash, Subscribe,
           Receive, FundSent, FundLost, FundDepleted, FundRefused, Record, Tell, Crash,
           Refill, vars
  <2>3. \A n \in txrecs : funded'[n] = funded[n]
    <3>1. CASE At("pay") /\ FromReserves
      <4>1. worker.charge \in Charges /\ funded' = Append(funded, worker.charge)
        BY <1>1, <3>1, BusyWorker DEF At, FromReserves
      <4> QED
        BY <1>1, <4>1, FundedAppended DEF TypeOK
    <3> QED
      BY <2>2, <3>1
  <2> QED
    BY <2>1, <2>3, DoneStays
<1>3. ASSUME NEW h \in Handlers, Charge(h) PROVE AccountInv'
  <2>1. /\ charged' = charged + 1 /\ charged \in Nat
        /\ handler' = [handler EXCEPT ![h] = charged + 1] /\ handler[h] = NoCharge
        /\ UNCHANGED <<inbox, worker, txrecs>>
    BY <1>1, <1>3, FundAssumption DEF Charge, TypeOK
  <2>2. handler'[h] = charged + 1
    BY <1>1, <2>1 DEF TypeOK
  <2>3. \A c \in 1 .. charged : UnderWay(c) \/ Done(c)
    BY <1>1 DEF EveryChargeAccounted, Done
  <2>4. \A c \in 1 .. charged : UnderWay(c) => UnderWay(c)'
    <3> SUFFICES ASSUME NEW c \in 1 .. charged, NEW g \in Handlers, handler[g] = c
                 PROVE  handler'[g] = c
      BY <2>1 DEF UnderWay
    <3> QED
      BY <1>1, <2>1 DEF TypeOK, NoCharge
  <2>5. \A c \in 1 .. charged' : c \in 1 .. charged \/ c = charged + 1
    BY <2>1
  <2>6. \A c \in 1 .. charged' : UnderWay(c)' \/ Done(c)'
    BY <1>2, <2>2, <2>3, <2>4, <2>5 DEF UnderWay
  <2> QED
    BY <1>1, <2>1, <2>6 DEF AccountInv, EveryChargeAccounted, Done, RecordedBeforeTold, At
<1>4. ASSUME NEW h \in Handlers, Publish(h) \/ HandlerCrash(h) PROVE AccountInv'
  <2>1. /\ UNCHANGED <<charged, worker, txrecs>>
        /\ handler' = [handler EXCEPT ![h] = NoCharge]
    BY <1>4 DEF Publish, HandlerCrash
  <2>2. handler[h] \in ToSet(inbox)' \/ handler[h] \in mishaps'
    <3>1. CASE inbox' = Append(inbox, handler[h])
      <4>1. handler[h] \in Charges
        BY <1>1, <1>4 DEF Publish, HandlerCrash, TypeOK, NoCharge
      <4>2. /\ Len(inbox) \in Nat /\ DOMAIN inbox' = 1 .. Len(inbox) + 1
            /\ inbox'[Len(inbox) + 1] = handler[h]
        BY <1>1, <3>1, <4>1 DEF TypeOK
      <4> QED
        BY <4>2 DEF ToSet
    <3> QED
      BY <1>4, <3>1 DEF Publish, HandlerCrash, Mishap
  <2>3. ToSet(inbox) \subseteq ToSet(inbox)'
    <3>1. CASE inbox' = Append(inbox, handler[h])
      <4>1. handler[h] \in Charges
        BY <1>1, <1>4 DEF Publish, HandlerCrash, TypeOK, NoCharge
      <4>2. /\ DOMAIN inbox \subseteq DOMAIN inbox'
            /\ \A i \in DOMAIN inbox : inbox'[i] = inbox[i]
        BY <1>1, <3>1, <4>1 DEF TypeOK
      <4> QED
        BY <4>2 DEF ToSet
    <3>2. CASE UNCHANGED inbox
      BY <3>2 DEF ToSet
    <3> QED
      BY <1>4, <3>1, <3>2 DEF Publish, HandlerCrash
  <2>4. \A g \in Handlers : g # h => handler'[g] = handler[g]
    BY <1>1, <2>1 DEF TypeOK
  <2>5. \A c : UnderWay(c) => UnderWay(c)' \/ Done(c)'
    BY <2>1, <2>2, <2>3, <2>4 DEF UnderWay, Done
  <2> QED
    BY <1>1, <1>2, <2>1, <2>5, StepKeepsAccounts DEF AccountInv, RecordedBeforeTold, At
<1>5. ASSUME UNCHANGED <<charged, handler, inbox>>,
             \A c : /\ worker \notin {Away, Idle} /\ worker.charge = c
                    => \/ worker' \notin {Away, Idle} /\ worker'.charge = c
                       \/ Done(c)'
      PROVE  EveryChargeAccounted'
  <2>1. \A c : UnderWay(c) => UnderWay(c)' \/ Done(c)'
    BY <1>5 DEF UnderWay
  <2> QED
    BY <1>1, <1>2, <1>5, <2>1, StepKeepsAccounts
<1>6. CASE Subscribe
  BY <1>5, <1>6 DEF Subscribe, AccountInv, RecordedBeforeTold, At
<1>7. CASE Receive
  <2>1. /\ inbox # <<>> /\ inbox' = Tail(inbox) /\ worker = Idle
        /\ worker' = [pc |-> "pay", charge |-> Head(inbox), tx |-> 0]
        /\ UNCHANGED <<charged, handler>>
    BY <1>7 DEF Receive
  <2>2. worker' \notin {Away, Idle} /\ worker'.charge = inbox[1]
    BY <1>1, <2>1, Inbox DEF Away, Idle
  <2>3. \A c \in ToSet(inbox) : c = inbox[1] \/ c \in ToSet(inbox)'
    <3> SUFFICES ASSUME NEW i \in DOMAIN inbox, i # 1
                 PROVE  \E j \in DOMAIN inbox' : inbox'[j] = inbox[i]
      BY DEF ToSet
    <3>1. i - 1 \in DOMAIN Tail(inbox) /\ (i - 1) + 1 = i
      BY <1>1, <2>1, Inbox
    <3> QED
      BY <1>1, <2>1, <3>1, Inbox
  <2>4. \A c : UnderWay(c) => UnderWay(c)' \/ Done(c)'
    BY <2>1, <2>2, <2>3 DEF UnderWay
  <2> QED
    BY <1>1, <1>2, <2>1, <2>4, StepKeepsAccounts DEF AccountInv, RecordedBeforeTold, At
<1>8. CASE FundSent \/ Record
  <2>1. worker \in Working /\ worker \notin {Away, Idle}
    BY <1>1, <1>8, BusyWorker DEF FundSent, Record, At
  <2>2. worker' \notin {Away, Idle} /\ worker'.charge = worker.charge
    BY <1>8, <2>1 DEF FundSent, Record, Working, Away, Idle
  <2>3. EveryChargeAccounted'
    BY <1>5, <1>8, <2>2 DEF FundSent, Record
  <2>4. RecordedBeforeTold'
    BY <1>8, <2>1 DEF FundSent, Record, RecordedBeforeTold, At, Working
  <2> QED
    BY <2>3, <2>4 DEF AccountInv
<1>9. CASE FundLost \/ FundDepleted \/ FundRefused
  <2>1. \A c : c = worker.charge => Done(c)'
    BY <1>9 DEF FundLost, FundDepleted, FundRefused, Mishap, Done
  <2>2. EveryChargeAccounted'
    BY <1>5, <1>9, <2>1 DEF FundLost, FundDepleted, FundRefused
  <2> QED
    BY <1>9, <2>2 DEF FundLost, FundDepleted, FundRefused, AccountInv, RecordedBeforeTold, At
<1>10. CASE Tell
  <2>1. At("tell") /\ worker.tx \in txrecs /\ funded[worker.tx] = worker.charge
    BY <1>1, <1>10 DEF Tell, RecordedBeforeTold, TypeInv, TxidOfCharge
  <2>2. \A c : c = worker.charge => Done(c)'
    BY <1>10, <2>1 DEF Tell, Done
  <2>3. EveryChargeAccounted'
    BY <1>5, <1>10, <2>2 DEF Tell
  <2> QED
    BY <1>10, <2>3 DEF Tell, AccountInv, RecordedBeforeTold, At
<1>11. CASE Crash
  <2>1. \A c : UnderWay(c) => UnderWay(c)' \/ Done(c)'
    BY <1>11 DEF Crash, Mishap, UnderWay, Done
  <2> QED
    BY <1>1, <1>2, <1>11, <2>1, StepKeepsAccounts DEF Crash, AccountInv, RecordedBeforeTold, At
<1>12. CASE Refill \/ UNCHANGED vars
  <2>1. UNCHANGED <<charged, handler, inbox, worker, txrecs>>
    BY <1>12 DEF Refill, vars
  <2> QED
    BY <1>1, <1>5, <2>1 DEF AccountInv, RecordedBeforeTold, At
<1> QED
  BY <1>3, <1>4, <1>6, <1>7, <1>8, <1>9, <1>10, <1>11, <1>12
     DEF Next, HandlerStep, WorkerStep

\* A charge that is not on its way has given its user coins, a record and a
\* notification, or the admins know, or a fault hit it.
THEOREM AllAccounted == Spec => []EveryChargeAccounted
<1>1. Spec => [](TypeInv /\ AccountInv)
  BY InitTypeInv, NextTypeInv, InitAccountInv, NextAccountInv, PTL DEF Spec
<1>2. AccountInv => EveryChargeAccounted
  BY DEF AccountInv
<1> QED
  BY <1>1, <1>2, PTL
=============================================================================
