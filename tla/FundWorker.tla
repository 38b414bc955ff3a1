------------------------------ MODULE FundWorker ------------------------------
(***************************************************************************)
(* From a card payment to coins: ChargesController charges the card at     *)
(* Stripe and publishes "fund_event" on Redis; the fund worker             *)
(* (lib/process_fund_worker.rb) is subscribed to that channel and pays the *)
(* user from the reserves.                                                 *)
(*                                                                         *)
(* Redis publish/subscribe keeps nothing: a message reaches the worker     *)
(* only while it is connected, and what it has not handled dies with it.   *)
(***************************************************************************)
EXTENDS Integers, Sequences, FiniteSets, SequencesExt

CONSTANTS
  Handlers,     \* the processes of puma that serve requests
  MaxCharges,   \* bound: charges made
  Deposits      \* how many deposits the reserves can pay at the start

ASSUME FundAssumption == {MaxCharges, Deposits} \subseteq Nat

VARIABLES
  charged,    \* the number of charges made; a charge is its number
  handler,    \* handler[h]: the charge that h has made and not yet published
  inbox,      \* published charges on the worker's connection, in order
  worker,     \* the charge the worker is processing, and where it is
  reserves,   \* how many more deposits the reserves can pay
  funded,     \* the deposits bitcoind broadcast; a txid is an index
  txrecs,     \* the txids that TipperBitcoinTransactions has an item for
  notes,      \* charges whose user has a fund_event notification
  depleted,   \* charges for which the admins were told of empty reserves
  mishaps     \* charges that met a fault

vars == <<charged, handler, inbox, worker, reserves, funded, txrecs, notes,
          depleted, mishaps>>

Charges == 1 .. MaxCharges

\* The worker is away between a crash and its next subscription; "pay" is
\* before B.fundUser, "record" and "tell" after it returned a txid.
Away == [pc |-> "away"]
Idle == [pc |-> "idle"]
Working == [pc : {"pay", "record", "tell"}, charge : Charges, tx : Nat]

NoCharge == 0

At(pc) == worker \notin {Away, Idle} /\ worker.pc = pc

\* These charges are hit by a fault now.
Mishap(cs) == mishaps' = mishaps \union cs

-----------------------------------------------------------------------------
(* ChargesController.                                                      *)

\* Stripe::Charge.create succeeds.  (When it fails the request ends there.)
Charge(h) ==
  /\ handler[h] = NoCharge
  /\ charged < MaxCharges
  /\ charged' = charged + 1
  /\ handler' = [handler EXCEPT ![h] = charged + 1]
  /\ UNCHANGED <<inbox, worker, reserves, funded, txrecs, notes, depleted, mishaps>>

\* fund_account: nobody hears it while the worker is away.
Publish(h) ==
  /\ handler[h] # NoCharge
  /\ handler' = [handler EXCEPT ![h] = NoCharge]
  /\ \/ /\ worker # Away
        /\ inbox' = Append(inbox, handler[h])
        /\ UNCHANGED mishaps
     \/ /\ worker = Away
        /\ Mishap({handler[h]})
        /\ UNCHANGED inbox
  /\ UNCHANGED <<charged, worker, reserves, funded, txrecs, notes, depleted>>

\* The process dies, or the publish raises, after the card was charged.
HandlerCrash(h) ==
  /\ handler[h] # NoCharge
  /\ Mishap({handler[h]})
  /\ handler' = [handler EXCEPT ![h] = NoCharge]
  /\ UNCHANGED <<charged, inbox, worker, reserves, funded, txrecs, notes, depleted>>

-----------------------------------------------------------------------------
(* The fund worker.                                                        *)

\* The process has started and is subscribed.
Subscribe ==
  /\ worker = Away
  /\ worker' = Idle
  /\ UNCHANGED <<charged, handler, inbox, reserves, funded, txrecs, notes,
                 depleted, mishaps>>

\* Mutant of Receive: the message stays at the head of the connection.
ReceiveKeeps ==
  /\ worker = Idle
  /\ inbox # <<>>
  /\ worker' = [pc |-> "pay", charge |-> Head(inbox), tx |-> 0]
  /\ UNCHANGED <<charged, handler, inbox, reserves, funded, txrecs, notes,
                 depleted, mishaps>>

\* The message handler of the subscription is called.
Receive ==
  /\ worker = Idle
  /\ inbox # <<>>
  /\ worker' = [pc |-> "pay", charge |-> Head(inbox), tx |-> 0]
  /\ inbox' = Tail(inbox)
  /\ UNCHANGED <<charged, handler, reserves, funded, txrecs, notes, depleted, mishaps>>

\* The reserves pay, in one transaction.
FromReserves ==
  /\ reserves > 0
  /\ reserves' = reserves - 1
  /\ funded' = Append(funded, worker.charge)

\* B.fundUser returns the txid.
FundSent ==
  /\ At("pay")
  /\ FromReserves
  /\ worker' = [worker EXCEPT !.pc = "record", !.tx = Len(funded) + 1]
  /\ UNCHANGED <<charged, handler, inbox, txrecs, notes, depleted, mishaps>>

\* The transaction is broadcast but the answer is lost: fundUser returns nil.
FundLost ==
  /\ At("pay")
  /\ FromReserves
  /\ Mishap({worker.charge})
  /\ worker' = Idle
  /\ UNCHANGED <<charged, handler, inbox, txrecs, notes, depleted>>

\* Mutant of FundDepleted: nobody is told.
FundDepletedSilent ==
  /\ At("pay")
  /\ reserves = 0
  /\ worker' = Idle
  /\ UNCHANGED <<charged, handler, inbox, reserves, funded, txrecs, notes,
                 depleted, mishaps>>

\* Mutant of FundDepleted: the message is put back and handled again.
FundDepletedRequeues ==
  /\ At("pay")
  /\ reserves = 0
  /\ depleted' = depleted \union {worker.charge}
  /\ inbox' = Append(inbox, worker.charge)
  /\ worker' = Idle
  /\ UNCHANGED <<charged, handler, reserves, funded, txrecs, notes, mishaps>>

\* The reserves are short: the admins are told and fundUser returns nil, upon
\* which fund_user does nothing ("do not delete message on failure").
FundDepleted ==
  /\ At("pay")
  /\ reserves = 0
  /\ depleted' = depleted \union {worker.charge}
  /\ worker' = Idle
  /\ UNCHANGED <<charged, handler, inbox, reserves, funded, txrecs, notes, mishaps>>

\* An RPC raises before the broadcast: fundUser rescues it and returns nil.
FundRefused ==
  /\ At("pay")
  /\ Mishap({worker.charge})
  /\ worker' = Idle
  /\ UNCHANGED <<charged, handler, inbox, reserves, funded, txrecs, notes, depleted>>

\* Mutant of Record: the number of the next transaction.
RecordOffByOne ==
  /\ At("record")
  /\ txrecs' = txrecs \union {worker.tx + 1}
  /\ worker' = [worker EXCEPT !.pc = "tell"]
  /\ UNCHANGED <<charged, handler, inbox, reserves, funded, notes, depleted, mishaps>>

\* Transaction.create.
Record ==
  /\ At("record")
  /\ txrecs' = txrecs \union {worker.tx}
  /\ worker' = [worker EXCEPT !.pc = "tell"]
  /\ UNCHANGED <<charged, handler, inbox, reserves, funded, notes, depleted, mishaps>>

\* NotifyUser.notify_fund_event, and the message is done.
Tell ==
  /\ At("tell")
  /\ notes' = notes \union {worker.charge}
  /\ worker' = Idle
  /\ UNCHANGED <<charged, handler, inbox, reserves, funded, txrecs, depleted, mishaps>>

\* The process dies, with the connection and what waits on it.
Crash ==
  /\ worker # Away
  /\ Mishap(ToSet(inbox) \union
            (IF worker = Idle THEN {} ELSE {worker.charge}))
  /\ worker' = Away
  /\ inbox' = <<>>
  /\ UNCHANGED <<charged, handler, reserves, funded, txrecs, notes, depleted>>

\* The admins refill the reserves.
Refill ==
  /\ reserves < Deposits
  /\ depleted # {}
  /\ reserves' = reserves + 1
  /\ UNCHANGED <<charged, handler, inbox, worker, funded, txrecs, notes,
                 depleted, mishaps>>

-----------------------------------------------------------------------------
Init ==
  /\ charged = 0
  /\ handler = [h \in Handlers |-> NoCharge]
  /\ inbox = <<>>
  /\ worker = Away
  /\ reserves = Deposits
  /\ funded = <<>> /\ txrecs = {} /\ notes = {}
  /\ depleted = {} /\ mishaps = {}

HandlerStep(h) == Charge(h) \/ Publish(h) \/ HandlerCrash(h)

\* What the worker does when nothing fails.
WorkerStep == Subscribe \/ Receive \/ FundSent \/ FundDepleted \/ Record \/ Tell

Next ==
  \/ \E h \in Handlers : HandlerStep(h)
  \/ WorkerStep
  \/ FundLost \/ FundRefused \/ Crash
  \/ Refill

\* A request that charged goes on; eye keeps the worker running.
Fairness ==
  /\ \A h \in Handlers : WF_vars(Publish(h) \/ HandlerCrash(h))
  /\ WF_vars(WorkerStep)

Spec == Init /\ [][Next]_vars

FairSpec == Spec /\ Fairness

-----------------------------------------------------------------------------
(* Properties.                                                             *)

TypeOK ==
  /\ charged \in 0 .. MaxCharges
  /\ handler \in [Handlers -> Charges \union {NoCharge}]
  /\ inbox \in Seq(Charges)
  /\ worker \in {Away, Idle} \union Working
  /\ reserves \in 0 .. Deposits
  /\ funded \in Seq(Charges)
  /\ txrecs \subseteq DOMAIN funded
  /\ notes \subseteq Charges
  /\ depleted \subseteq Charges
  /\ mishaps \subseteq Charges

\* One charge of the card pays out at most once, and nothing pays out that was
\* not charged: a message that was handled cannot come back.
FundedOncePerCharge ==
  /\ \A i, j \in DOMAIN funded : i # j => funded[i] # funded[j]
  /\ \A i \in DOMAIN funded : funded[i] <= charged

\* The charge is on its way: not published, not handled, or being handled.
UnderWay(c) ==
  \/ \E h \in Handlers : handler[h] = c
  \/ c \in ToSet(inbox)
  \/ worker \notin {Away, Idle} /\ worker.charge = c

\* Every charge is accounted for: it is on its way, its user has coins, a record
\* and a notification, the admins know of the empty reserves, or it was hit by a
\* fault.  In particular the worker gives up a charge by itself only for want of
\* reserves, and tells.
EveryChargeAccounted ==
  \A c \in 1 .. charged :
    \/ UnderWay(c)
    \/ /\ c \in notes
       /\ \E n \in txrecs : funded[n] = c
    \/ c \in depleted
    \/ c \in mishaps

\* A charge is on its way only for so long.
EveryChargeSettles ==
  \A c \in Charges : (c <= charged) ~> ~UnderWay(c)

\* The comment in fund_user, "do not delete message on failure": a charge that
\* is not paid out because the reserves are short is kept to be tried again.
FailedStaysQueued ==
  [][\A c \in depleted' \ depleted : UnderWay(c)']_vars
=============================================================================
