-------------------------- MODULE TransactionRecords --------------------------
(***************************************************************************)
(* The table TipperBitcoinTransactions, which the app shows deposits from, *)
(* next to the fund worker of FundWorker.  Four writers share an item,     *)
(* each of which reads the transaction somewhere and then writes what it   *)
(* read (an update expression with SET: other attributes stay as they      *)
(* are):                                                                   *)
(*   - the fund worker, after it has paid (it also names the user paid),   *)
(*   - the wallet worker (lib/process_wallet_notify_worker.rb), for every  *)
(*     transaction that bitcoind announces,                                *)
(*   - each process of puma, when an app asks for a transaction            *)
(*     (Transaction.update_transaction, which adds the inputs and outputs),*)
(*   - each invocation of the Lambda function UpdateTransaction, which     *)
(*     knows of the transaction what bitcoin.toshi.io tells, and nothing   *)
(*     of its amount.                                                      *)
(* bitcoind announces a transaction when it accepts it and when it is in a *)
(* first block, and never again: confirmations beyond are known to nobody  *)
(* who does not ask.                                                       *)
(***************************************************************************)
EXTENDS FundWorker

CONSTANTS
  Invocations, \* of UpdateTransaction, at most so many at once
  MaxConfs,   \* bound: confirmations of a transaction
  MaxAsks,    \* bound: apps asking for a transaction
  MaxFaults   \* bound: lost announcements, failed writes, wallet worker crashes

ASSUME RecordsAssumption ==
  /\ {MaxConfs, MaxAsks, MaxFaults} \subseteq Nat
  /\ {"fund", "wallet"} \intersect (Handlers \union Invocations) = {}

VARIABLES
  confs,      \* confs[n]: the confirmations of transaction n in the chain
  record,     \* record[n]: the item of transaction n
  announced,  \* announcements on the wallet worker's connection, in order
  copy,       \* copy[w]: what writer w read and has not written yet
  asks,       \* how often an app asked
  faults,     \* how many faults there were
  excused     \* history: transactions with a missed, failed or raced update

recordVars == <<confs, record, announced, copy, asks, faults, excused>>
allVars == <<vars, recordVars>>

Asked == Handlers \union Invocations
Writers == {"fund", "wallet"} \union Asked
Parts == {"base", "to", "inputs"}

Unset == -1
NoItem == [confs |-> Unset, parts |-> {}]
Items == [confs : {Unset} \union 0 .. MaxConfs, parts : SUBSET Parts]

NoCopy == [tx |-> 0, confs |-> 0]
Copies == [tx : Charges, confs : 0 .. MaxConfs]
Holds(w, n) == copy[w].tx = n

Fault == faults < MaxFaults /\ faults' = faults + 1

-----------------------------------------------------------------------------
(* Reading and writing.                                                    *)

\* w learns that n has c confirmations.  With nobody else between its own read
\* and write of n, and a true answer, what was missed before is made up for.
Read(w, n, c) ==
  /\ copy[w] = NoCopy
  /\ copy' = [copy EXCEPT ![w] = [tx |-> n, confs |-> c]]
  /\ excused' = IF c < confs[n] \/ \E v \in Writers : Holds(v, n)
                  THEN excused \union {n}
                  ELSE excused \ {n}

\* Mutant of Put: the item is replaced (put_item instead of update_item).
PutReplaces(n, c, parts) ==
  record' = [record EXCEPT ![n] = [confs |-> c, parts |-> parts]]

\* Mutant of Put: confirmations are set once (if_not_exists).
PutConfsOnce(n, c, parts) ==
  record' = [record EXCEPT ![n] =
    [confs |-> IF @.confs = Unset THEN c ELSE @.confs, parts |-> @.parts \union parts]]

\* db.update_item: the attributes given are set, the others stay.
Put(n, c, parts) ==
  record' = [record EXCEPT ![n] = [confs |-> c, parts |-> @.parts \union parts]]

\* w writes what it read, and parts of the item with it.
Write(w, parts) ==
  /\ copy[w] # NoCopy
  /\ Put(copy[w].tx, copy[w].confs, parts)
  /\ copy' = [copy EXCEPT ![w] = NoCopy]
  /\ UNCHANGED <<confs, announced, asks, faults, excused>>

\* What w was about to write is lost.
Forget(w) ==
  /\ copy' = [copy EXCEPT ![w] = NoCopy]
  /\ excused' = excused \union (IF copy[w] = NoCopy THEN {} ELSE {copy[w].tx})

-----------------------------------------------------------------------------
(* The chain.                                                              *)

\* -walletnotify: Redis drops the message when the wallet worker is away.
Announce(n) ==
  \/ /\ announced' = Append(announced, n)
     /\ UNCHANGED <<faults, excused>>
  \/ /\ Fault
     /\ excused' = excused \union {n}
     /\ UNCHANGED announced

\* The fund worker's payment is accepted by bitcoind.
Accept ==
  /\ FundSent \/ FundLost
  /\ Announce(Len(funded) + 1)
  /\ UNCHANGED <<confs, record, copy, asks>>

\* A block on top of n, announced when it is the one that takes n.
Block(n) ==
  /\ n \in DOMAIN funded
  /\ confs[n] < MaxConfs
  /\ confs' = [confs EXCEPT ![n] = @ + 1]
  /\ IF confs[n] = 0 THEN Announce(n) ELSE UNCHANGED <<announced, faults, excused>>
  /\ UNCHANGED <<vars, record, copy, asks>>

-----------------------------------------------------------------------------
(* The writers.                                                            *)

\* The fund worker: gettransaction, then Transaction.create with the user.
FundReads ==
  /\ At("record")
  /\ Read("fund", worker.tx, confs[worker.tx])
  /\ UNCHANGED <<vars, confs, record, announced, asks, faults>>

FundRecords == Write("fund", {"base", "to"}) /\ Record

FundCrashes ==
  /\ Crash
  /\ Forget("fund")
  /\ UNCHANGED <<confs, record, announced, asks, faults>>

\* Mutant of WalletReads: a transaction with an item is taken for an old one.
WalletReadsNew ==
  /\ announced # <<>>
  /\ announced' = Tail(announced)
  /\ IF record[Head(announced)] = NoItem
       THEN Read("wallet", Head(announced), confs[Head(announced)])
       ELSE copy["wallet"] = NoCopy /\ UNCHANGED <<copy, excused>>
  /\ UNCHANGED <<vars, confs, record, asks, faults>>

\* The wallet worker: an announcement, and gettransaction.
WalletReads ==
  /\ announced # <<>>
  /\ announced' = Tail(announced)
  /\ Read("wallet", Head(announced), confs[Head(announced)])
  /\ UNCHANGED <<vars, confs, record, asks, faults>>

\* Transaction.create without users.  (The admins are told; the balances that
\* are refreshed next are BalanceCache's.)
WalletRecords == Write("wallet", {"base"}) /\ UNCHANGED vars

\* Its connection goes with it.
WalletCrashes ==
  /\ copy["wallet"] # NoCopy \/ announced # <<>>
  /\ Fault
  /\ copy' = [copy EXCEPT !["wallet"] = NoCopy]
  /\ announced' = <<>>
  /\ excused' = excused \union ToSet(announced)
                \union (IF copy["wallet"] = NoCopy THEN {} ELSE {copy["wallet"].tx})
  /\ UNCHANGED <<vars, confs, record, asks>>

\* An app asks for a transaction, by its txid, which everybody can know.
Ask(n) ==
  /\ n \in DOMAIN funded
  /\ asks < MaxAsks
  /\ asks' = asks + 1

\* puma: gettransaction, and Blockchain::get_tx for the inputs and outputs.
\* When either raises, the request ends there.
WebReads(h, n) ==
  /\ Ask(n)
  /\ Read(h, n, confs[n])
  /\ UNCHANGED <<vars, confs, record, announced, faults>>

WebRecords(h) == Write(h, {"base", "inputs"}) /\ UNCHANGED vars

\* UpdateTransaction: toshi's node may be behind.  When it does not know the
\* transaction, or the answer is no JSON, the invocation dies having done nothing.
LambdaReads(i, n) ==
  /\ Ask(n)
  /\ \E c \in 0 .. confs[n] : Read(i, n, c)
  /\ UNCHANGED <<vars, confs, record, announced, faults>>

\* updateTransaction, which then answers with the item as it reads it.  (It writes
\* the confirmations as a string, and the others as a number: the item says the
\* same number.)
LambdaRecords(i) == Write(i, {"inputs"}) /\ UNCHANGED vars

\* docClient.update or update_item fails: the invocation dies on data being
\* null, and the request with an exception.
WriteFails(w) ==
  /\ copy[w] # NoCopy
  /\ Fault
  /\ Forget(w)
  /\ UNCHANGED <<vars, confs, record, announced, asks>>

-----------------------------------------------------------------------------
RecordsInit ==
  /\ Init
  /\ confs = [n \in Charges |-> 0]
  /\ record = [n \in Charges |-> NoItem]
  /\ announced = <<>>
  /\ copy = [w \in Writers |-> NoCopy]
  /\ asks = 0 /\ faults = 0 /\ excused = {}

\* Steps of FundWorker that the table is not concerned with.
Elsewhere ==
  /\ \/ \E h \in Handlers : HandlerStep(h)
     \/ Subscribe \/ Receive \/ FundDepleted \/ Tell
     \/ FundRefused \/ Refill
  /\ UNCHANGED recordVars

RecordsNext ==
  \/ Elsewhere
  \/ Accept \/ FundReads \/ FundRecords \/ FundCrashes
  \/ WalletReads \/ WalletRecords \/ WalletCrashes
  \/ \E n \in Charges : Block(n)
  \/ \E h \in Handlers : WebRecords(h) \/ \E n \in Charges : WebReads(h, n)
  \/ \E i \in Invocations : LambdaRecords(i) \/ \E n \in Charges : LambdaReads(i, n)
  \/ \E w \in Asked : WriteFails(w)

RecordsSpec == RecordsInit /\ [][RecordsNext]_allVars

\* As in FundWorker; the wallet worker handles its messages, and who has read a
\* transaction writes it or fails.  Nobody need ask, and no block need come.
RecordsFairness ==
  /\ \A h \in Handlers :
       WF_allVars((Publish(h) \/ HandlerCrash(h)) /\ UNCHANGED recordVars)
  /\ WF_allVars(\/ (Subscribe \/ Receive \/ FundDepleted \/ Tell) /\ UNCHANGED recordVars
                \/ Accept \/ FundReads \/ FundRecords)
  /\ WF_allVars(WalletReads \/ WalletRecords)
  /\ \A h \in Handlers : WF_allVars(WebRecords(h))
  /\ \A i \in Invocations : WF_allVars(LambdaRecords(i))

RecordsFairSpec == RecordsSpec /\ RecordsFairness

-----------------------------------------------------------------------------
(* Properties.                                                             *)

RecordsTypeOK ==
  /\ TypeOK
  /\ confs \in [Charges -> 0 .. MaxConfs]
  /\ record \in [Charges -> Items]
  /\ announced \in Seq(Charges)
  /\ copy \in [Writers -> Copies \union {NoCopy}]
  /\ asks \in 0 .. MaxAsks /\ faults \in 0 .. MaxFaults
  /\ excused \subseteq Charges
  /\ copy["fund"] # NoCopy => At("record") /\ copy["fund"].tx = worker.tx

\* Who was told of a deposit finds an item with its amount and with them as the
\* one it was paid to, whoever wrote to the item before and after: also when an
\* app asked for the transaction before the fund worker recorded it, so that the
\* item began without an amount.
ToldDepositsNamed ==
  \A c \in notes :
    \E n \in DOMAIN funded : funded[n] = c /\ {"base", "to"} \subseteq record[n].parts

\* An update of n's item is on its way.
Pending(n) ==
  \/ n \in ToSet(announced)
  \/ \E w \in Writers : Holds(w, n)

\* An item never claims more confirmations than there are, and one that claims
\* none for a transaction in a block is about to be updated, or there is a known
\* cause since the last undisturbed reading of the transaction: an announcement,
\* a write or a process was lost, toshi was behind, or two writers overlapped.
ConfirmationsExplained ==
  \A n \in Charges :
    /\ record[n].confs <= confs[n]
    /\ record[n].confs = 0 /\ confs[n] > 0 => Pending(n) \/ n \in excused

\* Without such a cause an item says at last, and from then on, that its
\* transaction is in a block.
ConfirmedAtLast ==
  \A n \in Charges :
    <>[](record[n].confs = 0 /\ confs[n] > 0 => n \in excused)
=============================================================================
