---------------------- MODULE TransactionRecords_proofs -----------------------
(***************************************************************************)
(* Proofs about TransactionRecords, for any number of web processes,       *)
(* charges, deposits, confirmations, requests and faults: the fund worker  *)
(* inside is that of FundWorker, an item is never robbed of the user it    *)
(* names, and an item that claims no confirmations for a transaction in a  *)
(* block has a cause.                                                      *)
(***************************************************************************)
EXTENDS TransactionRecords, FundWorker_proofs, FiniteSetTheorems

-----------------------------------------------------------------------------
(* The fund worker inside.                                                 *)

\* Every step is a step of FundWorker or leaves its variables alone.
LEMMA StepOfFundWorker == [RecordsNext]_allVars => [Next]_vars
<1>1. Elsewhere => Next
  BY DEF Elsewhere, Next, WorkerStep
<1>2. Accept \/ FundRecords \/ FundCrashes => Next
  BY DEF Accept, FundRecords, FundCrashes, Next, WorkerStep
<1>3. \A n \in Charges : Block(n) \/ (\E w : WebReads(w, n) \/ LambdaReads(w, n)) => UNCHANGED vars
  BY DEF Block, WebReads, LambdaReads
<1>4. \/ FundReads \/ WalletReads \/ WalletRecords \/ WalletCrashes
      \/ \E w : WebRecords(w) \/ LambdaRecords(w)
      => UNCHANGED vars
  BY DEF FundReads, WalletReads, WalletRecords, WalletCrashes, WebRecords, LambdaRecords
<1>5. \A w : WriteFails(w) => UNCHANGED vars
  BY DEF WriteFails
<1> QED
  BY <1>1, <1>2, <1>3, <1>4, <1>5 DEF RecordsNext, allVars

\* Next to the other writers the fund worker behaves as FundWorker says, so that
\* what holds there holds here.
THEOREM FundWorkerInside == RecordsSpec => Spec
<1>1. RecordsInit => Init
  BY DEF RecordsInit
<1> QED
  BY <1>1, StepOfFundWorker, PTL DEF RecordsSpec, Spec

\* There are not more transactions than charges.
LEMMA TxidsAreBounded == TypeOK /\ FundedOncePerCharge => DOMAIN funded \subseteq Charges
<1> SUFFICES ASSUME TypeOK, FundedOncePerCharge PROVE DOMAIN funded \subseteq Charges
  OBVIOUS
<1> DEFINE n == Len(funded)
<1>1. n \in Nat /\ DOMAIN funded = 1 .. n /\ funded \in [1 .. n -> Charges]
  BY DEF TypeOK
<1>2. funded \in Injection(1 .. n, Charges)
  <2>1. \A i, j \in 1 .. n : funded[i] = funded[j] => i = j
    BY <1>1 DEF FundedOncePerCharge
  <2> QED
    BY <1>1, <2>1 DEF Injection, IsInjective
<1>3. MaxCharges \in Nat
  BY FundAssumption
<1>4. IsFiniteSet(1 .. n) /\ Cardinality(1 .. n) = n
  BY <1>1, FS_Interval
<1>5. IsFiniteSet(Charges) /\ Cardinality(Charges) = MaxCharges
  BY <1>3, FS_Interval DEF Charges
<1>6. Cardinality(1 .. n) <= Cardinality(Charges)
  BY <1>2, <1>5, FS_Injection
<1> HIDE DEF n
<1>7. n <= MaxCharges
  BY <1>4, <1>5, <1>6
<1>8. 1 .. n \subseteq 1 .. MaxCharges
  BY <1>1, <1>3, <1>7
<1> QED
  BY <1>1, <1>8 DEF Charges

\* Nor will there be.
LEMMA TxidsStayBounded == TypeOK' /\ FundedOncePerCharge' => (DOMAIN funded \subseteq Charges)'
BY TxidsAreBounded, PTL

-----------------------------------------------------------------------------
(* Type correctness.                                                       *)

RecordTypes ==
  /\ confs \in [Charges -> 0 .. MaxConfs]
  /\ record \in [Charges -> Items]
  /\ announced \in Seq(Charges)
  /\ copy \in [Writers -> Copies \union {NoCopy}]
  /\ asks \in 0 .. MaxAsks /\ faults \in 0 .. MaxFaults
  /\ excused \subseteq Charges

\* The fund worker holds a copy only of the transaction that it is to record.
FundCopy == copy["fund"] # NoCopy => At("record") /\ copy["fund"].tx = worker.tx

\* Reading keeps the types.
LEMMA ReadTypes ==
  ASSUME RecordTypes, NEW w \in Writers, NEW n \in Charges, NEW c \in 0 .. confs[n], Read(w, n, c)
  PROVE  /\ copy' \in [Writers -> Copies \union {NoCopy}]
         /\ copy' = [copy EXCEPT ![w] = [tx |-> n, confs |-> c]]
         /\ excused' \subseteq Charges
<1>1. confs[n] \in 0 .. MaxConfs
  BY DEF RecordTypes
<1>2. c \in 0 .. MaxConfs
  BY <1>1, RecordsAssumption
<1>3. [tx |-> n, confs |-> c] \in Copies
  BY <1>2 DEF Copies
<1>4. excused' \subseteq Charges
  BY DEF Read, RecordTypes
<1> QED
  BY <1>3, <1>4 DEF Read, RecordTypes

\* So does writing.
LEMMA WriteTypes ==
  ASSUME RecordTypes, NEW w \in Writers, NEW parts \in SUBSET Parts, Write(w, parts)
  PROVE  /\ RecordTypes'
         /\ copy[w] \in Copies
         /\ copy' = [copy EXCEPT ![w] = NoCopy]
         /\ record'[copy[w].tx] = [confs |-> copy[w].confs, parts |-> record[copy[w].tx].parts \union parts]
         /\ \A n \in Charges : n # copy[w].tx => record'[n] = record[n]
<1>1. copy[w] \in Copies /\ copy[w].tx \in Charges /\ copy[w].confs \in 0 .. MaxConfs
  BY DEF Write, RecordTypes, Copies
<1>2. record' = [record EXCEPT ![copy[w].tx] =
                   [confs |-> copy[w].confs, parts |-> record[copy[w].tx].parts \union parts]]
  BY DEF Write, Put
<1>3. record[copy[w].tx].parts \in SUBSET Parts
  BY <1>1 DEF RecordTypes, Items
<1>4. [confs |-> copy[w].confs, parts |-> record[copy[w].tx].parts \union parts] \in Items
  BY <1>1, <1>3 DEF Items
<1>5. record' \in [Charges -> Items]
  BY <1>2, <1>4 DEF RecordTypes
<1>6. copy' = [copy EXCEPT ![w] = NoCopy] /\ copy' \in [Writers -> Copies \union {NoCopy}]
  BY DEF Write, RecordTypes
<1>7. RecordTypes'
  BY <1>5, <1>6 DEF Write, RecordTypes
<1> QED
  BY <1>1, <1>2, <1>6, <1>7 DEF RecordTypes

\* An announcement, or its loss.
LEMMA AnnounceTypes ==
  ASSUME RecordTypes, NEW n \in Charges, Announce(n)
  PROVE  /\ announced' \in Seq(Charges) /\ faults' \in 0 .. MaxFaults /\ excused' \subseteq Charges
         /\ ToSet(announced) \subseteq ToSet(announced') /\ excused \subseteq excused'
         /\ n \in ToSet(announced') \/ n \in excused'
<1>1. announced \in Seq(Charges)
  BY DEF RecordTypes
<1>2. CASE announced' = Append(announced, n) /\ UNCHANGED <<faults, excused>>
  <2>1. /\ announced' \in Seq(Charges) /\ Len(announced) \in Nat
        /\ DOMAIN announced = 1 .. Len(announced) /\ DOMAIN announced' = 1 .. Len(announced) + 1
        /\ announced'[Len(announced) + 1] = n
        /\ \A i \in DOMAIN announced : announced'[i] = announced[i]
    BY <1>1, <1>2
  <2>2. ToSet(announced) \subseteq ToSet(announced') /\ n \in ToSet(announced')
    BY <2>1 DEF ToSet
  <2> QED
    BY <1>2, <2>1, <2>2 DEF RecordTypes
<1>3. CASE Fault /\ excused' = excused \union {n} /\ UNCHANGED announced
  <2>1. faults' \in 0 .. MaxFaults
    BY <1>3, RecordsAssumption DEF Fault, RecordTypes
  <2> QED
    BY <1>1, <1>3, <2>1 DEF RecordTypes
<1> QED
  BY <1>2, <1>3 DEF Announce

\* The head of the wallet worker's connection, and what is behind it.
LEMMA AnnouncedFirst ==
  ASSUME RecordTypes, announced # <<>>
  PROVE  /\ Head(announced) \in Charges /\ Tail(announced) \in Seq(Charges)
         /\ \A n : n \in ToSet(announced) => n = Head(announced) \/ n \in ToSet(Tail(announced))
<1>1. announced \in Seq(Charges) /\ Len(announced) \in Nat /\ Len(announced) > 0
  BY DEF RecordTypes
<1>2. /\ Head(announced) = announced[1] /\ Head(announced) \in Charges
      /\ Tail(announced) \in Seq(Charges)
      /\ DOMAIN announced = 1 .. Len(announced) /\ DOMAIN Tail(announced) = 1 .. Len(announced) - 1
      /\ \A i \in DOMAIN Tail(announced) : Tail(announced)[i] = announced[i + 1]
  BY <1>1
<1>3. ASSUME NEW i \in DOMAIN announced, i # 1
      PROVE  i - 1 \in DOMAIN Tail(announced) /\ Tail(announced)[i - 1] = announced[i]
  BY <1>1, <1>2, <1>3
<1>4. ASSUME NEW n \in ToSet(announced)
      PROVE  n = Head(announced) \/ n \in ToSet(Tail(announced))
  <2>1. PICK i \in DOMAIN announced : n = announced[i]
    BY DEF ToSet
  <2>2. CASE i = 1
    BY <1>2, <2>1, <2>2
  <2>3. CASE i # 1
    BY <1>3, <2>1, <2>3 DEF ToSet
  <2> QED
    BY <2>2, <2>3
<1> QED
  BY <1>2, <1>4

\* Giving up keeps the types.
LEMMA ForgetTypes ==
  ASSUME RecordTypes, NEW w \in Writers, Forget(w)
  PROVE  /\ copy' \in [Writers -> Copies \union {NoCopy}]
         /\ copy' = [copy EXCEPT ![w] = NoCopy]
         /\ excused' \subseteq Charges /\ excused \subseteq excused'
         /\ copy[w] # NoCopy => copy[w].tx \in excused'
BY DEF Forget, RecordTypes, Copies

\* A fault is counted.
LEMMA FaultTypes ==
  ASSUME RecordTypes, Fault
  PROVE  faults' \in 0 .. MaxFaults
BY RecordsAssumption DEF Fault, RecordTypes

\* So is an app's request.
LEMMA AskTypes ==
  ASSUME RecordTypes, NEW n, Ask(n)
  PROVE  asks' \in 0 .. MaxAsks
BY RecordsAssumption DEF Ask, RecordTypes

\* At the start nothing is recorded.
LEMMA InitRecordTypes == RecordsInit => RecordTypes /\ FundCopy
BY RecordsAssumption DEF RecordsInit, RecordTypes, FundCopy, Items, NoItem, Unset, NoCopy, Writers

\* Every step keeps the types of the table and its writers.
LEMMA NextRecordTypes ==
  TypeInv /\ FundedOncePerCharge /\ FundedOncePerCharge' /\ RecordTypes /\ FundCopy
    /\ [RecordsNext]_allVars => RecordTypes' /\ FundCopy'
<1> SUFFICES ASSUME TypeInv, FundedOncePerCharge, FundedOncePerCharge', RecordTypes, FundCopy,
                    [RecordsNext]_allVars
             PROVE  RecordTypes' /\ FundCopy'
  OBVIOUS
<1>1. TypeOK /\ TypeOK' /\ TxidOfCharge /\ DOMAIN funded \subseteq Charges
  BY StepOfFundWorker, NextTypeInv, TxidsAreBounded DEF TypeInv
<1>2. /\ confs \in [Charges -> 0 .. MaxConfs] /\ copy \in [Writers -> Copies \union {NoCopy}]
      /\ {"fund", "wallet"} \subseteq Writers /\ Asked \subseteq Writers
      /\ Handlers \union Invocations = Asked /\ "fund" \notin Asked
  BY RecordsAssumption DEF RecordTypes, Writers, Asked
<1>3. ASSUME UNCHANGED <<copy, worker>> PROVE FundCopy'
  BY <1>3 DEF FundCopy, At
<1>4. ASSUME copy'["fund"] = copy["fund"], UNCHANGED vars PROVE FundCopy'
  BY <1>4 DEF FundCopy, At, vars
<1>5. CASE Elsewhere
  <2>1. RecordTypes'
    BY <1>5 DEF Elsewhere, recordVars, RecordTypes
  <2>2. copy' = copy
    BY <1>5 DEF Elsewhere, recordVars
  <2>3. worker' = worker \/ ~ At("record")
    BY <1>5 DEF Elsewhere, HandlerStep, Charge, Publish, HandlerCrash, Subscribe, Receive,
                FundDepleted, Tell, FundRefused, Refill, At
  <2> QED
    BY <1>3, <2>1, <2>2, <2>3 DEF FundCopy
<1>6. CASE Accept
  <2>1. At("pay") /\ FromReserves /\ worker.charge \in Charges
    BY <1>1, <1>6, BusyWorker DEF Accept, FundSent, FundLost, At
  <2>2. Len(funded) + 1 \in DOMAIN funded'
    BY <1>1, <2>1, FundedAppended DEF FromReserves
  <2>3. Len(funded) + 1 \in Charges
    BY <1>1, <2>2, TxidsStayBounded
  <2>4. announced' \in Seq(Charges) /\ faults' \in 0 .. MaxFaults /\ excused' \subseteq Charges
    BY <1>6, <2>3, AnnounceTypes DEF Accept
  <2>5. RecordTypes'
    BY <1>6, <2>4 DEF Accept, RecordTypes
  <2>6. copy["fund"] = NoCopy /\ copy' = copy
    BY <1>6, <2>1 DEF Accept, FundCopy, At
  <2> QED
    BY <2>5, <2>6 DEF FundCopy
<1>7. ASSUME NEW n \in Charges, Block(n) PROVE RecordTypes' /\ FundCopy'
  <2>1. confs' = [confs EXCEPT ![n] = confs[n] + 1] /\ confs[n] < MaxConfs
    BY <1>7 DEF Block
  <2>2. confs' \in [Charges -> 0 .. MaxConfs]
    BY <1>2, <2>1, RecordsAssumption
  <2>3. announced' \in Seq(Charges) /\ faults' \in 0 .. MaxFaults /\ excused' \subseteq Charges
    BY <1>7, AnnounceTypes DEF Block, RecordTypes
  <2>4. RecordTypes'
    BY <1>7, <2>2, <2>3 DEF Block, RecordTypes
  <2> QED
    BY <1>4, <1>7, <2>4 DEF Block
<1>8. ASSUME NEW n \in Charges PROVE confs[n] \in 0 .. confs[n]
  BY <1>2, RecordsAssumption
<1>9. CASE FundReads
  <2>1. At("record") /\ worker.tx \in Charges /\ Read("fund", worker.tx, confs[worker.tx])
    BY <1>1, <1>9 DEF FundReads, TxidOfCharge
  <2>2. /\ copy' \in [Writers -> Copies \union {NoCopy}] /\ excused' \subseteq Charges
        /\ copy' = [copy EXCEPT !["fund"] = [tx |-> worker.tx, confs |-> confs[worker.tx]]]
    BY <1>2, <1>8, <2>1, ReadTypes
  <2>3. RecordTypes'
    BY <1>9, <2>2 DEF FundReads, RecordTypes
  <2>4. copy'["fund"].tx = worker.tx
    BY <1>2, <2>2
  <2> QED
    BY <1>9, <2>1, <2>3, <2>4 DEF FundReads, FundCopy, At, vars
<1>10. CASE FundRecords
  <2>1. {"base", "to"} \in SUBSET Parts
    BY DEF Parts
  <2>2. RecordTypes' /\ copy' = [copy EXCEPT !["fund"] = NoCopy]
    BY <1>2, <1>10, <2>1, WriteTypes DEF FundRecords
  <2>3. copy'["fund"] = NoCopy
    BY <1>2, <2>2
  <2> QED
    BY <2>2, <2>3 DEF FundCopy
<1>11. CASE FundCrashes
  <2>1. /\ copy' \in [Writers -> Copies \union {NoCopy}] /\ excused' \subseteq Charges
        /\ copy' = [copy EXCEPT !["fund"] = NoCopy]
    BY <1>2, <1>11, ForgetTypes DEF FundCrashes
  <2>2. RecordTypes' /\ copy'["fund"] = NoCopy
    BY <1>2, <1>11, <2>1 DEF FundCrashes, RecordTypes
  <2> QED
    BY <2>2 DEF FundCopy
<1>12. CASE WalletReads
  <2> DEFINE n == Head(announced)
  <2>1. n \in Charges /\ Tail(announced) \in Seq(Charges)
    BY <1>12, AnnouncedFirst DEF WalletReads
  <2>2. /\ copy' \in [Writers -> Copies \union {NoCopy}] /\ excused' \subseteq Charges
        /\ copy' = [copy EXCEPT !["wallet"] = [tx |-> n, confs |-> confs[n]]]
    BY <1>2, <1>8, <1>12, <2>1, ReadTypes DEF WalletReads
  <2>3. RecordTypes' /\ copy'["fund"] = copy["fund"]
    BY <1>2, <1>12, <2>1, <2>2 DEF WalletReads, RecordTypes
  <2> QED
    BY <1>4, <1>12, <2>3 DEF WalletReads
<1>13. ASSUME NEW w \in Writers, w # "fund", NEW parts \in SUBSET Parts, Write(w, parts), UNCHANGED vars
       PROVE  RecordTypes' /\ FundCopy'
  <2>1. RecordTypes' /\ copy' = [copy EXCEPT ![w] = NoCopy]
    BY <1>13, WriteTypes
  <2>2. copy'["fund"] = copy["fund"]
    BY <1>2, <1>13, <2>1
  <2> QED
    BY <1>4, <1>13, <2>1, <2>2
<1>14. CASE WalletRecords
  BY <1>2, <1>13, <1>14 DEF WalletRecords, Parts
<1>15. ASSUME NEW h \in Handlers, WebRecords(h) PROVE RecordTypes' /\ FundCopy'
  BY <1>2, <1>13, <1>15 DEF WebRecords, Parts
<1>16. ASSUME NEW i \in Invocations, LambdaRecords(i) PROVE RecordTypes' /\ FundCopy'
  BY <1>2, <1>13, <1>16 DEF LambdaRecords, Parts
<1>17. CASE WalletCrashes
  <2>1. copy' = [copy EXCEPT !["wallet"] = NoCopy] /\ announced' = <<>>
    BY <1>17 DEF WalletCrashes
  <2>2. copy' \in [Writers -> Copies \union {NoCopy}] /\ copy'["fund"] = copy["fund"]
    BY <1>2, <2>1
  <2>3. ToSet(announced) \subseteq Charges
    BY DEF ToSet, RecordTypes
  <2>4. excused' \subseteq Charges
    BY <1>2, <1>17, <2>3 DEF WalletCrashes, RecordTypes, Copies
  <2>5. RecordTypes'
    BY <1>17, <2>1, <2>2, <2>4, FaultTypes DEF WalletCrashes, RecordTypes
  <2> QED
    BY <1>4, <1>17, <2>2, <2>5 DEF WalletCrashes
<1>18. ASSUME NEW h \in Handlers, NEW n \in Charges, WebReads(h, n) PROVE RecordTypes' /\ FundCopy'
  <2>1. /\ copy' \in [Writers -> Copies \union {NoCopy}] /\ excused' \subseteq Charges
        /\ copy' = [copy EXCEPT ![h] = [tx |-> n, confs |-> confs[n]]]
    BY <1>2, <1>8, <1>18, ReadTypes DEF WebReads
  <2>2. RecordTypes' /\ copy'["fund"] = copy["fund"]
    BY <1>2, <1>18, <2>1, AskTypes DEF WebReads, RecordTypes
  <2> QED
    BY <1>4, <1>18, <2>2 DEF WebReads
<1>19. ASSUME NEW i \in Invocations, NEW n \in Charges, LambdaReads(i, n) PROVE RecordTypes' /\ FundCopy'
  <2>1. PICK c \in 0 .. confs[n] : Read(i, n, c)
    BY <1>19 DEF LambdaReads
  <2>2. /\ copy' \in [Writers -> Copies \union {NoCopy}] /\ excused' \subseteq Charges
        /\ copy' = [copy EXCEPT ![i] = [tx |-> n, confs |-> c]]
    BY <1>2, <2>1, ReadTypes
  <2>3. RecordTypes' /\ copy'["fund"] = copy["fund"]
    BY <1>2, <1>19, <2>2, AskTypes DEF LambdaReads, RecordTypes
  <2> QED
    BY <1>4, <1>19, <2>3 DEF LambdaReads
<1>20. ASSUME NEW w \in Asked, WriteFails(w) PROVE RecordTypes' /\ FundCopy'
  <2>1. /\ copy' \in [Writers -> Copies \union {NoCopy}] /\ excused' \subseteq Charges
        /\ copy' = [copy EXCEPT ![w] = NoCopy]
    BY <1>2, <1>20, ForgetTypes DEF WriteFails
  <2>2. RecordTypes' /\ copy'["fund"] = copy["fund"]
    BY <1>2, <1>20, <2>1, FaultTypes DEF WriteFails, RecordTypes
  <2> QED
    BY <1>4, <1>20, <2>2 DEF WriteFails
<1>21. CASE UNCHANGED allVars
  BY <1>3, <1>21 DEF allVars, vars, recordVars, RecordTypes
<1> QED
  BY <1>5, <1>6, <1>7, <1>9, <1>10, <1>11, <1>12, <1>14, <1>15, <1>16, <1>17, <1>18, <1>19,
     <1>20, <1>21 DEF RecordsNext

RecordsInv == TypeInv /\ PathInv /\ RecordTypes /\ FundCopy

\* What the fund worker's proofs and the types give together.
LEMMA RecordsInvHolds == RecordsSpec => []RecordsInv
<1>1. RecordsInit => RecordsInv
  BY InitTypeInv, InitPathInv, InitRecordTypes DEF RecordsInit, RecordsInv
<1>2. RecordsInv /\ [RecordsNext]_allVars => RecordsInv'
  <2>1. TypeInv => TypeOK
    BY DEF TypeInv
  <2>2. PathInv => FundedOncePerCharge
    BY DEF PathInv
  <2>3. PathInv' => FundedOncePerCharge'
    BY <2>2, PTL
  <2> QED
    BY <2>1, <2>2, <2>3, StepOfFundWorker, NextTypeInv, NextPathInv, NextRecordTypes DEF RecordsInv
<1> QED
  BY <1>1, <1>2, PTL DEF RecordsSpec

\* The variables of the table, its writers and the fund worker keep their types.
THEOREM RecordsTypeCorrect == RecordsSpec => []RecordsTypeOK
<1>1. RecordsInv => RecordsTypeOK
  BY DEF RecordsInv, TypeInv, RecordTypes, FundCopy, RecordsTypeOK
<1> QED
  BY <1>1, RecordsInvHolds, PTL

-----------------------------------------------------------------------------
(* Who is told of a deposit finds it named.                                *)

\* What the fund worker recorded names the user, and whoever was told has such
\* an item: ToldDepositsNamed alone does not say which items those are.
NamedInv ==
  /\ RecordedBeforeTold
  /\ \A c \in notes : \E n \in txrecs : funded[n] = c
  /\ \A n \in txrecs : {"base", "to"} \subseteq record[n].parts

\* Whatever is written, an item keeps its parts.
LEMMA PartsStay ==
  ASSUME RecordTypes, [RecordsNext]_allVars, NEW n \in Charges
  PROVE  record[n].parts \subseteq record'[n].parts
<1>1. ASSUME NEW w \in Writers, NEW parts \in SUBSET Parts, Write(w, parts)
      PROVE  record[n].parts \subseteq record'[n].parts
  <2>1. CASE n = copy[w].tx
    <3>1. record'[n] = [confs |-> copy[w].confs, parts |-> record[n].parts \union parts]
      BY <1>1, <2>1, WriteTypes
    <3> QED
      BY <3>1
  <2>2. CASE n # copy[w].tx
    <3>1. record'[n] = record[n]
      BY <1>1, <2>2, WriteTypes
    <3> QED
      BY <3>1
  <2> QED
    BY <2>1, <2>2
<1>2. {"base", "to"} \in SUBSET Parts /\ {"base"} \in SUBSET Parts
      /\ {"inputs"} \in SUBSET Parts /\ {"base", "inputs"} \in SUBSET Parts
  BY DEF Parts
<1>3. CASE \/ FundRecords \/ WalletRecords
           \/ \E h \in Handlers : WebRecords(h)
           \/ \E i \in Invocations : LambdaRecords(i)
  BY <1>1, <1>2, <1>3 DEF FundRecords, WalletRecords, WebRecords, LambdaRecords, Writers, Asked
<1>4. CASE record' = record
  BY <1>4
<1>5. ASSUME NEW w, WriteFails(w) PROVE record' = record
  BY <1>5 DEF WriteFails
<1>6. ASSUME NEW w, NEW m, WebReads(w, m) \/ LambdaReads(w, m) PROVE record' = record
  BY <1>6 DEF WebReads, LambdaReads
<1>7. ASSUME NEW m, Block(m) PROVE record' = record
  BY <1>7 DEF Block
<1>8. CASE Elsewhere \/ Accept \/ FundReads \/ FundCrashes \/ WalletReads \/ WalletCrashes
  BY <1>8 DEF Elsewhere, Accept, FundReads, FundCrashes, WalletReads, WalletCrashes, recordVars
<1>9. CASE UNCHANGED allVars
  BY <1>9 DEF allVars, recordVars
<1> QED
  BY <1>3, <1>4, <1>5, <1>6, <1>7, <1>8, <1>9 DEF RecordsNext

\* At the start nobody was told.
LEMMA InitNamedInv == RecordsInit => NamedInv
BY DEF RecordsInit, Init, NamedInv, RecordedBeforeTold, At

\* Every step keeps what was told true.
LEMMA NextNamedInv ==
  RecordsInv /\ AccountInv /\ AccountInv' /\ NamedInv /\ [RecordsNext]_allVars => NamedInv'
<1> SUFFICES ASSUME RecordsInv, AccountInv', NamedInv, [RecordsNext]_allVars PROVE NamedInv'
  OBVIOUS
<1>1. /\ TypeOK /\ TxidOfCharge /\ RecordTypes /\ FundCopy
      /\ txrecs \subseteq DOMAIN funded /\ DOMAIN funded \subseteq Charges
  BY TxidsAreBounded DEF RecordsInv, TypeInv, PathInv, TypeOK
<1>2. RecordedBeforeTold'
  BY DEF AccountInv
<1>3. \A n \in txrecs : {"base", "to"} \subseteq record'[n].parts
  BY <1>1, PartsStay DEF NamedInv
<1>4. ASSUME UNCHANGED <<notes, txrecs, funded>> PROVE NamedInv'
  BY <1>2, <1>3, <1>4 DEF NamedInv
<1>5. CASE Elsewhere
  <2>1. CASE Tell
    <3>1. worker.tx \in txrecs /\ funded[worker.tx] = worker.charge
      BY <1>1, <2>1 DEF Tell, NamedInv, RecordedBeforeTold, TxidOfCharge
    <3>2. notes' = notes \union {worker.charge} /\ UNCHANGED <<funded, txrecs>>
      BY <2>1 DEF Tell
    <3> QED
      BY <1>2, <1>3, <3>1, <3>2 DEF NamedInv
  <2>2. CASE UNCHANGED <<notes, txrecs, funded>>
    BY <1>4, <2>2
  <2> QED
    BY <1>5, <2>1, <2>2 DEF Elsewhere, HandlerStep, Charge, Publish, HandlerCrash, Subscribe,
       Receive, FundDepleted, FundRefused, Refill
<1>6. CASE Accept
  <2>1. At("pay") /\ FromReserves /\ worker.charge \in Charges /\ UNCHANGED <<notes, txrecs>>
    BY <1>1, <1>6, BusyWorker DEF Accept, FundSent, FundLost, At
  <2>2. \A n \in txrecs : funded'[n] = funded[n]
    BY <1>1, <2>1, FundedAppended DEF FromReserves
  <2> QED
    BY <1>2, <1>3, <2>1, <2>2 DEF NamedInv
<1>7. CASE FundRecords
  <2>1. /\ At("record") /\ copy["fund"].tx = worker.tx
        /\ txrecs' = txrecs \union {worker.tx} /\ UNCHANGED <<notes, funded>>
    BY <1>1, <1>7 DEF FundRecords, Write, FundCopy, Record
  <2>2. "fund" \in Writers /\ {"base", "to"} \in SUBSET Parts
    BY DEF Writers, Parts
  <2>3. record'[worker.tx].parts = record[worker.tx].parts \union {"base", "to"}
    <3>1. record'[copy["fund"].tx] = [confs |-> copy["fund"].confs,
                                      parts |-> record[copy["fund"].tx].parts \union {"base", "to"}]
      BY <1>1, <1>7, <2>2, WriteTypes DEF FundRecords
    <3> QED
      BY <2>1, <3>1
  <2> QED
    BY <1>2, <1>3, <2>1, <2>3 DEF NamedInv
<1>8. CASE FundCrashes
  BY <1>4, <1>8 DEF FundCrashes, Crash
<1>9. CASE UNCHANGED vars
  BY <1>4, <1>9 DEF vars
<1> QED
  BY <1>5, <1>6, <1>7, <1>8, <1>9 DEF RecordsNext, FundReads, WalletReads, WalletRecords,
     WalletCrashes, Block, WebReads, LambdaReads, WebRecords, LambdaRecords, WriteFails, allVars

\* Who was told of a deposit finds an item that names them and the amount.
THEOREM ToldAreNamed == RecordsSpec => []ToldDepositsNamed
<1>1. RecordsSpec => []RecordsInv /\ [][RecordsNext]_allVars /\ RecordsInit
  BY RecordsInvHolds, PTL DEF RecordsSpec
<1>2. RecordsSpec => []AccountInv
  <2>1. RecordsInit => AccountInv
    BY InitAccountInv DEF RecordsInit
  <2>2. RecordsInv => TypeInv
    BY DEF RecordsInv
  <2> QED
    BY <1>1, <2>1, <2>2, StepOfFundWorker, NextAccountInv, PTL
<1>3. NamedInv /\ RecordsInv => ToldDepositsNamed
  BY DEF NamedInv, RecordsInv, TypeInv, TypeOK, ToldDepositsNamed
<1> QED
  BY <1>1, <1>2, <1>3, InitNamedInv, NextNamedInv, PTL

-----------------------------------------------------------------------------
(* Confirmations that are behind have a cause.                             *)

\* Two copies of one transaction overlap, which is excused from when the second
\* was read.
OverlapsExcused ==
  \A v, w \in Writers : \A n \in Charges :
    v # w /\ Holds(v, n) /\ Holds(w, n) => n \in excused

\* A copy claims no more than there is; one that was overtaken by the first block
\* is followed by the announcement of that block.
CopiesExplained ==
  \A w \in Writers : \A n \in Charges : Holds(w, n) =>
    /\ copy[w].confs <= confs[n]
    /\ copy[w].confs = 0 /\ confs[n] > 0 => n \in ToSet(announced) \/ n \in excused

\* ConfirmationsExplained is not inductive: that a write does no harm rests on
\* what is known of the copy that is written.
ExplainedInv == OverlapsExcused /\ CopiesExplained /\ ConfirmationsExplained

\* Nobody holds anything at the start.
LEMMA InitExplainedInv == RecordsInit => ExplainedInv
<1> SUFFICES ASSUME RecordsInit PROVE ExplainedInv
  OBVIOUS
<1>1. \A w \in Writers : \A n \in Charges : ~ Holds(w, n)
  BY DEF RecordsInit, Holds, NoCopy, Charges
<1>2. \A n \in Charges : record[n].confs = -1 /\ confs[n] = 0
  BY DEF RecordsInit, NoItem, Unset
<1> QED
  BY <1>1, <1>2 DEF ExplainedInv, OverlapsExcused, CopiesExplained, ConfirmationsExplained

\* A reading: the copy is true, or excused.
LEMMA ReadExplained ==
  ASSUME RecordTypes, ExplainedInv, NEW w \in Writers, NEW n \in Charges, NEW c \in 0 .. confs[n],
         Read(w, n, c), UNCHANGED <<confs, record>>,
         \A m \in ToSet(announced) : m = n \/ m \in ToSet(announced')
  PROVE  ExplainedInv'
<1>1. /\ copy[w] = NoCopy /\ copy' = [copy EXCEPT ![w] = [tx |-> n, confs |-> c]]
      /\ copy \in [Writers -> Copies \union {NoCopy}] /\ confs \in [Charges -> 0 .. MaxConfs]
  BY DEF Read, RecordTypes
<1>2. /\ Holds(w, n)' /\ copy'[w].confs = c
      /\ \A m \in Charges : Holds(w, m)' => m = n
      /\ \A v \in Writers : v # w => copy'[v] = copy[v]
  BY <1>1 DEF Holds
<1>3. \A m \in Charges : m # n => (m \in excused' <=> m \in excused)
  BY DEF Read
<1>4. ASSUME NEW v \in Writers, v # w, Holds(v, n) PROVE n \in excused'
  BY <1>4 DEF Read
<1>5. c < confs[n] => n \in excused'
  BY DEF Read
<1>6. OverlapsExcused'
  BY <1>2, <1>3, <1>4 DEF ExplainedInv, OverlapsExcused, Holds
<1>7. CopiesExplained'
  <2> SUFFICES ASSUME NEW v \in Writers, NEW m \in Charges, Holds(v, m)'
               PROVE  /\ copy'[v].confs <= confs[m]
                      /\ copy'[v].confs = 0 /\ confs[m] > 0
                           => m \in ToSet(announced') \/ m \in excused'
    BY DEF CopiesExplained
  <2>1. CASE v = w
    <3>1. m = n /\ copy'[v].confs = c /\ c <= confs[n]
      BY <1>1, <1>2, <2>1, RecordsAssumption
    <3> QED
      BY <1>5, <3>1
  <2>2. CASE v # w
    <3>1. copy'[v] = copy[v] /\ Holds(v, m)
      BY <1>2, <2>2 DEF Holds
    <3>2. /\ copy[v].confs <= confs[m]
          /\ copy[v].confs = 0 /\ confs[m] > 0 => m \in ToSet(announced) \/ m \in excused
      BY <3>1 DEF ExplainedInv, CopiesExplained
    <3>3. m = n => m \in excused'
      BY <1>4, <2>2, <3>1
    <3> QED
      BY <1>3, <3>1, <3>2, <3>3
  <2> QED
    BY <2>1, <2>2
<1>8. ConfirmationsExplained'
  <2> SUFFICES ASSUME NEW m \in Charges
               PROVE  /\ record[m].confs <= confs[m]
                      /\ record[m].confs = 0 /\ confs[m] > 0 => Pending(m)' \/ m \in excused'
    BY DEF ConfirmationsExplained
  <2>1. /\ record[m].confs <= confs[m]
        /\ record[m].confs = 0 /\ confs[m] > 0 => Pending(m) \/ m \in excused
    BY DEF ExplainedInv, ConfirmationsExplained
  <2>2. Pending(n)'
    BY <1>2 DEF Pending
  <2>3. m # n /\ Pending(m) => Pending(m)'
    <3> SUFFICES ASSUME m # n, Pending(m) PROVE Pending(m)'
      OBVIOUS
    <3>1. CASE m \in ToSet(announced)
      BY <3>1 DEF Pending
    <3>2. ASSUME NEW v \in Writers, Holds(v, m) PROVE Pending(m)'
      <4>1. v # w
        BY <1>1, <3>2 DEF Holds, NoCopy, Charges
      <4>2. Holds(v, m)'
        BY <1>2, <3>2, <4>1 DEF Holds
      <4> QED
        BY <4>2 DEF Pending
    <3> QED
      BY <3>1, <3>2 DEF Pending
  <2> QED
    BY <1>3, <2>1, <2>2, <2>3
<1> QED
  BY <1>6, <1>7, <1>8 DEF ExplainedInv

\* A writing: what was known of the copy is now known of the item.
LEMMA WriteExplained ==
  ASSUME RecordTypes, ExplainedInv, NEW w \in Writers, NEW parts \in SUBSET Parts, Write(w, parts)
  PROVE  ExplainedInv'
<1> DEFINE n == copy[w].tx
<1>1. /\ copy' = [copy EXCEPT ![w] = NoCopy] /\ copy[w] \in Copies /\ n \in Charges
      /\ record'[n] = [confs |-> copy[w].confs, parts |-> record[n].parts \union parts]
      /\ \A m \in Charges : m # n => record'[m] = record[m]
      /\ UNCHANGED <<confs, announced, excused>>
  BY WriteTypes DEF Write, Copies
<1>2. /\ \A m \in Charges : ~ Holds(w, m)'
      /\ \A v \in Writers : v # w => copy'[v] = copy[v]
  BY <1>1 DEF Holds, NoCopy, Charges, RecordTypes
<1>3. Holds(w, n) /\ record'[n].confs = copy[w].confs
  BY <1>1 DEF Holds
<1>4. OverlapsExcused'
  BY <1>1, <1>2 DEF ExplainedInv, OverlapsExcused, Holds
<1>5. CopiesExplained'
  BY <1>1, <1>2 DEF ExplainedInv, CopiesExplained, Holds
<1>6. ConfirmationsExplained'
  <2> SUFFICES ASSUME NEW m \in Charges
               PROVE  /\ record'[m].confs <= confs[m]
                      /\ record'[m].confs = 0 /\ confs[m] > 0 => Pending(m)' \/ m \in excused
    BY <1>1 DEF ConfirmationsExplained
  <2>1. CASE m = n
    <3>1. /\ copy[w].confs <= confs[n]
          /\ copy[w].confs = 0 /\ confs[n] > 0 => n \in ToSet(announced) \/ n \in excused
      BY <1>1, <1>3 DEF ExplainedInv, CopiesExplained
    <3> QED
      BY <1>1, <1>3, <2>1, <3>1 DEF Pending
  <2>2. CASE m # n
    <3>1. record'[m] = record[m]
      BY <1>1, <2>2
    <3>2. Pending(m) => Pending(m)'
      <4>1. ~ Holds(w, m)
        BY <2>2 DEF Holds
      <4> QED
        BY <1>1, <1>2, <4>1 DEF Pending, Holds
    <3> QED
      BY <3>1, <3>2 DEF ExplainedInv, ConfirmationsExplained
  <2> QED
    BY <2>1, <2>2
<1> QED
  BY <1>4, <1>5, <1>6 DEF ExplainedInv

\* A loss: whatever is no longer on its way is excused.
LEMMA LossExplained ==
  ASSUME RecordTypes, ExplainedInv, UNCHANGED <<confs, record>>, excused \subseteq excused',
         \A v \in Writers : copy'[v] = copy[v] \/ copy'[v] = NoCopy,
         \A v \in Writers : \A n \in Charges : Holds(v, n) => Holds(v, n)' \/ n \in excused',
         \A n \in ToSet(announced) : n \in ToSet(announced') \/ n \in excused'
  PROVE  ExplainedInv'
<1>1. \A v \in Writers : \A n \in Charges : Holds(v, n)' => Holds(v, n) /\ copy'[v] = copy[v]
  BY DEF Holds, NoCopy, Charges
<1>2. OverlapsExcused'
  BY <1>1 DEF ExplainedInv, OverlapsExcused
<1>3. CopiesExplained'
  BY <1>1 DEF ExplainedInv, CopiesExplained
<1>4. \A n \in Charges : Pending(n) => Pending(n)' \/ n \in excused'
  BY DEF Pending
<1>5. ConfirmationsExplained'
  BY <1>4 DEF ExplainedInv, ConfirmationsExplained
<1> QED
  BY <1>2, <1>3, <1>5 DEF ExplainedInv

\* A block: the first one is announced, or the announcement is lost.
LEMMA BlockExplained ==
  ASSUME RecordTypes, ExplainedInv, NEW n \in Charges, Block(n)
  PROVE  ExplainedInv'
<1>1. /\ confs' = [confs EXCEPT ![n] = confs[n] + 1] /\ UNCHANGED <<copy, record>>
      /\ confs \in [Charges -> 0 .. MaxConfs]
  BY DEF Block, RecordTypes
<1>2. /\ confs[n] \in Nat /\ confs'[n] = confs[n] + 1
      /\ \A m \in Charges : m # n => confs'[m] = confs[m]
  BY <1>1, RecordsAssumption
<1>3. /\ ToSet(announced) \subseteq ToSet(announced') /\ excused \subseteq excused'
      /\ confs[n] = 0 => n \in ToSet(announced') \/ n \in excused'
  <2>1. CASE confs[n] = 0
    BY <2>1, AnnounceTypes DEF Block
  <2>2. CASE confs[n] # 0
    BY <2>2 DEF Block
  <2> QED
    BY <2>1, <2>2
<1>4. OverlapsExcused'
  BY <1>1, <1>3 DEF ExplainedInv, OverlapsExcused, Holds
<1>5. CopiesExplained'
  <2> SUFFICES ASSUME NEW v \in Writers, NEW m \in Charges, Holds(v, m)
               PROVE  /\ copy[v].confs <= confs'[m]
                      /\ copy[v].confs = 0 /\ confs'[m] > 0
                           => m \in ToSet(announced') \/ m \in excused'
    BY <1>1 DEF CopiesExplained, Holds
  <2>1. /\ copy[v].confs <= confs[m]
        /\ copy[v].confs = 0 /\ confs[m] > 0 => m \in ToSet(announced) \/ m \in excused
    BY DEF ExplainedInv, CopiesExplained
  <2>2. copy[v].confs \in Int
    BY RecordsAssumption DEF RecordTypes, Copies, NoCopy
  <2>3. CASE m = n
    BY <1>2, <1>3, <2>1, <2>2, <2>3
  <2>4. CASE m # n
    BY <1>2, <1>3, <2>1, <2>4
  <2> QED
    BY <2>3, <2>4
<1>6. ConfirmationsExplained'
  <2> SUFFICES ASSUME NEW m \in Charges
               PROVE  /\ record[m].confs <= confs'[m]
                      /\ record[m].confs = 0 /\ confs'[m] > 0 => Pending(m)' \/ m \in excused'
    BY <1>1 DEF ConfirmationsExplained
  <2>1. /\ record[m].confs <= confs[m]
        /\ record[m].confs = 0 /\ confs[m] > 0 => Pending(m) \/ m \in excused
    BY DEF ExplainedInv, ConfirmationsExplained
  <2>2. Pending(m) => Pending(m)'
    BY <1>1, <1>3 DEF Pending, Holds
  <2>3. record[m].confs \in Int
    BY RecordsAssumption DEF RecordTypes, Items, Unset
  <2>4. CASE m = n
    <3>1. confs[n] = 0 => Pending(n)' \/ n \in excused'
      BY <1>3 DEF Pending
    <3> QED
      BY <1>2, <1>3, <2>1, <2>2, <2>3, <2>4, <3>1
  <2>5. CASE m # n
    BY <1>2, <1>3, <2>1, <2>2, <2>5
  <2> QED
    BY <2>4, <2>5
<1> QED
  BY <1>4, <1>5, <1>6 DEF ExplainedInv

\* Every step keeps confirmations explained.
LEMMA NextExplainedInv ==
  RecordsInv /\ RecordsInv' /\ ExplainedInv /\ [RecordsNext]_allVars => ExplainedInv'
<1> SUFFICES ASSUME RecordsInv, RecordsInv', ExplainedInv, [RecordsNext]_allVars PROVE ExplainedInv'
  OBVIOUS
<1>1. /\ TypeOK /\ TxidOfCharge /\ RecordTypes /\ DOMAIN funded \subseteq Charges
      /\ (DOMAIN funded \subseteq Charges)'
  BY TxidsAreBounded, TxidsStayBounded DEF RecordsInv, TypeInv, PathInv
<1>2. /\ {"fund", "wallet"} \subseteq Writers /\ Asked \subseteq Writers
      /\ Handlers \union Invocations = Asked
      /\ copy \in [Writers -> Copies \union {NoCopy}]
      /\ \A n \in Charges : confs[n] \in 0 .. confs[n]
  BY <1>1, RecordsAssumption DEF RecordTypes, Writers, Asked
<1>3. CASE UNCHANGED recordVars
  BY <1>3 DEF recordVars, ExplainedInv, OverlapsExcused, CopiesExplained, ConfirmationsExplained,
     Pending, Holds
<1>4. CASE Accept
  <2>1. At("pay") /\ FromReserves /\ worker.charge \in Charges
    BY <1>1, <1>4, BusyWorker DEF Accept, FundSent, FundLost, At
  <2>2. Len(funded) + 1 \in Charges
    <3>1. Len(funded) + 1 \in DOMAIN funded'
      BY <1>1, <2>1, FundedAppended DEF FromReserves
    <3> QED
      BY <1>1, <3>1
  <2>3. ToSet(announced) \subseteq ToSet(announced') /\ excused \subseteq excused'
    BY <1>1, <1>4, <2>2, AnnounceTypes DEF Accept
  <2>4. UNCHANGED <<confs, record, copy>>
    BY <1>4 DEF Accept
  <2> QED
    BY <1>1, <2>3, <2>4, LossExplained DEF Holds
<1>5. CASE FundReads
  <2>1. worker.tx \in Charges /\ Read("fund", worker.tx, confs[worker.tx])
    BY <1>1, <1>5 DEF FundReads, TxidOfCharge
  <2> QED
    BY <1>1, <1>2, <1>5, <2>1, ReadExplained DEF FundReads
<1>6. CASE WalletReads
  <2>1. Head(announced) \in Charges
        /\ \A n \in ToSet(announced) : n = Head(announced) \/ n \in ToSet(announced')
    BY <1>1, <1>6, AnnouncedFirst DEF WalletReads
  <2> QED
    BY <1>1, <1>2, <1>6, <2>1, ReadExplained DEF WalletReads
<1>7. ASSUME NEW h \in Handlers, NEW n \in Charges, WebReads(h, n) PROVE ExplainedInv'
  BY <1>1, <1>2, <1>7, ReadExplained DEF WebReads
<1>8. ASSUME NEW i \in Invocations, NEW n \in Charges, LambdaReads(i, n) PROVE ExplainedInv'
  <2>1. PICK c \in 0 .. confs[n] : Read(i, n, c)
    BY <1>8 DEF LambdaReads
  <2> QED
    BY <1>1, <1>2, <1>8, <2>1, ReadExplained DEF LambdaReads
<1>9. CASE \/ FundRecords \/ WalletRecords
           \/ \E h \in Handlers : WebRecords(h)
           \/ \E i \in Invocations : LambdaRecords(i)
  <2>1. /\ {"base", "to"} \in SUBSET Parts /\ {"base"} \in SUBSET Parts
        /\ {"inputs"} \in SUBSET Parts /\ {"base", "inputs"} \in SUBSET Parts
    BY DEF Parts
  <2> QED
    BY <1>1, <1>2, <1>9, <2>1, WriteExplained DEF FundRecords, WalletRecords, WebRecords, LambdaRecords
<1>10. ASSUME NEW w \in Writers, Forget(w), UNCHANGED <<confs, record, announced>> PROVE ExplainedInv'
  <2>1. /\ copy' = [copy EXCEPT ![w] = NoCopy] /\ excused \subseteq excused'
        /\ copy[w] # NoCopy => copy[w].tx \in excused'
    BY <1>1, <1>10, ForgetTypes
  <2>2. \A v \in Writers : copy'[v] = copy[v] \/ copy'[v] = NoCopy
    BY <1>2, <2>1
  <2>3. ASSUME NEW v \in Writers, NEW n \in Charges, Holds(v, n) PROVE Holds(v, n)' \/ n \in excused'
    <3>1. CASE v = w
      BY <2>1, <2>3, <3>1 DEF Holds, NoCopy, Charges
    <3>2. CASE v # w
      BY <1>2, <2>1, <2>3, <3>2 DEF Holds
    <3> QED
      BY <3>1, <3>2
  <2> QED
    BY <1>1, <1>10, <2>1, <2>2, <2>3, LossExplained
<1>11. CASE FundCrashes
  BY <1>2, <1>10, <1>11 DEF FundCrashes
<1>12. ASSUME NEW w \in Asked, WriteFails(w) PROVE ExplainedInv'
  BY <1>2, <1>10, <1>12 DEF WriteFails
<1>13. CASE WalletCrashes
  <2>1. /\ copy' = [copy EXCEPT !["wallet"] = NoCopy] /\ UNCHANGED <<confs, record>>
        /\ excused \subseteq excused' /\ ToSet(announced) \subseteq excused'
        /\ copy["wallet"] # NoCopy => copy["wallet"].tx \in excused'
    BY <1>13 DEF WalletCrashes
  <2>2. \A v \in Writers : copy'[v] = copy[v] \/ copy'[v] = NoCopy
    BY <1>2, <2>1
  <2>3. ASSUME NEW v \in Writers, NEW n \in Charges, Holds(v, n) PROVE Holds(v, n)' \/ n \in excused'
    <3>1. CASE v = "wallet"
      BY <2>1, <2>3, <3>1 DEF Holds, NoCopy, Charges
    <3>2. CASE v # "wallet"
      BY <1>2, <2>1, <2>3, <3>2 DEF Holds
    <3> QED
      BY <3>1, <3>2
  <2> QED
    BY <1>1, <2>1, <2>2, <2>3, LossExplained
<1>14. ASSUME NEW n \in Charges, Block(n) PROVE ExplainedInv'
  BY <1>1, <1>14, BlockExplained
<1> QED
  BY <1>3, <1>4, <1>5, <1>6, <1>7, <1>8, <1>9, <1>11, <1>12, <1>13, <1>14
     DEF RecordsNext, Elsewhere, allVars

\* An item that says "unconfirmed" of a transaction in a block is about to be
\* updated, or one of the known causes has hit it since it was last read.
THEOREM ConfirmationsAreExplained == RecordsSpec => []ConfirmationsExplained
<1>1. ExplainedInv => ConfirmationsExplained
  BY DEF ExplainedInv
<1>2. RecordsSpec => [](RecordsInv /\ ExplainedInv)
  BY RecordsInvHolds, InitExplainedInv, NextExplainedInv, PTL DEF RecordsSpec
<1> QED
  BY <1>1, <1>2, PTL
=============================================================================
