-------------------------- MODULE TipPipeline_proofs --------------------------
(***************************************************************************)
(* Proofs about TipPipeline, for every set of users and tweets, every      *)
(* window and every number of sends and faults; and about PaidTips, for    *)
(* every wallet under it.                                                  *)
(***************************************************************************)
EXTENDS PaidTips, SequenceTheorems, TLAPS

-----------------------------------------------------------------------------
(* Type correctness.                                                       *)

\* What a poll lists is a list of tweets, no longer than the favorites.
LEMMA WindowType ==
  ASSUME TypeOK, NEW u \in Users
  PROVE  SubSeq(favs[u], 1, IF Len(favs[u]) < Window THEN Len(favs[u]) ELSE Window)
           \in Seq(Tweets)
<1> DEFINE n == IF Len(favs[u]) < Window THEN Len(favs[u]) ELSE Window
<1>1. favs[u] \in Seq(Tweets) /\ Len(favs[u]) \in Nat
  BY DEF TypeOK
<1>2. n \in 0 .. Len(favs[u])
  BY <1>1, BoundsAssumption
<1>3. SubSeq(favs[u], 1, n) \in Seq(Tweets)
  <2> HIDE DEF n
  <2>1. \A i \in 1 .. n : favs[u][i] \in Tweets
    BY <1>1, <1>2, ElementOfSeq
  <2> QED
    BY <1>1, <1>2, <2>1
<1> QED
  BY <1>3

\* Replacing the list of one run keeps the type of the polls.
LEMMA ListType ==
  ASSUME TypeOK, NEW u \in Users, NEW r \in Runs, NEW list \in Seq(Tweets),
         poll' = [poll EXCEPT ![u][r] = list]
  PROVE  poll' \in [Users -> [Runs -> Seq(Tweets)]]
<1>1. poll[u] \in [Runs -> Seq(Tweets)]
  BY DEF TypeOK
<1>2. [poll[u] EXCEPT ![r] = list] \in [Runs -> Seq(Tweets)]
  BY <1>1
<1> QED
  BY <1>2 DEF TypeOK

\* A run that ends before its time leaves no favorite to look up.
LEMMA StopType ==
  ASSUME TypeOK, NEW u \in Users, NEW r \in Runs, Stop(u, r)
  PROVE  poll' \in [Users -> [Runs -> Seq(Tweets)]]
<1>1. <<>> \in Seq(Tweets)
  BY EmptySeq
<1> QED
  BY <1>1, ListType DEF Stop

\* A send that is over, well or badly, leaves the polls and the wire well typed.
LEMMA AnsweredType ==
  ASSUME TypeOK, NEW f \in Favs, wire[f] > 0, Answered(f)
  PROVE  /\ poll' \in [Users -> [Runs -> Seq(Tweets)]]
         /\ wire' \in [Favs -> Nat]
<1>1. f[1] \in Users
  BY DEF Favs
<1>2. poll' \in [Users -> [Runs -> Seq(Tweets)]]
  <2>1. CASE UNCHANGED poll
    BY <2>1 DEF TypeOK
  <2>2. ASSUME NEW r \in Runs, Stop(f[1], r)
        PROVE  poll' \in [Users -> [Runs -> Seq(Tweets)]]
    BY <1>1, <2>2, StopType
  <2> QED
    BY <2>1, <2>2 DEF Answered
<1>3. wire[f] \in Nat /\ wire[f] - 1 \in Nat
  BY DEF TypeOK
<1>4. wire' \in [Favs -> Nat]
  BY <1>3 DEF Answered, TypeOK
<1> QED
  BY <1>2, <1>4

\* The first states are well typed.
LEMMA InitTypeOK == Init => TypeOK
<1> SUFFICES ASSUME Init PROVE TypeOK
  OBVIOUS
<1>1. favs \in [Users -> Seq(Tweets)] /\ paid \in Seq(Messages)
  BY EmptySeq DEF Init
<1>2. txid \in [Favs -> Nat] /\ wire \in [Favs -> Nat] /\ sends \in [Favs -> Nat]
  BY DEF Init
<1>3. poll \in [Users -> [Runs -> Seq(Tweets)]]
  BY EmptySeq DEF Init
<1> QED
  BY <1>1, <1>2, <1>3 DEF Init, TypeOK

\* A step of the Lambda function keeps the types.
LEMMA LambdaTypeOK == TypeOK /\ LambdaNext => TypeOK'
<1> SUFFICES ASSUME TypeOK, LambdaNext PROVE TypeOK'
  OBVIOUS
<1> USE DEF table, lambda, ledger, crawl
<1>1. ASSUME NEW u \in Users, NEW r \in Runs, PollStart(u, r) PROVE TypeOK'
  <2>1. poll' \in [Users -> [Runs -> Seq(Tweets)]]
    BY <1>1, WindowType, ListType DEF PollStart
  <2> QED
    BY <1>1, <2>1 DEF PollStart, TypeOK
<1>2. ASSUME NEW u \in Users, NEW r \in Runs, PollCheck(u, r) PROVE TypeOK'
  <2>1. poll[u][r] \in Seq(Tweets) /\ poll[u][r] # <<>>
    BY <1>2 DEF PollCheck, TypeOK
  <2>2. Head(poll[u][r]) \in Tweets /\ Tail(poll[u][r]) \in Seq(Tweets)
    BY <2>1
  <2>3. poll' = [poll EXCEPT ![u][r] = Tail(poll[u][r])]
    BY <1>2 DEF PollCheck, TypeOK
  <2>4. poll' \in [Users -> [Runs -> Seq(Tweets)]]
    BY <2>2, <2>3, ListType
  <2>5. wire' \in [Favs -> Nat]
    <3> DEFINE f == <<u, Head(poll[u][r])>>
    <3>1. f \in Favs /\ wire \in [Favs -> Nat]
      BY <2>2 DEF Favs, TypeOK
    <3>2. UNCHANGED wire \/ wire' = [wire EXCEPT ![f] = @ + 1]
      BY <1>2 DEF PollCheck
    <3> HIDE DEF f
    <3>3. wire[f] + 1 \in Nat
      BY <3>1
    <3> QED
      BY <3>1, <3>2, <3>3
  <2> QED
    BY <1>2, <2>4, <2>5 DEF PollCheck, TypeOK
<1>3. ASSUME NEW u \in Users, NEW r \in Runs, PollDie(u, r) PROVE TypeOK'
  <2>1. poll' \in [Users -> [Runs -> Seq(Tweets)]]
    BY <1>3, StopType DEF PollDie
  <2> QED
    BY <1>3, <2>1 DEF PollDie, Fault, TypeOK
<1>4. ASSUME NEW f \in Favs, SendOk(f) PROVE TypeOK'
  <2>1. sends[f] + 1 \in Nat
    BY DEF TypeOK
  <2>2. poll' \in [Users -> [Runs -> Seq(Tweets)]] /\ wire' \in [Favs -> Nat]
    BY <1>4, AnsweredType DEF SendOk
  <2>3. [fav |-> f, n |-> sends[f] + 1] \in Messages
    BY <2>1 DEF Messages
  <2>4. queue' \subseteq Messages
    BY <1>4, <2>3 DEF SendOk, TypeOK
  <2>5. sends' \in [Favs -> Nat]
    BY <1>4, <2>1 DEF SendOk, TypeOK
  <2> QED
    BY <1>4, <2>2, <2>4, <2>5 DEF SendOk, TypeOK
<1>5. ASSUME NEW f \in Favs, SendFail(f) PROVE TypeOK'
  <2>1. poll' \in [Users -> [Runs -> Seq(Tweets)]] /\ wire' \in [Favs -> Nat]
    BY <1>5, AnsweredType DEF SendFail
  <2> QED
    BY <1>5, <2>1 DEF SendFail, TypeOK
<1> QED
  BY <1>1, <1>2, <1>3, <1>4, <1>5 DEF LambdaNext

\* A step of the tips worker keeps the types.
LEMMA WorkerTypeOK == TypeOK /\ WorkerNext => TypeOK'
<1> SUFFICES ASSUME TypeOK, WorkerNext PROVE TypeOK'
  OBVIOUS
<1> USE DEF table, lambda, ledger, crawl
<1>a. worker # Idle => /\ worker \in Working
                       /\ worker.msg \in Messages /\ worker.msg.fav \in Favs
                       /\ worker.tx \in Nat
  BY DEF TypeOK, Working, Messages
<1>b. ASSUME NEW pc \in BeforePay \union AfterPay \union AfterNil,
             worker # Idle, GoTo(pc)
      PROVE  worker' \in Working
  BY <1>a, <1>b DEF GoTo, Working
<1>1. ASSUME NEW m \in queue, Receive(m) PROVE TypeOK'
  BY <1>1 DEF Receive, TypeOK, Working, BeforePay
<1>2. CASE Delete
  BY <1>2, <1>b DEF Delete, At, TypeOK, BeforePay
<1>3. CASE FetchOk
  BY <1>3, <1>b DEF FetchOk, At, TypeOK, BeforePay
<1>4. CASE PaySent
  <2>1. paid' \in Seq(Messages) /\ Len(paid) + 1 \in Nat
    BY <1>4, <1>a DEF PaySent, At, TypeOK
  <2>2. worker' \in Working
    BY <1>4, <1>a, <2>1 DEF PaySent, At, Working, AfterPay
  <2> QED
    BY <1>4, <2>1, <2>2 DEF PaySent, TypeOK
<1>5. CASE PayNil
  BY <1>5, <1>b DEF PayNil, At, TypeOK, AfterNil
<1>6. CASE Record
  BY <1>6, <1>a, <1>b DEF Record, NewTip, PutItem, At, TypeOK, AfterPay
<1>7. CASE RecordTransaction
  BY <1>7, <1>a, <1>b DEF RecordTransaction, At, TypeOK, AfterPay
<1>8. CASE TellSender
  BY <1>8, <1>a, <1>b DEF TellSender, At, TypeOK, AfterPay, Notes
<1>9. CASE TellReceiver
  BY <1>9, <1>a DEF TellReceiver, At, TypeOK, Notes
<1>10. CASE Decline
  BY <1>10, <1>a, <1>b DEF Decline, UpdateFavorite, PutItem, At, TypeOK, AfterNil
<1>11. CASE Apologise
  BY <1>11, <1>a DEF Apologise, At, TypeOK, Notes
<1>12. CASE FetchNil
  BY <1>12, <1>a DEF FetchNil, Fault, At, TypeOK, Notes
<1>13. CASE PayLost
  <2>1. worker' \in Working
    BY <1>13, <1>b DEF PayLost, At, AfterNil
  <2>2. paid' \in Seq(Messages)
    BY <1>13, <1>a DEF PayLost, At, TypeOK
  <2> QED
    BY <1>13, <2>1, <2>2 DEF PayLost, Fault, TypeOK
<1>14. CASE Crash
  BY <1>14 DEF Crash, Fault, TypeOK
<1> QED
  BY <1>1, <1>2, <1>3, <1>4, <1>5, <1>6, <1>7, <1>8, <1>9, <1>10, <1>11, <1>12,
     <1>13, <1>14 DEF WorkerNext, WorkerStep

\* A step of the deep crawl keeps the types.
LEMMA CrawlTypeOK == TypeOK /\ CrawlNext => TypeOK'
<1> SUFFICES ASSUME TypeOK, CrawlNext PROVE TypeOK'
  OBVIOUS
<1> USE DEF table, lambda, ledger, crawl
<1>1. ASSUME NEW u \in Users, CrawlStart(u) \/ FlagSeen(u) PROVE TypeOK'
  <2>1. CASE CrawlStart(u)
    <3>1. crawler' \in Crawling
      BY <2>1 DEF CrawlStart, TypeOK, Crawling
    <3>2. crawled' \subseteq Users /\ unseen' \subseteq crawled'
      BY <2>1 DEF CrawlStart, TypeOK
    <3> QED
      BY <2>1, <3>1, <3>2 DEF CrawlStart, TypeOK
  <2>2. CASE FlagSeen(u)
    BY <2>2 DEF FlagSeen, TypeOK
  <2> QED
    BY <1>1, <2>1, <2>2
<1>2. CASE CrawlWrite
  <2>1. /\ crawler \in Crawling /\ <<crawler.user, Head(crawler.todo)>> \in Favs
        /\ Tail(crawler.todo) \in Seq(Tweets)
    BY <1>2 DEF CrawlWrite, TypeOK, Crawling, Favs
  <2>2. crawler' \in Crawling
    BY <1>2, <2>1 DEF CrawlWrite, Crawling
  <2> QED
    BY <1>2, <2>1, <2>2 DEF CrawlWrite, UpdateFavorite, PutItem, TypeOK
<1>3. CASE CrawlEnd
  BY <1>3 DEF CrawlEnd, TypeOK
<1>4. CASE CrawlCrash
  BY <1>4 DEF CrawlCrash, Fault, TypeOK
<1> QED
  BY <1>1, <1>2, <1>3, <1>4 DEF CrawlNext

\* Every step keeps the types.
LEMMA NextTypeOK == TypeOK /\ [Next]_vars => TypeOK'
<1> SUFFICES ASSUME TypeOK, [Next]_vars PROVE TypeOK'
  OBVIOUS
<1> USE DEF table, lambda, ledger, crawl
<1>1. ASSUME NEW u \in Users, NEW t \in Tweets, Favor(u, t) PROVE TypeOK'
  <2>1. <<t>> \o favs[u] \in Seq(Tweets)
    BY DEF TypeOK
  <2> QED
    BY <1>1, <2>1 DEF Favor, TypeOK
<1>2. ASSUME NEW f \in Favs, CatchUp(f) PROVE TypeOK'
  BY <1>2 DEF CatchUp, TypeOK
<1>3. CASE UNCHANGED vars
  BY <1>3 DEF vars, TypeOK
<1> QED
  BY <1>1, <1>2, <1>3, LambdaTypeOK, WorkerTypeOK, CrawlTypeOK DEF Next

\* Every reachable state is well typed; only existing items lag.
THEOREM TypeCorrect == Spec => []TypeOK
BY InitTypeOK, NextTypeOK, PTL DEF Spec

-----------------------------------------------------------------------------
(* One payment per message.                                                *)

Unpaid(m) == \A i \in DOMAIN paid : paid[i] # m

\* OnePaymentPerMessage is not inductive.  A message in the queue is unpaid, so
\* receiving it again after a crash is harmless; a message about to be paid is
\* unpaid and no longer in the queue, so paying it leaves no paid message there;
\* and a new message differs from all earlier ones in its number.
PayInv ==
  /\ OnePaymentPerMessage
  /\ \A m \in queue : m.n <= sends[m.fav] /\ Unpaid(m)
  /\ \A i \in DOMAIN paid : paid[i].n <= sends[paid[i].fav]
  /\ worker # Idle =>
       /\ worker.msg.n <= sends[worker.msg.fav]
       /\ worker.pc \in BeforePay => Unpaid(worker.msg)
       /\ worker.pc \in {"fetch", "pay"} => worker.msg \notin queue

\* What a payment appends to the ledger.
LEMMA PaidAppended ==
  ASSUME TypeOK, NEW m \in Messages, paid' = Append(paid, m)
  PROVE  /\ DOMAIN paid = 1 .. Len(paid) /\ Len(paid) \in Nat
         /\ Len(paid') = Len(paid) + 1 /\ DOMAIN paid' = 1 .. Len(paid) + 1
         /\ \A i \in DOMAIN paid : paid'[i] = paid[i]
         /\ \A i \in DOMAIN paid' : i \in DOMAIN paid \/ i = Len(paid) + 1
         /\ paid'[Len(paid) + 1] = m
         /\ Len(paid) + 1 \notin DOMAIN paid
BY DEF TypeOK

\* The payment of the worker's message keeps the invariant, whether or not the
\* worker learns of it.
LEMMA PayKeepsPayInv ==
  ASSUME TypeOK, PayInv, At("pay"), paid' = Append(paid, worker.msg),
         UNCHANGED <<queue, sends>>,
         worker' # Idle, worker'.msg = worker.msg, worker'.pc \notin BeforePay
  PROVE  PayInv'
<1>1. worker.msg \in Messages /\ Unpaid(worker.msg) /\ worker.msg \notin queue
  BY DEF At, TypeOK, Working, PayInv, BeforePay
<1>2. OnePaymentPerMessage'
  BY <1>1, PaidAppended DEF OnePaymentPerMessage, PayInv, Unpaid
<1>3. (\A m \in queue : m.n <= sends[m.fav] /\ Unpaid(m))'
  BY <1>1, PaidAppended DEF PayInv, Unpaid
<1>4. (\A i \in DOMAIN paid : paid[i].n <= sends[paid[i].fav])'
  BY <1>1, PaidAppended DEF PayInv, At
<1>5. worker'.msg.n <= sends'[worker'.msg.fav] /\ worker'.pc \notin {"fetch", "pay"}
  BY DEF PayInv, At, BeforePay
<1> QED
  BY <1>2, <1>3, <1>4, <1>5 DEF PayInv

\* A new message is unpaid: no paid message has its number.
LEMMA SendKeepsPayInv ==
  ASSUME TypeOK, PayInv, NEW f \in Favs, SendOk(f)
  PROVE  PayInv'
<1> DEFINE new == [fav |-> f, n |-> sends[f] + 1]
<1>1. sends[f] \in Nat
  BY DEF TypeOK
<1>2. /\ sends' = [sends EXCEPT ![f] = sends[f] + 1]
      /\ queue' = queue \union {new}
      /\ UNCHANGED <<paid, worker>>
  BY DEF SendOk, ledger
<1>3. new \in Messages /\ new.fav = f /\ new.n = sends[f] + 1
  BY <1>1 DEF Messages
<1> HIDE DEF new
<1>4. \A m \in Messages : m.n <= sends[m.fav] => m.n <= sends'[m.fav] /\ m # new
  <2> TAKE m \in Messages
  <2>1. m.fav \in Favs /\ m.n \in Nat /\ sends[m.fav] \in Nat
    BY DEF Messages, TypeOK
  <2>2. sends'[m.fav] = IF m.fav = f THEN sends[f] + 1 ELSE sends[m.fav]
    BY <1>1, <1>2, <2>1 DEF TypeOK
  <2> QED
    BY <1>1, <1>3, <2>1, <2>2
<1>5. \A i \in DOMAIN paid : paid[i] \in Messages
  BY DEF TypeOK
<1>6. Unpaid(new)
  BY <1>4, <1>5 DEF PayInv, Unpaid
<1>7. new.n <= sends'[new.fav]
  BY <1>1, <1>2, <1>3 DEF TypeOK
<1>8. worker # Idle => worker.msg \in Messages
  BY DEF TypeOK, Working
<1>9. (\A m \in queue : m.n <= sends[m.fav] /\ Unpaid(m))'
  BY <1>2, <1>4, <1>6, <1>7 DEF PayInv, Unpaid, TypeOK
<1>10. (\A i \in DOMAIN paid : paid[i].n <= sends[paid[i].fav])'
  BY <1>2, <1>4, <1>5 DEF PayInv
<1>11. OnePaymentPerMessage'
  BY <1>2 DEF PayInv, OnePaymentPerMessage
<1>12. (worker # Idle =>
          /\ worker.msg.n <= sends[worker.msg.fav]
          /\ worker.pc \in BeforePay => Unpaid(worker.msg)
          /\ worker.pc \in {"fetch", "pay"} => worker.msg \notin queue)'
  BY <1>2, <1>4, <1>8 DEF PayInv, Unpaid
<1> QED
  BY <1>9, <1>10, <1>11, <1>12 DEF PayInv

\* Every step keeps the invariant.
LEMMA NextPayInv == TypeOK /\ PayInv /\ [Next]_vars => PayInv'
<1> SUFFICES ASSUME TypeOK, PayInv, [Next]_vars PROVE PayInv'
  OBVIOUS
<1> USE DEF table, lambda, ledger, crawl
<1>1. ASSUME UNCHANGED <<queue, sends, worker, paid>> PROVE PayInv'
  BY <1>1 DEF PayInv, OnePaymentPerMessage, Unpaid
<1>2. ASSUME UNCHANGED <<queue, sends, paid>>,
             worker' = Idle \/ (/\ worker # Idle /\ worker'.msg = worker.msg
                                /\ worker'.pc \notin BeforePay)
      PROVE  PayInv'
  BY <1>2 DEF PayInv, OnePaymentPerMessage, Unpaid, BeforePay
<1>3. ASSUME NEW m \in queue, Receive(m) PROVE PayInv'
  <2>1. worker' = [pc |-> "received", msg |-> m, tx |-> 0] /\ UNCHANGED <<queue, sends, paid>>
    BY <1>3 DEF Receive
  <2>2. worker'.msg = m /\ worker'.pc = "received"
    BY <2>1
  <2>3. m.n <= sends[m.fav] /\ Unpaid(m)
    BY DEF PayInv
  <2> QED
    BY <2>1, <2>2, <2>3 DEF PayInv, OnePaymentPerMessage, Unpaid
<1>5. worker # Idle => worker \in Working
  BY DEF TypeOK
<1>6. ASSUME NEW pc, worker # Idle, GoTo(pc)
      PROVE  worker' # Idle /\ worker'.msg = worker.msg /\ worker'.pc = pc
  BY <1>5, <1>6 DEF GoTo, Working, Idle
<1>7. CASE Delete
  <2>1. /\ worker # Idle /\ worker.pc = "received"
        /\ worker' # Idle /\ worker'.msg = worker.msg /\ worker'.pc = "fetch"
        /\ queue' = queue \ {worker.msg} /\ UNCHANGED <<sends, paid>>
    BY <1>6, <1>7 DEF Delete, At
  <2> QED
    BY <2>1 DEF PayInv, OnePaymentPerMessage, Unpaid, BeforePay
<1>8. CASE FetchOk
  <2>1. /\ worker # Idle /\ worker.pc = "fetch"
        /\ worker' # Idle /\ worker'.msg = worker.msg /\ worker'.pc = "pay"
        /\ UNCHANGED <<queue, sends, paid>>
    BY <1>6, <1>8 DEF FetchOk, At
  <2> QED
    BY <2>1 DEF PayInv, OnePaymentPerMessage, Unpaid, BeforePay
<1>9. CASE PaySent
  <2>1. worker' # Idle /\ worker'.msg = worker.msg /\ worker'.pc = "record"
    BY <1>5, <1>9 DEF PaySent, At, Working, Idle
  <2> QED
    BY <1>9, <2>1, PayKeepsPayInv DEF PaySent, BeforePay
<1>10. CASE PayLost
  BY <1>6, <1>10, PayKeepsPayInv DEF PayLost, At, BeforePay
<1>11. CASE PayNil
  BY <1>2, <1>6, <1>11 DEF PayNil, At, BeforePay
<1>12. CASE Record
  BY <1>2, <1>6, <1>12 DEF Record, At, BeforePay
<1>13. CASE RecordTransaction
  BY <1>2, <1>6, <1>13 DEF RecordTransaction, At, BeforePay
<1>14. CASE TellSender
  BY <1>2, <1>6, <1>14 DEF TellSender, At, BeforePay
<1>15. CASE Decline
  BY <1>2, <1>6, <1>15 DEF Decline, At, BeforePay
<1>16. CASE TellReceiver \/ Apologise \/ FetchNil \/ Crash
  BY <1>2, <1>16 DEF TellReceiver, Apologise, FetchNil, Crash
<1>17. CASE LambdaNext
  <2>1. ASSUME NEW u \in Users, NEW r \in Runs,
               PollStart(u, r) \/ PollCheck(u, r) \/ PollDie(u, r)
        PROVE  UNCHANGED <<queue, sends, worker, paid>>
    BY <2>1 DEF PollStart, PollCheck, PollDie
  <2>2. ASSUME NEW f \in Favs, SendFail(f)
        PROVE  UNCHANGED <<queue, sends, worker, paid>>
    BY <2>2 DEF SendFail
  <2> QED
    BY <1>1, <1>17, <2>1, <2>2, SendKeepsPayInv DEF LambdaNext
<1>18. CASE CrawlNext
  BY <1>1, <1>18 DEF CrawlNext, CrawlStart, FlagSeen, CrawlWrite, CrawlEnd, CrawlCrash
<1>19. CASE \/ \E u \in Users, t \in Tweets : Favor(u, t)
            \/ \E f \in Favs : CatchUp(f)
            \/ UNCHANGED vars
  BY <1>1, <1>19 DEF Favor, CatchUp, vars
<1> QED
  BY <1>3, <1>7, <1>8, <1>9, <1>10, <1>11, <1>12, <1>13, <1>14, <1>15, <1>16, <1>17,
     <1>18, <1>19 DEF Next, WorkerNext, WorkerStep

\* At the start nothing was sent and nothing was paid.
LEMMA InitPayInv == Init => PayInv
BY DEF Init, PayInv, OnePaymentPerMessage

\* No message moves money twice, wherever the worker dies and however often SQS
\* delivers a message that was not deleted.
THEOREM OnePayment == Spec => []OnePaymentPerMessage
<1>1. Spec => [](TypeOK /\ PayInv)
  BY InitTypeOK, NextTypeOK, InitPayInv, NextPayInv, PTL DEF Spec
<1>2. PayInv => OnePaymentPerMessage
  BY DEF PayInv
<1> QED
  BY <1>1, <1>2, PTL

-----------------------------------------------------------------------------
(* What is recorded and told was paid.                                     *)

\* While the worker holds a txid it is the last payment there is, for nobody
\* else pays: hence no item has a later one, and writing it never goes back.
\* After each step of the worker one more table has the txid.
WorkerInv ==
  worker # Idle /\ worker.pc \in AfterPay =>
    /\ worker.tx = Len(paid) /\ worker.tx # 0 /\ paid[worker.tx] = worker.msg
    /\ worker.pc # "record" => /\ worker.msg.fav \in items
                               /\ txid[worker.msg.fav] = worker.tx
    /\ worker.pc \in {"tellSender", "tellReceiver"} => worker.tx \in txrecs

RecordInv == WorkerInv /\ RecordedTipsArePaid /\ ToldTipsAreRecorded

\* The sequence of payments grows: nothing that refers to it is disturbed.
LEMMA PayKeepsRecords ==
  ASSUME TypeOK, RecordInv, NEW m \in Messages, paid' = Append(paid, m),
         UNCHANGED <<table, txrecs, notes>>
  PROVE  RecordedTipsArePaid' /\ ToldTipsAreRecorded'
<1>1. RecordedTipsArePaid'
  BY PaidAppended DEF RecordInv, RecordedTipsArePaid, table
<1>2. ToldTipsAreRecorded'
  BY PaidAppended DEF RecordInv, ToldTipsAreRecorded, table
<1> QED
  BY <1>1, <1>2

\* Every step keeps the invariant.
LEMMA NextRecordInv == TypeOK /\ RecordInv /\ [Next]_vars => RecordInv'
<1> SUFFICES ASSUME TypeOK, RecordInv, [Next]_vars PROVE RecordInv'
  OBVIOUS
<1> USE DEF table, lambda, ledger, crawl
<1>1. worker # Idle => worker \in Working /\ worker.msg \in Messages /\ worker.msg.fav \in Favs
  BY DEF TypeOK, Working, Messages
<1>2. ASSUME NEW pc, worker # Idle, GoTo(pc)
      PROVE  /\ worker' # Idle /\ worker'.msg = worker.msg
             /\ worker'.tx = worker.tx /\ worker'.pc = pc
  BY <1>1, <1>2 DEF GoTo, Working, Idle
<1>3. DOMAIN paid = 1 .. Len(paid) /\ Len(paid) \in Nat
  BY DEF TypeOK
\* Steps that leave the records alone, and the worker outside AfterPay or as it was.
<1>4. ASSUME UNCHANGED <<items, txid, paid, txrecs, notes>>,
             \/ worker' = worker
             \/ worker' = Idle
             \/ worker' # Idle /\ worker'.pc \notin AfterPay
      PROVE  RecordInv'
  BY <1>4 DEF RecordInv, WorkerInv, RecordedTipsArePaid, ToldTipsAreRecorded
\* Steps that write an item without a txid.
<1>5. ASSUME NEW f \in Favs, UpdateFavorite(f), UNCHANGED <<paid, txrecs, notes>>,
             worker' = worker \/ (worker' # Idle /\ worker'.pc \notin AfterPay)
      PROVE  RecordInv'
  BY <1>5 DEF UpdateFavorite, PutItem, RecordInv, WorkerInv, RecordedTipsArePaid,
              ToldTipsAreRecorded
\* Notifications about money that did not move.
<1>6. ASSUME worker # Idle, worker' = Idle, UNCHANGED <<table, ledger>>,
             notes' = notes \union {[type |-> "low_balance", msg |-> worker.msg]}
      PROVE  RecordInv'
  BY <1>6 DEF RecordInv, WorkerInv, RecordedTipsArePaid, ToldTipsAreRecorded
\* Notifications about money that moved.
<1>7. ASSUME At("tellSender") \/ At("tellReceiver"), UNCHANGED <<table, ledger>>,
             NEW type, notes' = notes \union {[type |-> type, msg |-> worker.msg]},
             \/ worker' = Idle
             \/ GoTo("tellReceiver")
      PROVE  RecordInv'
  <2>1. worker # Idle /\ worker.pc \in {"tellSender", "tellReceiver"}
    BY <1>7 DEF At
  <2>2. /\ worker.tx \in DOMAIN paid /\ paid[worker.tx] = worker.msg
        /\ worker.tx \in txrecs /\ worker.msg.fav \in items
        /\ txid[worker.msg.fav] >= worker.tx
    BY <1>3, <2>1 DEF RecordInv, WorkerInv, AfterPay
  <2>3. ToldTipsAreRecorded'
    BY <1>7, <2>2 DEF RecordInv, ToldTipsAreRecorded
  <2>4. WorkerInv'
    BY <1>2, <1>7, <2>1 DEF RecordInv, WorkerInv, AfterPay
  <2> QED
    BY <1>7, <2>3, <2>4 DEF RecordInv, RecordedTipsArePaid
<1>8. CASE PaySent
  <2>1. worker.msg \in Messages /\ worker \in Working
    BY <1>1, <1>8 DEF PaySent, At
  <2>2. /\ worker'.pc = "record" /\ worker'.msg = worker.msg
        /\ worker'.tx = Len(paid) + 1
    BY <1>8, <2>1 DEF PaySent, Working
  <2>3. WorkerInv'
    BY <1>8, <2>1, <2>2, PaidAppended DEF PaySent, WorkerInv
  <2> QED
    BY <1>8, <2>1, <2>3, PayKeepsRecords DEF PaySent, RecordInv
<1>9. CASE PayLost
  <2>1. worker.msg \in Messages /\ worker'.pc = "decline"
    BY <1>1, <1>2, <1>9 DEF PayLost, At
  <2>2. WorkerInv'
    BY <2>1 DEF WorkerInv, AfterPay
  <2> QED
    BY <1>9, <2>1, <2>2, PayKeepsRecords DEF PayLost, RecordInv
<1>10. CASE Record
  <2>1. /\ worker # Idle /\ worker.pc = "record" /\ worker.msg.fav \in Favs
        /\ worker'.msg = worker.msg /\ worker'.tx = worker.tx /\ worker'.pc = "txrec"
        /\ UNCHANGED <<paid, txrecs, notes>>
    BY <1>1, <1>2, <1>10 DEF Record, At
  <2>2. /\ items' = items \union {worker.msg.fav}
        /\ txid' = [txid EXCEPT ![worker.msg.fav] = worker.tx]
    BY <1>10 DEF Record, NewTip, PutItem
  <2>3. /\ worker.tx = Len(paid) /\ worker.tx # 0 /\ paid[worker.tx] = worker.msg
    BY <2>1 DEF RecordInv, WorkerInv, AfterPay
  <2>4. WorkerInv'
    BY <2>1, <2>2, <2>3 DEF WorkerInv, TypeOK
  <2>5. RecordedTipsArePaid'
    BY <1>3, <2>1, <2>2, <2>3 DEF RecordInv, RecordedTipsArePaid, TypeOK
  <2>6. ToldTipsAreRecorded'
    <3>1. \A f \in Favs, n \in DOMAIN paid : txid[f] >= n => txid'[f] >= n
      BY <1>3, <2>1, <2>2, <2>3 DEF TypeOK
    <3>2. \A note \in notes : note.msg.fav \in Favs
      BY DEF TypeOK, Notes, Messages
    <3> QED
      BY <2>1, <2>2, <3>1, <3>2 DEF RecordInv, ToldTipsAreRecorded
  <2> QED
    BY <2>4, <2>5, <2>6 DEF RecordInv
<1>11. CASE RecordTransaction
  <2>1. /\ worker # Idle /\ worker.pc = "txrec"
        /\ worker'.msg = worker.msg /\ worker'.tx = worker.tx /\ worker'.pc = "tellSender"
        /\ txrecs' = txrecs \union {worker.tx}
        /\ UNCHANGED <<items, txid, paid, notes>>
    BY <1>2, <1>11 DEF RecordTransaction, At
  <2> QED
    BY <2>1 DEF RecordInv, WorkerInv, RecordedTipsArePaid, ToldTipsAreRecorded, AfterPay
<1>12. CASE TellSender \/ TellReceiver
  BY <1>7, <1>12 DEF TellSender, TellReceiver
<1>13. CASE FetchNil \/ Apologise
  BY <1>6, <1>13 DEF FetchNil, Apologise, At
<1>14. CASE Decline
  BY <1>1, <1>2, <1>5, <1>14 DEF Decline, At, AfterPay
<1>15. CASE Crash \/ \E m \in queue : Receive(m)
  BY <1>4, <1>15 DEF Crash, Receive, AfterPay, Idle
<1>16. CASE Delete \/ FetchOk \/ PayNil
  BY <1>2, <1>4, <1>16 DEF Delete, FetchOk, PayNil, At, AfterPay
<1>17. CASE LambdaNext
  BY <1>4, <1>17 DEF LambdaNext, PollStart, PollCheck, PollDie, SendOk, SendFail
<1>18. CASE CrawlNext
  <2>1. CASE CrawlWrite
    <3>1. <<crawler.user, Head(crawler.todo)>> \in Favs
      BY <2>1 DEF CrawlWrite, TypeOK, Crawling, Favs
    <3> QED
      BY <1>5, <2>1, <3>1 DEF CrawlWrite
  <2> QED
    BY <1>4, <1>18, <2>1 DEF CrawlNext, CrawlStart, FlagSeen, CrawlEnd, CrawlCrash
<1>19. CASE \/ \E u \in Users, t \in Tweets : Favor(u, t)
            \/ \E f \in Favs : CatchUp(f)
            \/ UNCHANGED vars
  BY <1>4, <1>19 DEF Favor, CatchUp, vars
<1> QED
  BY <1>8, <1>9, <1>10, <1>11, <1>12, <1>13, <1>14, <1>15, <1>16, <1>17, <1>18, <1>19
     DEF Next, WorkerNext, WorkerStep

\* At the start nothing is recorded.
LEMMA InitRecordInv == Init => RecordInv
BY DEF Init, RecordInv, WorkerInv, RecordedTipsArePaid, ToldTipsAreRecorded

\* The invariant holds in every reachable state.
LEMMA RecordInvariant == Spec => [](TypeOK /\ RecordInv)
BY InitTypeOK, NextTypeOK, InitRecordInv, NextRecordInv, PTL DEF Spec

\* The txid of an item is that of a payment for this very favorite.
THEOREM RecordedPaid == Spec => []RecordedTipsArePaid
<1>1. RecordInv => RecordedTipsArePaid
  BY DEF RecordInv
<1> QED
  BY <1>1, RecordInvariant, PTL

\* Nobody is told of a tip that cannot be looked up.
THEOREM ToldRecorded == Spec => []ToldTipsAreRecorded
<1>1. RecordInv => ToldTipsAreRecorded
  BY DEF RecordInv
<1> QED
  BY <1>1, RecordInvariant, PTL

\* A favorite never loses its tip: the one action that writes a txid writes the
\* last payment there is, and the others write none.
THEOREM TippedStays == Spec => TippedStaysTipped
<1> DEFINE Keeps == \A f \in Favs : txid[f] # 0 => txid'[f] >= txid[f]
<1>1. TypeOK /\ RecordInv /\ [Next]_vars => [Keeps]_vars
  <2> SUFFICES ASSUME TypeOK, RecordInv, Next PROVE Keeps
    OBVIOUS
  <2> USE DEF table, lambda, ledger, crawl
  <2>1. ASSUME UNCHANGED txid PROVE Keeps
    BY <2>1 DEF TypeOK
  <2>2. CASE Record
    <3>1. /\ worker.tx = Len(paid) /\ worker.msg.fav \in Favs /\ Len(paid) \in Nat
          /\ txid' = [txid EXCEPT ![worker.msg.fav] = worker.tx]
      BY <2>2 DEF Record, At, NewTip, RecordInv, WorkerInv, AfterPay, TypeOK, Working, Messages
    <3>2. \A f \in Favs : txid[f] \in Nat /\ txid[f] <= Len(paid)
      <4> TAKE f \in Favs
      <4>1. txid[f] \in Nat /\ (txid[f] # 0 => txid[f] \in DOMAIN paid)
        BY DEF RecordInv, RecordedTipsArePaid, TypeOK
      <4> QED
        BY <3>1, <4>1 DEF TypeOK
    <3> QED
      BY <3>1, <3>2 DEF TypeOK
  <2>3. CASE WorkerNext /\ ~Record
    BY <2>1, <2>3 DEF WorkerNext, WorkerStep, Receive, Delete, FetchOk, FetchNil, PaySent,
       PayLost, PayNil, RecordTransaction, TellSender, TellReceiver, Decline,
       UpdateFavorite, Apologise, Crash
  <2>4. CASE LambdaNext
    BY <2>1, <2>4 DEF LambdaNext, PollStart, PollCheck, PollDie, SendOk, SendFail
  <2>5. CASE CrawlNext
    BY <2>1, <2>5 DEF CrawlNext, CrawlStart, FlagSeen, CrawlWrite, UpdateFavorite, CrawlEnd, CrawlCrash
  <2>6. CASE \/ \E u \in Users, t \in Tweets : Favor(u, t)
             \/ \E f \in Favs : CatchUp(f)
    BY <2>1, <2>6 DEF Favor, CatchUp
  <2> QED
    BY <2>2, <2>3, <2>4, <2>5, <2>6 DEF Next
<1> QED
  BY <1>1, RecordInvariant, PTL DEF Spec, TippedStaysTipped

-----------------------------------------------------------------------------
(* A settled favorite is final.                                            *)

\* Writing items of any favorite leaves a settled one settled.
LEMMA PutKeepsSettled ==
  ASSUME NEW f \in Favs, NEW g \in Favs, f \in items, f \notin lagging, PutItem(g)
  PROVE  f \in items' /\ f \notin lagging'
BY DEF PutItem

\* One poll: a settled favorite is found, and so never sent again; and no send
\* for it is left that could still be delivered, whatever became of its run.
LEMMA LambdaKeepsSettled ==
  ASSUME TypeOK, NEW f \in Favs, Settled(f), LambdaNext
  PROVE  Settled(f)' /\ Payments(f)' = Payments(f)
<1> USE DEF table, lambda, ledger, crawl
<1>1. ASSUME UNCHANGED <<table, worker, paid>>, wire'[f] = 0, \A m \in queue' : m.fav # f
      PROVE  Settled(f)' /\ Payments(f)' = Payments(f)
  BY <1>1 DEF Settled, Payments
<1>2. f \in items /\ f \notin lagging /\ wire[f] = 0 /\ \A m \in queue : m.fav # f
  BY DEF Settled
<1>3. ASSUME NEW u \in Users, NEW r \in Runs, PollStart(u, r) \/ PollDie(u, r)
      PROVE  Settled(f)' /\ Payments(f)' = Payments(f)
  BY <1>1, <1>2, <1>3 DEF PollStart, PollDie
<1>4. ASSUME NEW u \in Users, NEW r \in Runs, PollCheck(u, r)
      PROVE  Settled(f)' /\ Payments(f)' = Payments(f)
  <2> DEFINE g == <<u, Head(poll[u][r])>>
  <2>1. UNCHANGED <<table, worker, paid, queue>>
    BY <1>4 DEF PollCheck
  <2>2. \/ UNCHANGED wire
        \/ (g \notin items \/ g \in lagging) /\ wire' = [wire EXCEPT ![g] = @ + 1]
    BY <1>4 DEF PollCheck
  <2> HIDE DEF g
  <2>3. wire'[f] = wire[f]
    BY <1>2, <2>2 DEF TypeOK
  <2> QED
    BY <1>1, <1>2, <2>1, <2>3
<1>5. ASSUME NEW g \in Favs, SendOk(g) \/ SendFail(g)
      PROVE  Settled(f)' /\ Payments(f)' = Payments(f)
  <2>1. wire[g] > 0 /\ wire' = [wire EXCEPT ![g] = @ - 1]
    BY <1>5 DEF SendOk, SendFail, Answered
  <2>2. g # f
    BY <1>2, <2>1
  <2>3. wire'[f] = wire[f]
    BY <2>1, <2>2 DEF TypeOK
  <2>4. \A m \in queue' : m.fav # f
    BY <1>2, <1>5, <2>2 DEF SendOk, SendFail
  <2>5. UNCHANGED <<table, worker, paid>>
    BY <1>5 DEF SendOk, SendFail
  <2> QED
    BY <1>1, <1>2, <2>3, <2>4, <2>5
<1> QED
  BY <1>3, <1>4, <1>5 DEF LambdaNext

\* The worker is busy with another favorite, and pays for that one.
LEMMA WorkerKeepsSettled ==
  ASSUME TypeOK, NEW f \in Favs, Settled(f), WorkerNext
  PROVE  Settled(f)' /\ Payments(f)' = Payments(f)
<1> USE DEF table, lambda, ledger, crawl
<1>1. worker # Idle => /\ worker \in Working /\ worker.msg \in Messages
                       /\ worker.msg.fav \in Favs /\ worker.msg.fav # f
  BY DEF TypeOK, Working, Messages, Settled
<1>2. ASSUME UNCHANGED <<wire, paid>>, queue' \subseteq queue,
             worker' = Idle \/ worker'.msg.fav # f,
             f \in items' /\ f \notin lagging'
      PROVE  Settled(f)' /\ Payments(f)' = Payments(f)
  BY <1>2 DEF Settled, Payments
<1>3. ASSUME NEW pc, worker # Idle, GoTo(pc)
      PROVE  worker'.msg = worker.msg
  BY <1>1, <1>3 DEF GoTo, Working
<1>4. ASSUME UNCHANGED <<items, lagging>> PROVE f \in items' /\ f \notin lagging'
  BY <1>4 DEF Settled
<1>5. ASSUME NEW m \in queue, Receive(m) PROVE Settled(f)' /\ Payments(f)' = Payments(f)
  <2>1. worker'.msg = m
    BY <1>5 DEF Receive
  <2>2. m.fav # f
    BY DEF Settled
  <2> QED
    BY <1>2, <1>4, <1>5, <2>1, <2>2 DEF Receive
<1>6. CASE Delete \/ FetchOk \/ PayNil \/ RecordTransaction \/ TellSender
  <2>1. worker # Idle /\ worker'.msg = worker.msg
    BY <1>3, <1>6 DEF Delete, FetchOk, PayNil, RecordTransaction, TellSender, At
  <2>2. /\ UNCHANGED <<wire, paid, items, lagging>> /\ queue' \subseteq queue
    BY <1>6 DEF Delete, FetchOk, PayNil, RecordTransaction, TellSender
  <2> QED
    BY <1>1, <1>2, <1>4, <2>1, <2>2
<1>7. CASE FetchNil \/ TellReceiver \/ Apologise \/ Crash
  BY <1>2, <1>4, <1>7 DEF FetchNil, TellReceiver, Apologise, Crash
<1>8. CASE PaySent \/ PayLost
  <2>1. worker # Idle /\ paid' = Append(paid, worker.msg)
        /\ UNCHANGED <<wire, items, lagging, queue>>
    BY <1>8 DEF PaySent, PayLost, At
  <2>2. worker'.msg = worker.msg
    BY <1>1, <1>3, <1>8 DEF PaySent, PayLost, At, Working
  <2>3. Payments(f)' = Payments(f)
    <3>1. \A n \in DOMAIN paid' :
            /\ n \in DOMAIN paid => paid'[n] = paid[n]
            /\ n \notin DOMAIN paid => paid'[n] = worker.msg
      BY <1>1, <2>1, PaidAppended
    <3>2. DOMAIN paid \subseteq DOMAIN paid'
      BY <1>1, <2>1, PaidAppended
    <3> QED
      BY <1>1, <2>1, <3>1, <3>2 DEF Payments
  <2> QED
    BY <1>1, <2>1, <2>2, <2>3 DEF Settled
<1>9. CASE Record \/ Decline
  <2>1. worker # Idle /\ worker'.msg = worker.msg /\ PutItem(worker.msg.fav)
    BY <1>3, <1>9 DEF Record, Decline, NewTip, UpdateFavorite, At
  <2>2. f \in items' /\ f \notin lagging'
    BY <1>1, <2>1, PutKeepsSettled DEF Settled
  <2>3. UNCHANGED <<wire, paid, queue>>
    BY <1>9 DEF Record, Decline
  <2> QED
    BY <1>1, <1>2, <2>1, <2>2, <2>3
<1> QED
  BY <1>5, <1>6, <1>7, <1>8, <1>9 DEF WorkerNext, WorkerStep

\* Once everything under way for a favorite is over, no poll, no crawl and no
\* worker moves money for it again, nor starts anything that could.
THEOREM SettledFinal == Spec => SettledIsFinal
<1> DEFINE Final == \A f \in Favs : Settled(f) => Settled(f)' /\ Payments(f)' = Payments(f)
<1>1. TypeOK /\ [Next]_vars => [Final]_vars
  <2> SUFFICES ASSUME TypeOK, Next, NEW f \in Favs, Settled(f)
               PROVE  Settled(f)' /\ Payments(f)' = Payments(f)
    OBVIOUS
  <2> USE DEF table, lambda, ledger, crawl
  <2>1. ASSUME UNCHANGED <<wire, queue, worker, paid>>, f \in items', f \notin lagging'
        PROVE  Settled(f)' /\ Payments(f)' = Payments(f)
    BY <2>1 DEF Settled, Payments
  <2>2. ASSUME UNCHANGED items, lagging' \subseteq lagging
        PROVE  f \in items' /\ f \notin lagging'
    BY <2>2 DEF Settled
  <2>3. CASE CrawlWrite
    <3>1. <<crawler.user, Head(crawler.todo)>> \in Favs
      BY <2>3 DEF CrawlWrite, TypeOK, Crawling, Favs
    <3>2. f \in items' /\ f \notin lagging'
      BY <2>3, <3>1, PutKeepsSettled DEF CrawlWrite, UpdateFavorite, Settled
    <3> QED
      BY <2>1, <2>3, <3>2 DEF CrawlWrite
  <2>4. CASE (\E u \in Users : CrawlStart(u) \/ FlagSeen(u)) \/ CrawlEnd \/ CrawlCrash
    BY <2>1, <2>2, <2>4 DEF CrawlStart, FlagSeen, CrawlEnd, CrawlCrash
  <2>5. CASE \/ \E u \in Users, t \in Tweets : Favor(u, t)
             \/ \E g \in Favs : CatchUp(g)
    BY <2>1, <2>2, <2>5 DEF Favor, CatchUp
  <2> QED
    BY <2>3, <2>4, <2>5, LambdaKeepsSettled, WorkerKeepsSettled DEF Next, CrawlNext
<1> QED
  BY <1>1, InitTypeOK, NextTypeOK, PTL DEF Spec, SettledIsFinal

-----------------------------------------------------------------------------
(* The worker over the wallet.                                             *)

\* Every step is one of TipPipeline or leaves the pipeline alone.
LEMMA StepOfPipeline == [PaidNext]_paidVars => [Next]_vars
<1> SUFFICES ASSUME [PaidNext]_paidVars PROVE [Next]_vars
  OBVIOUS
<1>1. CASE PayBegins
  BY <1>1 DEF PayBegins
<1>2. CASE PayBroadcasts
  BY <1>2 DEF PayBroadcasts, Next, WorkerNext, WorkerStep
<1>3. CASE PayRefused
  BY <1>3 DEF PayRefused, Next, WorkerNext, WorkerStep
<1>4. CASE PayDies
  BY <1>4 DEF PayDies, Next, WorkerNext
<1>5. CASE Elsewhere
  BY <1>5 DEF Elsewhere
<1>6. CASE OthersPay
  BY <1>6 DEF OthersPay
<1>7. CASE UNCHANGED paidVars
  BY <1>7 DEF paidVars
<1> QED
  BY <1>1, <1>2, <1>3, <1>4, <1>5, <1>6, <1>7 DEF PaidNext

\* Every step is one of Wallet or leaves the wallet alone: the worker keeps to
\* the steps of B.tip_user, with addresses of users.
LEMMA StepOfWallet == TypeOK /\ [PaidNext]_paidVars => [Bank!Next]_chain
<1> SUFFICES ASSUME TypeOK, [PaidNext]_paidVars PROVE [Bank!Next]_chain
  OBVIOUS
<1> "tip" \in Bank!Kinds
  BY DEF Bank!Kinds
<1>1. CASE PayBegins
  <2>1. worker.msg \in Messages
    BY <1>1 DEF PayBegins, At, TypeOK, Working
  <2>2. From(worker.msg) \in Owned /\ To(worker.msg) \in Owned
    BY <2>1, AddressAssumption DEF From, To, Messages, Favs
  <2> QED
    BY <1>1, <2>2 DEF PayBegins, Bank!Next
<1>2. CASE PayBroadcasts
  BY <1>2 DEF PayBroadcasts, Bank!Next
<1>3. CASE PayRefused \/ PayDies
  BY <1>3 DEF PayRefused, PayDies, CallEnds, Bank!Next
<1>4. CASE Elsewhere \/ UNCHANGED paidVars
  BY <1>4 DEF Elsewhere, paidVars
<1>5. CASE OthersPay
  BY <1>5 DEF OthersPay
<1> QED
  BY <1>1, <1>2, <1>3, <1>4, <1>5 DEF PaidNext

\* Over the wallet the pipeline does what TipPipeline says: a payment in one
\* step is what the calls of B.tip_user, whatever comes between them, amount to.
\* So all that is said of TipPipeline holds here, what must happen included.
THEOREM PipelineInside == (PaidSpec => Spec) /\ (PaidFairSpec => FairSpec)
<1>1. PaidInit => Init
  BY DEF PaidInit
<1> QED
  BY <1>1, StepOfPipeline, PTL DEF PaidSpec, Spec, PaidFairSpec, FairSpec

LEMMA PaidTypeOK == PaidSpec => []TypeOK
BY PipelineInside, TypeCorrect, PTL

\* With the tips worker as its caller the wallet does what Wallet says: the
\* fees and AccountLedger hold here, too.
THEOREM WalletInside == PaidSpec => Bank!Spec
<1>1. PaidInit => Bank!Init
  BY DEF PaidInit
<1>2. TypeOK /\ [PaidNext]_paidVars => [Bank!Next]_(Bank!vars)
  BY StepOfWallet DEF chain, Bank!vars
<1> QED
  BY <1>1, <1>2, PaidTypeOK, PTL DEF PaidSpec, Bank!Spec

-----------------------------------------------------------------------------
(* What the worker pays is what the chain has.                             *)

\* A call of B.tip_user in progress is that of the worker, for the message it
\* is about to pay.  ChainHasPaidTips needs it: what a broadcast puts on the
\* chain was decided when the call began.
CallOfWorker ==
  call["tip"] # Bank!Idle =>
    /\ At("pay")
    /\ call["tip"].from = From(worker.msg)
    /\ call["tip"].to = To(worker.msg)

\* The chain and the calls are a sequence and a function on the kinds of calls.
ChainForm ==
  /\ \E S : txs \in Seq(S)
  /\ onchain \in Seq(Nat)
  /\ DOMAIN call = Bank!Kinds /\ call = [k \in Bank!Kinds |-> call[k]]

ChainInv == ChainForm /\ CallOfWorker /\ ChainHasPaidTips

\* A sequence that one element is appended to.
LEMMA Appended ==
  ASSUME NEW s, \E S : s \in Seq(S), NEW x
  PROVE  /\ \E S : Append(s, x) \in Seq(S)
         /\ Len(s) \in Nat /\ DOMAIN s = 1 .. Len(s)
         /\ DOMAIN Append(s, x) = 1 .. Len(s) + 1
         /\ \A i \in 1 .. Len(s) : Append(s, x)[i] = s[i]
         /\ Append(s, x)[Len(s) + 1] = x
<1>1. PICK S : s \in Seq(S)
  OBVIOUS
<1>2. s \in Seq(S \union {x})
  <2>1. Len(s) \in Nat /\ s \in [1 .. Len(s) -> S]
    BY <1>1, LenProperties
  <2> QED
    BY <2>1, SeqDef
<1>3. Append(s, x) \in Seq(S \union {x})
  BY <1>2
<1> QED
  BY <1>2, <1>3

LEMMA InLonger ==
  ASSUME NEW n \in Nat, NEW x, x \in 1 .. n
  PROVE  x \in 1 .. n + 1 /\ x # n + 1
OBVIOUS

\* A transaction for a payment that the worker has just made.
LEMMA PaymentKeepsChain ==
  ASSUME ChainInv, NEW tx, NEW m, \E S : paid \in Seq(S),
         txs' = Append(txs, tx), tx.kind = "tip", IsTipFor(tx, m),
         paid' = Append(paid, m), onchain' = Append(onchain, Len(txs) + 1)
  PROVE  ChainHasPaidTips'
<1> DEFINE i == Len(txs) + 1
           n == Len(paid) + 1
<1>1. /\ DOMAIN txs = 1 .. Len(txs) /\ DOMAIN txs' = 1 .. i /\ Len(txs) \in Nat
      /\ \A j \in 1 .. Len(txs) : txs'[j] = txs[j]
      /\ txs'[i] = tx
  BY Appended DEF ChainInv, ChainForm
<1>2. /\ DOMAIN paid = 1 .. Len(paid) /\ DOMAIN paid' = 1 .. n /\ Len(paid) \in Nat
      /\ \A j \in 1 .. Len(paid) : paid'[j] = paid[j]
      /\ paid'[n] = m
  BY Appended
<1>3. /\ DOMAIN onchain = 1 .. Len(paid) /\ DOMAIN onchain' = 1 .. n
      /\ \A j \in 1 .. Len(paid) : onchain'[j] = onchain[j]
      /\ onchain'[n] = i
  <2>1. DOMAIN onchain = 1 .. Len(paid)
    BY <1>2 DEF ChainInv, ChainHasPaidTips
  <2>2. Len(onchain) = Len(paid)
    BY <1>2, <2>1 DEF ChainInv, ChainForm
  <2> QED
    BY <2>2 DEF ChainInv, ChainForm
<1>4. \A j \in 1 .. Len(paid) : onchain[j] \in 1 .. Len(txs) /\ onchain[j] # i
  BY <1>1, <1>2 DEF ChainInv, ChainHasPaidTips
<1>5. \A j \in 1 .. n : j \in 1 .. Len(paid) \/ j = n
  BY <1>2
<1>6. \A j \in 1 .. i : j \in 1 .. Len(txs) \/ j = i
  BY <1>1
<1>7. \A j \in 1 .. Len(paid) : IsTipFor(txs[onchain[j]], paid[j])
  BY <1>2 DEF ChainInv, ChainHasPaidTips
<1>8. \A j \in DOMAIN paid' :
        onchain'[j] \in DOMAIN txs' /\ IsTipFor(txs'[onchain'[j]], paid'[j])
  <2> SUFFICES ASSUME NEW j \in 1 .. n
               PROVE  onchain'[j] \in 1 .. i /\ IsTipFor(txs'[onchain'[j]], paid'[j])
    BY <1>1, <1>2
  <2>1. CASE j \in 1 .. Len(paid)
    <3>1. onchain'[j] = onchain[j] /\ onchain[j] \in 1 .. Len(txs)
      BY <1>3, <1>4, <2>1
    <3>2. onchain'[j] \in 1 .. i
      BY <1>1, <3>1, InLonger, Zenon
    <3>3. txs'[onchain'[j]] = txs[onchain[j]] /\ paid'[j] = paid[j]
      BY <1>1, <1>2, <2>1, <3>1
    <3>4. IsTipFor(txs[onchain[j]], paid[j])
      BY <1>7, <2>1
    <3> HIDE DEF i
    <3>5. IsTipFor(txs'[onchain'[j]], paid'[j])
      BY <3>3, <3>4, Zenon
    <3> QED
      BY <3>2, <3>5 DEF i
  <2>2. CASE j = n
    BY <1>1, <1>2, <1>3, <2>2
  <2> QED
    BY <1>5, <2>1, <2>2
<1>9. \A j \in DOMAIN txs' : txs'[j].kind = "tip" =>
        \E k \in DOMAIN onchain' : onchain'[k] = j
  <2> SUFFICES ASSUME NEW j \in 1 .. i, txs'[j].kind = "tip"
               PROVE  \E k \in 1 .. n : onchain'[k] = j
    BY <1>1, <1>3
  <2>1. CASE j \in 1 .. Len(txs)
    <3>1. PICK k \in DOMAIN onchain : onchain[k] = j
      BY <1>1, <2>1 DEF ChainInv, ChainHasPaidTips
    <3> QED
      BY <1>2, <1>3, <3>1
  <2>2. CASE j = i
    BY <1>2, <1>3, <2>2
  <2> QED
    BY <1>6, <2>1, <2>2
<1>10. \A j, k \in DOMAIN onchain' : j # k => onchain'[j] # onchain'[k]
  <2>1. \A j, k \in 1 .. Len(paid) : j # k => onchain[j] # onchain[k]
    BY <1>3 DEF ChainInv, ChainHasPaidTips
  <2> QED
    BY <1>3, <1>4, <1>5, <2>1
<1> QED
  BY <1>2, <1>3, <1>8, <1>9, <1>10 DEF ChainHasPaidTips, IsTipFor, From, To

\* Transactions of the others are no tips and leave the tips where they are.
LEMMA OthersKeepChain ==
  ASSUME ChainInv, UNCHANGED <<paid, onchain>>,
         \/ UNCHANGED txs
         \/ \E tx : txs' = Append(txs, tx) /\ tx.kind # "tip"
  PROVE  ChainHasPaidTips'
<1>1. CASE UNCHANGED txs
  BY <1>1 DEF ChainInv, ChainHasPaidTips, IsTipFor, From, To
<1>2. ASSUME NEW tx, txs' = Append(txs, tx), tx.kind # "tip"
      PROVE  ChainHasPaidTips'
  <2>1. /\ DOMAIN txs = 1 .. Len(txs) /\ DOMAIN txs' = 1 .. Len(txs) + 1 /\ Len(txs) \in Nat
        /\ \A j \in 1 .. Len(txs) : txs'[j] = txs[j]
        /\ txs'[Len(txs) + 1] = tx
    BY <1>2, Appended DEF ChainInv, ChainForm
  <2>2. \A j \in 1 .. Len(txs) + 1 : j \in 1 .. Len(txs) \/ j = Len(txs) + 1
    BY <2>1
  <2>3. DOMAIN onchain' = DOMAIN paid'
    BY DEF ChainInv, ChainHasPaidTips
  <2>4. \A j \in DOMAIN paid' :
          onchain'[j] \in DOMAIN txs' /\ IsTipFor(txs'[onchain'[j]], paid'[j])
    <3> SUFFICES ASSUME NEW j \in DOMAIN paid
                 PROVE  onchain[j] \in DOMAIN txs' /\ IsTipFor(txs'[onchain[j]], paid[j])
      BY DEF IsTipFor, From, To
    <3>1. onchain[j] \in 1 .. Len(txs) /\ IsTipFor(txs[onchain[j]], paid[j])
      BY <2>1 DEF ChainInv, ChainHasPaidTips
    <3>2. onchain[j] \in 1 .. Len(txs) + 1
      BY <2>1, <3>1
    <3>3. txs'[onchain[j]] = txs[onchain[j]]
      BY <2>1, <3>1
    <3> QED
      BY <2>1, <3>1, <3>2, <3>3 DEF IsTipFor
  <2>5. \A j \in DOMAIN txs' : txs'[j].kind = "tip" => \E k \in DOMAIN onchain' : onchain'[k] = j
    BY <1>2, <2>1, <2>2 DEF ChainInv, ChainHasPaidTips
  <2>6. \A j, k \in DOMAIN onchain' : j # k => onchain'[j] # onchain'[k]
    BY DEF ChainInv, ChainHasPaidTips
  <2> QED
    BY <2>3, <2>4, <2>5, <2>6 DEF ChainHasPaidTips, IsTipFor, From, To
<1> QED
  BY <1>1, <1>2

\* The outputs of a tip pay the author, whatever the change.
LEMMA TipPaysAuthor ==
  ASSUME NEW n, NEW c
  PROVE  \E o \in Bank!Outputs("tip", n, c) : o.addr = c.to /\ o.amt = TipAmount
<1> DEFINE o == [tx |-> n, addr |-> c.to, amt |-> TipAmount]
<1>1. o \in Bank!Outputs("tip", n, c)
  BY DEF Bank!Outputs, Bank!TipOutputs, Bank!PayAndChange
<1> QED
  BY <1>1

\* A pipeline step that leaves a worker about to pay as it is pays nothing.
LEMMA ElsewherePaysNothing ==
  ASSUME TypeOK, Next, At("pay") => worker' = worker
  PROVE  paid' = paid
<1>1. ~(PaySent \/ PayLost)
  <2>1. At("pay") => worker.pc = "pay" /\ worker \in Working
    BY DEF At, TypeOK
  <2>2. PaySent => worker'.pc = "record"
    BY <2>1 DEF PaySent, Working
  <2>3. PayLost => worker'.pc = "decline"
    BY <2>1 DEF PayLost, GoTo, Working
  <2> QED
    BY <2>1, <2>2, <2>3 DEF PaySent, PayLost
<1>2. CASE WorkerNext
  BY <1>1, <1>2 DEF WorkerNext, WorkerStep, Receive, Delete, FetchOk, FetchNil, PayNil, Record,
     RecordTransaction, TellSender, TellReceiver, Decline, Apologise, Crash, ledger
<1>3. CASE LambdaNext
  BY <1>3 DEF LambdaNext, PollStart, PollCheck, PollDie, SendOk, SendFail, ledger
<1>4. CASE CrawlNext
  BY <1>4 DEF CrawlNext, CrawlStart, FlagSeen, CrawlWrite, CrawlEnd, CrawlCrash, ledger
<1>5. CASE \/ \E u \in Users, t \in Tweets : Favor(u, t)
           \/ \E f \in Favs : CatchUp(f)
  BY <1>5 DEF Favor, CatchUp, ledger
<1> QED
  BY <1>2, <1>3, <1>4, <1>5 DEF Next

\* What a call of the tips worker changes in the table of calls.
LEMMA CallsForm ==
  ASSUME ChainForm, NEW k \in Bank!Kinds, NEW c, call' = [call EXCEPT ![k] = c]
  PROVE  /\ DOMAIN call' = Bank!Kinds /\ call' = [j \in Bank!Kinds |-> call'[j]]
         /\ call'[k] = c
         /\ \A j \in Bank!Kinds \ {k} : call'[j] = call[j]
<1>1. call = [j \in Bank!Kinds |-> call[j]]
  BY DEF ChainForm
<1>2. call' = [j \in Bank!Kinds |-> IF j = k THEN c ELSE call[j]]
  BY <1>1
<1> QED
  BY <1>2

\* At the start there is no payment and no tip.
LEMMA InitChainInv == PaidInit => ChainInv
<1> SUFFICES ASSUME PaidInit PROVE ChainInv
  OBVIOUS
<1>1. /\ paid = <<>> /\ onchain = <<>>
      /\ txs = [i \in 1 .. Len(Seed) |-> Bank!Deposited(i, Seed[i].addr, Seed[i].amt)]
      /\ call = [k \in Bank!Kinds |-> Bank!Idle]
  BY DEF PaidInit, Init, Bank!Init
<1>2. Len(Seed) \in Nat
  BY BankAssumption DEF Bank!SeedAssumption
<1>3. \A i \in 1 .. Len(Seed) : txs[i].kind = "deposit"
  BY <1>1 DEF Bank!Deposited
<1>4. ChainForm
  <2>1. txs \in Seq({txs[i] : i \in 1 .. Len(Seed)})
    BY <1>1, <1>2
  <2>2. \E S : txs \in Seq(S)
    BY <2>1
  <2> QED
    BY <1>1, <2>2 DEF ChainForm
<1>5. CallOfWorker
  BY <1>1 DEF CallOfWorker, Bank!Kinds
<1>6. ChainHasPaidTips
  BY <1>1, <1>2, <1>3 DEF ChainHasPaidTips
<1> QED
  BY <1>4, <1>5, <1>6 DEF ChainInv

\* What a step of the wallet appends to the chain, and what it leaves of the
\* calls: a tip only when the tips worker broadcasts.
LEMMA BankStep ==
  ASSUME ChainForm, Bank!Next, UNCHANGED onchain
  PROVE  /\ ChainForm'
         /\ \/ UNCHANGED txs
            \/ \E tx : txs' = Append(txs, tx) /\ tx.kind # "tip"
            \/ call["tip"] # Bank!Idle /\ call'["tip"] = Bank!Idle
<1> DEFINE Form == /\ \E S : txs' \in Seq(S)
                   /\ DOMAIN call' = Bank!Kinds /\ call' = [k \in Bank!Kinds |-> call'[k]]
           Grown == \/ UNCHANGED txs
                    \/ \E tx : txs' = Append(txs, tx) /\ tx.kind # "tip"
                    \/ call["tip"] # Bank!Idle /\ call'["tip"] = Bank!Idle
<1> SUFFICES Form /\ Grown
  BY DEF ChainForm
<1> USE DEF Bank!Kinds
<1>1. ASSUME NEW k \in Bank!Kinds, NEW c, call' = [call EXCEPT ![k] = c], UNCHANGED txs
      PROVE  Form /\ Grown
  <2>1. DOMAIN call' = Bank!Kinds /\ call' = [j \in Bank!Kinds |-> call'[j]]
    BY <1>1, CallsForm
  <2> QED
    BY <1>1, <2>1 DEF ChainForm
<1>2. CASE \/ \E from, to \in Owned : Bank!BeginTip(from, to)
           \/ \E to \in Owned : Bank!BeginFund(to)
           \/ \E from \in Owned, to \in Bank!Addrs : Bank!BeginWithdraw(from, to)
  <2>1. ASSUME NEW k \in Bank!Kinds, NEW from, NEW to, Bank!Read(k, from, to)
        PROVE  Form /\ Grown
    BY <1>1, <2>1 DEF Bank!Read
  <2> QED
    BY <1>2, <2>1 DEF Bank!BeginTip, Bank!BeginFund, Bank!BeginWithdraw
<1>3. ASSUME NEW k \in Bank!Kinds, Bank!GiveUp(k) PROVE Form /\ Grown
  BY <1>1, <1>3 DEF Bank!GiveUp
<1>4. ASSUME NEW k \in Bank!Kinds, Bank!Broadcast(k) PROVE Form /\ Grown
  <2> DEFINE tx == [kind |-> k, from |-> call[k].from, to |-> call[k].to,
                    ins |-> call[k].ins, outs |-> Bank!Outputs(k, Len(txs) + 1, call[k])]
  <2>1. /\ call[k] # Bank!Idle /\ txs' = Append(txs, tx)
        /\ call' = [call EXCEPT ![k] = Bank!Idle]
    BY <1>4 DEF Bank!Broadcast
  <2>2. DOMAIN call' = Bank!Kinds /\ call' = [j \in Bank!Kinds |-> call'[j]]
    BY <2>1, CallsForm
  <2>3. call'[k] = Bank!Idle
    BY <2>1, CallsForm
  <2>4. \E S : txs' \in Seq(S)
    BY <2>1, Appended DEF ChainForm
  <2>5. tx.kind = k
    OBVIOUS
  <2> HIDE DEF tx
  <2> QED
    BY <2>1, <2>2, <2>3, <2>4, <2>5
<1>5. ASSUME NEW to, NEW amt, Bank!Deposit(to, amt) PROVE Form /\ Grown
  <2> DEFINE tx == Bank!Deposited(Len(txs) + 1, to, amt)
  <2>1. txs' = Append(txs, tx) /\ UNCHANGED call
    BY <1>5 DEF Bank!Deposit
  <2>2. \E S : txs' \in Seq(S)
    BY <2>1, Appended DEF ChainForm
  <2>3. tx.kind = "deposit"
    BY DEF Bank!Deposited
  <2> HIDE DEF tx
  <2> QED
    BY <2>1, <2>2, <2>3 DEF ChainForm
<1> QED
  BY <1>2, <1>3, <1>4, <1>5 DEF Bank!Next

\* The broadcast of the worker is a tip for the message it is about to pay,
\* whoever moved money since it read the coins.
LEMMA BroadcastIsTip ==
  ASSUME ChainInv, Bank!Broadcast("tip")
  PROVE  \E tx : /\ txs' = Append(txs, tx)
                 /\ tx.kind = "tip" /\ IsTipFor(tx, worker.msg)
<1> DEFINE c == call["tip"]
           outs == Bank!Outputs("tip", Len(txs) + 1, c)
           tx == [kind |-> "tip", from |-> c.from, to |-> c.to, ins |-> c.ins, outs |-> outs]
<1>1. c # Bank!Idle /\ txs' = Append(txs, tx)
  BY DEF Bank!Broadcast
<1>2. c.from = From(worker.msg) /\ c.to = To(worker.msg)
  BY <1>1 DEF ChainInv, CallOfWorker
<1>3. \E o \in outs : o.addr = c.to /\ o.amt = TipAmount
  BY TipPaysAuthor
<1>4. tx.kind = "tip" /\ tx.from = c.from /\ tx.to = c.to /\ tx.outs = outs
  OBVIOUS
<1> HIDE DEF tx, outs, c
<1>5. IsTipFor(tx, worker.msg)
  BY <1>2, <1>3, <1>4 DEF IsTipFor
<1> QED
  BY <1>1, <1>4, <1>5

LEMMA NextChainInv == TypeOK /\ ChainInv /\ [PaidNext]_paidVars => ChainInv'
<1> SUFFICES ASSUME TypeOK, ChainInv, [PaidNext]_paidVars PROVE ChainInv'
  OBVIOUS
<1> "tip" \in Bank!Kinds
  BY DEF Bank!Kinds
<1>1. CASE PayBegins
  <2>1. PICK ins : /\ call' = [call EXCEPT !["tip"] =
                        [pc |-> "send", from |-> From(worker.msg), to |-> To(worker.msg), ins |-> ins]]
                   /\ UNCHANGED <<txs, vars, onchain>> /\ At("pay")
    BY <1>1 DEF PayBegins, Bank!BeginTip, Bank!Read
  <2>2. UNCHANGED <<paid, worker>>
    BY <2>1 DEF vars, ledger
  <2>3. ChainForm'
    BY <2>1, CallsForm DEF ChainInv, ChainForm
  <2>4. CallOfWorker'
    <3>1. call'["tip"].from = From(worker.msg) /\ call'["tip"].to = To(worker.msg)
      BY <2>1, CallsForm DEF ChainInv
    <3> QED
      BY <2>1, <2>2, <3>1 DEF CallOfWorker, At, From, To
  <2>5. ChainHasPaidTips'
    BY <2>1, <2>2, OthersKeepChain
  <2> QED
    BY <2>3, <2>4, <2>5 DEF ChainInv
<1>2. CASE PayBroadcasts
  <2>1. /\ Bank!Broadcast("tip") /\ paid' = Append(paid, worker.msg)
        /\ onchain' = Append(onchain, Len(txs) + 1)
    BY <1>2 DEF PayBroadcasts, PaySent, PayLost
  <2>2. PICK tx : /\ txs' = Append(txs, tx)
                  /\ tx.kind = "tip" /\ IsTipFor(tx, worker.msg)
    BY <2>1, BroadcastIsTip
  <2>3. call' = [call EXCEPT !["tip"] = Bank!Idle]
    BY <2>1 DEF Bank!Broadcast
  <2>4. ChainForm'
    <3>1. /\ \E S : txs' \in Seq(S)
          /\ Len(txs) \in Nat
      BY <2>2, Appended DEF ChainInv, ChainForm
    <3>2. onchain' \in Seq(Nat)
      BY <2>1, <3>1 DEF ChainInv, ChainForm
    <3> QED
      BY <2>3, <3>1, <3>2, CallsForm DEF ChainInv, ChainForm
  <2>5. CallOfWorker'
    BY <2>3, CallsForm DEF ChainInv, CallOfWorker
  <2>6. ChainHasPaidTips'
    <3>1. \E S : paid \in Seq(S)
      BY DEF TypeOK
    <3> QED
      BY <2>1, <2>2, <3>1, PaymentKeepsChain
  <2> QED
    BY <2>4, <2>5, <2>6 DEF ChainInv
<1>3. CASE PayRefused \/ PayDies
  <2>1. CallEnds /\ UNCHANGED <<paid, onchain>>
    BY <1>3 DEF PayRefused, PayDies, PayNil, Crash, CallEnds, ledger
  <2>2. UNCHANGED txs
    BY <2>1 DEF CallEnds, chain, Bank!GiveUp
  <2>3. ChainForm' /\ call'["tip"] = Bank!Idle
    <3>1. CASE call["tip"] = Bank!Idle
      BY <2>1, <3>1 DEF CallEnds, chain, ChainInv, ChainForm
    <3>2. CASE call' = [call EXCEPT !["tip"] = Bank!Idle]
      BY <2>1, <2>2, <3>2, CallsForm DEF ChainInv, ChainForm
    <3> QED
      BY <2>1, <3>1, <3>2 DEF CallEnds, Bank!GiveUp
  <2>4. ChainHasPaidTips'
    BY <2>1, <2>2, OthersKeepChain
  <2> QED
    BY <2>3, <2>4 DEF ChainInv, CallOfWorker
<1>4. CASE Elsewhere
  <2>1. UNCHANGED <<paid, onchain, txs, call>> /\ (At("pay") => worker' = worker)
    BY <1>4, ElsewherePaysNothing DEF Elsewhere, chain
  <2>2. ChainHasPaidTips'
    BY <2>1, OthersKeepChain
  <2>3. CallOfWorker'
    BY <2>1 DEF ChainInv, CallOfWorker, At, From, To
  <2> QED
    BY <2>1, <2>2, <2>3 DEF ChainInv, ChainForm
<1>5. CASE OthersPay
  <2>1. Bank!Next /\ UNCHANGED <<paid, worker, onchain>> /\ call'["tip"] = call["tip"]
    BY <1>5 DEF OthersPay, vars, ledger
  <2>2. ChainForm' /\ \/ UNCHANGED txs
                      \/ \E tx : txs' = Append(txs, tx) /\ tx.kind # "tip"
    BY <2>1, BankStep DEF ChainInv
  <2>3. ChainHasPaidTips'
    BY <2>1, <2>2, OthersKeepChain
  <2>4. CallOfWorker'
    BY <2>1 DEF ChainInv, CallOfWorker, At, From, To
  <2> QED
    BY <2>2, <2>3, <2>4 DEF ChainInv
<1>6. CASE UNCHANGED paidVars
  <2>1. UNCHANGED <<paid, worker, onchain, txs, call>>
    BY <1>6 DEF paidVars, vars, ledger, chain
  <2>2. ChainHasPaidTips'
    BY <2>1, OthersKeepChain
  <2> QED
    BY <2>1, <2>2 DEF ChainInv, ChainForm, CallOfWorker, At, From, To
<1> QED
  BY <1>1, <1>2, <1>3, <1>4, <1>5, <1>6 DEF PaidNext

LEMMA ChainInvariant == PaidSpec => []ChainInv
<1> QED
  BY InitChainInv, NextChainInv, PaidTypeOK, PTL DEF PaidSpec

\* The node's chain has one tip for each payment of the worker and no other.
THEOREM ChainHasPaid == PaidSpec => []ChainHasPaidTips
<1>1. ChainInv => ChainHasPaidTips
  BY DEF ChainInv
<1> QED
  BY <1>1, ChainInvariant, PTL

\* Whoever is told of a tip can find it on the chain: told tips are paid
\* payments, and those are on the chain.
THEOREM ToldOnChain == PaidSpec => []ToldTipsAreOnChain
<1>1. ToldTipsAreRecorded /\ ChainHasPaidTips => ToldTipsAreOnChain
  <2> SUFFICES ASSUME ToldTipsAreRecorded, ChainHasPaidTips,
                      NEW note \in notes, note.type # "low_balance"
               PROVE  \E tx \in {txs[i] : i \in DOMAIN txs} : IsTipFor(tx, note.msg)
    BY DEF ToldTipsAreOnChain
  <2>1. PICK n \in DOMAIN paid : paid[n] = note.msg
    BY DEF ToldTipsAreRecorded
  <2>2. onchain[n] \in DOMAIN txs /\ IsTipFor(txs[onchain[n]], note.msg)
    BY <2>1 DEF ChainHasPaidTips
  <2> QED
    BY <2>2
<1>2. PaidSpec => []ToldTipsAreRecorded
  BY PipelineInside, ToldRecorded, PTL
<1> QED
  BY <1>1, <1>2, ChainHasPaid, PTL
=============================================================================
