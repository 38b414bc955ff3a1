----------------------------- MODULE TipPipeline -----------------------------
(***************************************************************************)
(* From a favorite on Twitter to a recorded tip.                           *)
(*                                                                         *)
(* For every user the poller invokes the Lambda function PollUserFavorites *)
(* again and again.  It lists the newest favorites, looks each up in the   *)
(* table TipperTips and sends an SQS message for those it does not find.   *)
(* The tips worker (lib/process_tips_worker.rb) takes a message, deletes   *)
(* it, pays through B.tip_user, writes the tip and notifies both users.    *)
(* The deep crawl (lib/fetch_favorites_worker.rb) writes old favorites     *)
(* into the same table without paying.                                     *)
(*                                                                         *)
(* Nothing but the table connects the end of this loop to its beginning,   *)
(* the table is read with eventual consistency, and any process may die    *)
(* between two steps.  The payment itself is module Wallet; here it is     *)
(* sent, refused, or sent with the answer lost.                            *)
(***************************************************************************)
EXTENDS Integers, Sequences, FiniteSets

CONSTANTS
  Users,      \* users with automatic tipping on
  Tweets,     \* tweets they may favorite
  Runs,       \* runs of the function that may overlap for one user
  Window,     \* how many favorites a poll lists ("count": 5)
  MaxSends,   \* bound: messages for one favorite, sent or being sent
  MaxFaults   \* bound: crashes, refused fetches and lost answers

ASSUME BoundsAssumption ==
  /\ Window \in Nat \ {0}
  /\ MaxSends \in Nat
  /\ MaxFaults \in Nat

VARIABLES
  favs,     \* favs[u]: what u favorited, newest first (Twitter's)
  items,    \* the keys (FromUserID, ObjectID) that TipperTips has an item for
  txid,     \* txid[f]: the attribute txid of the item, 0 when it has none
  lagging,  \* items that a getItem may still miss
  poll,     \* poll[u][r]: the favorites that run r for u has yet to look up
  wire,     \* wire[f]: how many requests to send a message for f are under way
  sends,    \* sends[f]: how many messages were sent for f
  queue,    \* messages in SQS that nobody has deleted
  worker,   \* the message the tips worker is processing, and where it is
  paid,     \* the tips bitcoind broadcast; a txid is an index of this sequence
  txrecs,   \* the txids that TipperBitcoinTransactions has an item for
  notes,    \* notifications in TipperNotifications
  crawled,  \* users with the attribute TwittterDeepCrawledAt
  unseen,   \* those of them whose attribute a getItem may still miss
  crawler,  \* the deep crawl under way
  faults    \* how many faults there were

table == <<items, txid, lagging>>
lambda == <<poll, wire, sends>>
ledger == <<paid, txrecs>>
crawl == <<crawled, unseen, crawler>>
vars == <<favs, table, lambda, queue, worker, ledger, notes, crawl, faults>>

Favs == Users \X Tweets

\* The text of a message is the favorite; n tells two sends apart.
Messages == [fav : Favs, n : Nat]

Idle == [pc |-> "idle"]

\* Where the worker is: "received" before the message is deleted, "fetch"
\* before the tweet is fetched, "pay" before B.tip_user, then "record",
\* "txrec", "tellSender", "tellReceiver" when it returned a txid, or "decline",
\* "apologise" when it returned nil.
BeforePay == {"received", "fetch", "pay"}
AfterPay == {"record", "txrec", "tellSender", "tellReceiver"}
AfterNil == {"decline", "apologise"}
Working == [pc : BeforePay \union AfterPay \union AfterNil, msg : Messages, tx : Nat]

Crawling == [pc : {"run"}, user : Users, todo : Seq(Tweets)]

Notes == [type : {"user_sent_tip", "user_received_tip", "low_balance"}, msg : Messages]

\* f is among the favorites that a poll lists.
InWindow(f) ==
  \E i \in DOMAIN favs[f[1]] : i <= Window /\ favs[f[1]][i] = f[2]

Fault == faults < MaxFaults /\ faults' = faults + 1

-----------------------------------------------------------------------------
(* Twitter and DynamoDB (external).                                        *)

\* A user favorites a tweet.
Favor(u, t) ==
  /\ t \notin {favs[u][i] : i \in DOMAIN favs[u]}
  /\ favs' = [favs EXCEPT ![u] = <<t>> \o @]
  /\ UNCHANGED <<table, lambda, queue, worker, ledger, notes, crawl, faults>>

\* From now on every read of the table sees the item of f.
CatchUp(f) ==
  /\ f \in lagging
  /\ lagging' = lagging \ {f}
  /\ UNCHANGED <<favs, items, txid, lambda, queue, worker, ledger, notes, crawl, faults>>

\* Whatever update_item sets, a new item may be missed by reads for a while.
PutItem(f) ==
  /\ items' = items \union {f}
  /\ lagging' = lagging \union ({f} \ items)

\* Tip.new_tip: sets txid, over any txid there was.
NewTip(f, tx) == PutItem(f) /\ txid' = [txid EXCEPT ![f] = tx]

\* Mutant of UpdateFavorite: it puts the whole item, and with it no txid.
UpdateFavoriteErasing(f) == PutItem(f) /\ txid' = [txid EXCEPT ![f] = 0]

\* Favorite.update_favorite: its expression has no txid, so it erases none.
UpdateFavorite(f) == PutItem(f) /\ UNCHANGED txid

-----------------------------------------------------------------------------
(* The Lambda function PollUserFavorites.                                  *)

\* The poller invokes the function, as an event, which AWS may deliver again or
\* late, and Twitter answers favorites/list.
PollStart(u, r) ==
  /\ poll[u][r] = <<>>
  /\ favs[u] # <<>>
  /\ poll' = [poll EXCEPT ![u][r] =
       SubSeq(favs[u], 1, IF Len(favs[u]) < Window THEN Len(favs[u]) ELSE Window)]
  /\ UNCHANGED <<favs, table, wire, sends, queue, worker, ledger, notes, crawl, faults>>

\* Mutant of PollCheck: it looks for the txid, which a plain favorite lacks.
PollCheckTxid(u, r) ==
  /\ poll[u][r] # <<>>
  /\ LET f == <<u, Head(poll[u][r])>> IN
     /\ sends[f] + wire[f] < MaxSends
     /\ wire' = IF txid[f] # 0 THEN wire ELSE [wire EXCEPT ![f] = @ + 1]
  /\ poll' = [poll EXCEPT ![u][r] = Tail(@)]
  /\ UNCHANGED <<favs, table, sends, queue, worker, ledger, notes, crawl, faults>>

\* getItem has answered for the next favorite of the list.  When there is no
\* item the function starts to send a message and goes on at once (it calls the
\* iterator's callback before the answer of sendMessage).  After the last one
\* context.succeed() ends the run; a request under way is not cancelled.
PollCheck(u, r) ==
  /\ poll[u][r] # <<>>
  /\ LET f == <<u, Head(poll[u][r])>> IN
     \/ f \in items /\ UNCHANGED wire
     \/ /\ f \notin items \/ f \in lagging
        /\ sends[f] + wire[f] < MaxSends
        /\ wire' = [wire EXCEPT ![f] = @ + 1]
  /\ poll' = [poll EXCEPT ![u][r] = Tail(@)]
  /\ UNCHANGED <<favs, table, sends, queue, worker, ledger, notes, crawl, faults>>

\* The run is over with favorites that it has not looked up.
Stop(u, r) == poll' = [poll EXCEPT ![u][r] = <<>>]

\* sendMessage has answered, and calls the iterator's callback a second time,
\* if the run is still there.  What async does then depends on its version,
\* which the repository does not fix: it throws, or counts the favorite twice,
\* which ends the run before its time, or goes on with the list.
Answered(f) ==
  /\ wire' = [wire EXCEPT ![f] = @ - 1]
  /\ UNCHANGED poll \/ \E r \in Runs : Stop(f[1], r)

\* SQS has the message.
SendOk(f) ==
  LET n == sends[f] + 1
  IN
  /\ wire[f] > 0
  /\ Answered(f)
  /\ sends' = [sends EXCEPT ![f] = n]
  /\ queue' = queue \union {[fav |-> f, n |-> n]}
  /\ UNCHANGED <<favs, table, worker, ledger, notes, crawl, faults>>

\* sendMessage fails, which is logged and that is all; or the request is lost
\* with a function that ended before its answer and is never thawed.
SendFail(f) ==
  /\ wire[f] > 0
  /\ Answered(f)
  /\ UNCHANGED <<favs, table, sends, queue, worker, ledger, notes, crawl, faults>>

\* A getItem fails (context.fail) or the function times out.
PollDie(u, r) ==
  /\ poll[u][r] # <<>>
  /\ Fault
  /\ Stop(u, r)
  /\ UNCHANGED <<favs, table, wire, sends, queue, worker, ledger, notes, crawl>>

-----------------------------------------------------------------------------
(* The tips worker.                                                        *)

At(pc) == worker # Idle /\ worker.pc = pc
GoTo(pc) == worker' = [worker EXCEPT !.pc = pc]

\* The timer fires and SQS delivers a message, which stays in the queue.
Receive(m) ==
  /\ worker = Idle
  /\ worker' = [pc |-> "received", msg |-> m, tx |-> 0]
  /\ UNCHANGED <<favs, table, lambda, queue, ledger, notes, crawl, faults>>

\* Mutant of Delete: the message stays in the queue.
DeleteNothing ==
  /\ At("received")
  /\ GoTo("fetch")
  /\ UNCHANGED <<favs, table, lambda, queue, ledger, notes, crawl, faults>>

\* "Let's delete this message right away in case something goes wrong"
Delete ==
  /\ At("received")
  /\ queue' = queue \ {worker.msg}
  /\ GoTo("fetch")
  /\ UNCHANGED <<favs, table, lambda, ledger, notes, crawl, faults>>

\* The users and the tweet are found; a receiver unknown so far gets a stub.
FetchOk ==
  /\ At("fetch")
  /\ GoTo("pay")
  /\ UNCHANGED <<favs, table, lambda, queue, ledger, notes, crawl, faults>>

\* Twitter answers Unauthorized or Forbidden: the sender is told of a problem,
\* and nothing is written into TipperTips.
FetchNil ==
  /\ At("fetch")
  /\ Fault
  /\ notes' = notes \union {[type |-> "low_balance", msg |-> worker.msg]}
  /\ worker' = Idle
  /\ UNCHANGED <<favs, table, lambda, queue, ledger, crawl>>

\* Mutant of PaySent: the txid of the payment before.
PaySentOffByOne ==
  /\ At("pay")
  /\ paid' = Append(paid, worker.msg)
  /\ worker' = [worker EXCEPT !.pc = "record", !.tx = Len(paid)]
  /\ UNCHANGED <<favs, table, lambda, queue, txrecs, notes, crawl, faults>>

\* Mutant of PaySent: the users are told before anything is written.
PaySentTellFirst ==
  /\ At("pay")
  /\ paid' = Append(paid, worker.msg)
  /\ worker' = [worker EXCEPT !.pc = "tellSender", !.tx = Len(paid) + 1]
  /\ UNCHANGED <<favs, table, lambda, queue, txrecs, notes, crawl, faults>>

\* B.tip_user broadcasts the transaction and returns its txid.
PaySent ==
  /\ At("pay")
  /\ paid' = Append(paid, worker.msg)
  /\ worker' = [worker EXCEPT !.pc = "record", !.tx = Len(paid) + 1]
  /\ UNCHANGED <<favs, table, lambda, queue, txrecs, notes, crawl, faults>>

\* The transaction is broadcast, but the RPC raises before its answer is read:
\* tip_user rescues that and returns nil.
PayLost ==
  /\ At("pay")
  /\ Fault
  /\ paid' = Append(paid, worker.msg)
  /\ GoTo("decline")
  /\ UNCHANGED <<favs, table, lambda, queue, txrecs, notes, crawl>>

\* Mutant of PayNil: nobody asks whether there is a txid.
PayNilIgnored ==
  /\ At("pay")
  /\ worker' = [worker EXCEPT !.pc = "record", !.tx = Len(paid)]
  /\ UNCHANGED <<favs, table, lambda, queue, ledger, notes, crawl, faults>>

\* B.tip_user returns nil: no money, the own tweet, or the node refuses.
PayNil ==
  /\ At("pay")
  /\ GoTo("decline")
  /\ UNCHANGED <<favs, table, lambda, queue, ledger, notes, crawl, faults>>

\* Tip.new_tip.
Record ==
  /\ At("record")
  /\ NewTip(worker.msg.fav, worker.tx)
  /\ GoTo("txrec")
  /\ UNCHANGED <<favs, lambda, queue, ledger, notes, crawl, faults>>

\* Transaction.create with what gettransaction says of the txid.
RecordTransaction ==
  /\ At("txrec")
  /\ txrecs' = txrecs \union {worker.tx}
  /\ GoTo("tellSender")
  /\ UNCHANGED <<favs, table, lambda, queue, paid, notes, crawl, faults>>

\* NotifyUser.notify_sender.
TellSender ==
  /\ At("tellSender")
  /\ notes' = notes \union {[type |-> "user_sent_tip", msg |-> worker.msg]}
  /\ GoTo("tellReceiver")
  /\ UNCHANGED <<favs, table, lambda, queue, ledger, crawl, faults>>

\* NotifyUser.notify_receiver, and the message is done.
TellReceiver ==
  /\ At("tellReceiver")
  /\ notes' = notes \union {[type |-> "user_received_tip", msg |-> worker.msg]}
  /\ worker' = Idle
  /\ UNCHANGED <<favs, table, lambda, queue, ledger, crawl, faults>>

\* Mutant of Decline: the favorite is not settled.
DeclineUnsettled ==
  /\ At("decline")
  /\ GoTo("apologise")
  /\ UNCHANGED <<favs, table, lambda, queue, ledger, notes, crawl, faults>>

\* No txid: Favorite.update_favorite settles the favorite without a tip.
Decline ==
  /\ At("decline")
  /\ UpdateFavorite(worker.msg.fav)
  /\ GoTo("apologise")
  /\ UNCHANGED <<favs, lambda, queue, ledger, notes, crawl, faults>>

\* NotifyUser.problem_tipping_user, and the message is done.
Apologise ==
  /\ At("apologise")
  /\ notes' = notes \union {[type |-> "low_balance", msg |-> worker.msg]}
  /\ worker' = Idle
  /\ UNCHANGED <<favs, table, lambda, queue, ledger, crawl, faults>>

\* Mutant of Crash: what the worker held is not forgotten.
CrashHalfReset ==
  /\ worker # Idle
  /\ Fault
  /\ GoTo("idle")
  /\ UNCHANGED <<favs, table, lambda, queue, ledger, notes, crawl>>

\* An exception that nobody rescues, or the end of the process; eye restarts it.
Crash ==
  /\ worker # Idle
  /\ Fault
  /\ worker' = Idle
  /\ UNCHANGED <<favs, table, lambda, queue, ledger, notes, crawl>>

-----------------------------------------------------------------------------
(* The deep crawl.                                                         *)

\* User.find shows no flag, because there is none or because the read misses
\* it; the flag is set, then Twitter lists all favorites of the user.  One
\* process crawls, so nobody reads the flag between its read and its write.
CrawlStart(u) ==
  /\ crawler = Idle
  /\ u \notin crawled \/ u \in unseen
  /\ crawled' = crawled \union {u}
  /\ unseen' = unseen \union ({u} \ crawled)
  /\ crawler' = [pc |-> "run", user |-> u, todo |-> favs[u]]
  /\ UNCHANGED <<favs, table, lambda, queue, worker, ledger, notes, faults>>

\* From now on every read of the user sees the flag.
FlagSeen(u) ==
  /\ u \in unseen
  /\ unseen' = unseen \ {u}
  /\ UNCHANGED <<favs, table, lambda, queue, worker, ledger, notes, crawled, crawler, faults>>

\* Favorite.batchWrite, one update_favorite after the other.
CrawlWrite ==
  /\ crawler # Idle
  /\ crawler.todo # <<>>
  /\ UpdateFavorite(<<crawler.user, Head(crawler.todo)>>)
  /\ crawler' = [crawler EXCEPT !.todo = Tail(@)]
  /\ UNCHANGED <<favs, lambda, queue, worker, ledger, notes, crawled, unseen, faults>>

CrawlEnd ==
  /\ crawler # Idle
  /\ crawler.todo = <<>>
  /\ crawler' = Idle
  /\ UNCHANGED <<favs, table, lambda, queue, worker, ledger, notes, crawled, unseen, faults>>

\* The crawler dies; the flag stays, and once it is seen the crawl is never
\* repeated.
CrawlCrash ==
  /\ crawler # Idle
  /\ Fault
  /\ crawler' = Idle
  /\ UNCHANGED <<favs, table, lambda, queue, worker, ledger, notes, crawled, unseen>>

-----------------------------------------------------------------------------
Init ==
  /\ favs = [u \in Users |-> <<>>]
  /\ items = {} /\ lagging = {}
  /\ txid = [f \in Favs |-> 0]
  /\ poll = [u \in Users |-> [r \in Runs |-> <<>>]]
  /\ wire = [f \in Favs |-> 0] /\ sends = [f \in Favs |-> 0]
  /\ queue = {}
  /\ worker = Idle
  /\ paid = <<>> /\ txrecs = {}
  /\ notes = {}
  /\ crawled = {} /\ unseen = {} /\ crawler = Idle
  /\ faults = 0

LambdaNext ==
  \/ \E u \in Users, r \in Runs : PollStart(u, r) \/ PollCheck(u, r) \/ PollDie(u, r)
  \/ \E f \in Favs : SendOk(f) \/ SendFail(f)

\* What the worker does when nothing fails.
WorkerStep ==
  \/ \E m \in queue : Receive(m)
  \/ Delete \/ FetchOk \/ PaySent \/ PayNil
  \/ Record \/ RecordTransaction \/ TellSender \/ TellReceiver
  \/ Decline \/ Apologise

WorkerNext == WorkerStep \/ FetchNil \/ PayLost \/ Crash

CrawlNext ==
  \/ \E u \in Users : CrawlStart(u) \/ FlagSeen(u)
  \/ CrawlWrite \/ CrawlEnd \/ CrawlCrash

Next ==
  \/ \E u \in Users, t \in Tweets : Favor(u, t)
  \/ \E f \in Favs : CatchUp(f)
  \/ LambdaNext
  \/ WorkerNext
  \/ CrawlNext

\* The poller's timer never stops and neither does the worker's; a run goes on
\* with its list; a send repeated by every poll is not dropped every time; the
\* table converges.  Nobody is obliged to favorite, to crawl or to fail, nor AWS
\* to run the function twice.
Fairness ==
  /\ \A u \in Users : WF_vars(\E r \in Runs : PollStart(u, r))
  /\ \A u \in Users, r \in Runs : WF_vars(PollCheck(u, r))
  /\ \A f \in Favs : SF_vars(SendOk(f))
  /\ WF_vars(WorkerStep)
  /\ \A f \in Favs : WF_vars(CatchUp(f))

Spec == Init /\ [][Next]_vars

FairSpec == Spec /\ Fairness

-----------------------------------------------------------------------------
(* Properties.                                                             *)

TypeOK ==
  /\ favs \in [Users -> Seq(Tweets)]
  /\ items \subseteq Favs
  /\ txid \in [Favs -> Nat]
  /\ lagging \subseteq items
  /\ poll \in [Users -> [Runs -> Seq(Tweets)]]
  /\ wire \in [Favs -> Nat] /\ sends \in [Favs -> Nat]
  /\ queue \subseteq Messages
  /\ worker \in {Idle} \union Working
  /\ paid \in Seq(Messages)
  /\ txrecs \subseteq Nat
  /\ notes \subseteq Notes
  /\ crawled \subseteq Users /\ unseen \subseteq crawled
  /\ crawler \in {Idle} \union Crawling
  /\ faults \in Nat

\* One message moves money at most once, although SQS keeps a message until it
\* is deleted and the worker may die, and receive it again, at any point: this
\* is what deleting first buys.
OnePaymentPerMessage ==
  \A i, j \in DOMAIN paid : i # j => paid[i] # paid[j]

\* The txid shown for a favorite is that of a payment for this favorite.
RecordedTipsArePaid ==
  \A f \in Favs : txid[f] # 0 => /\ txid[f] \in DOMAIN paid
                                 /\ paid[txid[f]].fav = f

\* Who is told that a tip was sent or received can look it up: the message was
\* paid, the item of the favorite has the txid of that payment or of a later
\* one, and the transaction has its record.
ToldTipsAreRecorded ==
  \A note \in notes : note.type # "low_balance" =>
    \E n \in DOMAIN paid : /\ paid[n] = note.msg
                           /\ n \in txrecs
                           /\ note.msg.fav \in items
                           /\ txid[note.msg.fav] >= n

\* A favorite with a tip keeps one, however the tips worker, a second message
\* for the same favorite and the deep crawl overwrite each other's items.
TippedStaysTipped == [][\A f \in Favs : txid[f] # 0 => txid'[f] >= txid[f]]_vars

\* Everything under way for f is over and every read finds its item.
Settled(f) ==
  /\ f \in items /\ f \notin lagging
  /\ \A m \in queue : m.fav # f
  /\ wire[f] = 0
  /\ worker # Idle => worker.msg.fav # f

Payments(f) == {n \in DOMAIN paid : paid[n].fav = f}

\* A settled favorite is settled for ever and moves no more money: neither the
\* polls that list it again nor the crawl start anything new.
SettledIsFinal ==
  [][\A f \in Favs : Settled(f) => Settled(f)' /\ Payments(f)' = Payments(f)]_vars

\* A favorite that stays in the window of the polls is settled at last, as a
\* tip or as a plain favorite, whatever was lost on the way.
EventuallyRecorded ==
  \A f \in Favs : (<>[]InWindow(f)) => <>(f \in items)

\* The poll's own claim, "Tip not found, must be a new tip": what it sends to
\* the queue was not paid before.
NewTipIsNew == [][\A f \in Favs : wire'[f] > wire[f] => Payments(f) = {}]_vars
=============================================================================
