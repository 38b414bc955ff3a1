---------------------------- MODULE SplitIdentity ----------------------------
(***************************************************************************)
(* What a split identity does to tips.  The Lambda function                *)
(* PollUserFavorites looks for the item of a favorite under the UserID of  *)
(* the record that it was invoked for; its message to the tips worker      *)
(* names the sender by Twitter id only, and the worker writes the item     *)
(* under the UserID of whichever record the index answers with.  With two  *)
(* records of one person (UserDirectory) the poll may look for ever where  *)
(* the worker never writes, and pay again.                                 *)
(*                                                                         *)
(* The steps of UserDirectory are taken as they are; the messages that its *)
(* worker takes up come from the polls here.  One tweet of each author is  *)
(* enough: an item has the tweet's id, and a favorite is who likes whose   *)
(* tweet.                                                                  *)
(***************************************************************************)
EXTENDS UserDirectory

VARIABLES
  queue,      \* favorites with a message in the SQS queue, or on the way to it
  carrying,   \* the message the tips worker has, and the sender's UserID
  items,      \* items of TipperTips: <<FromUserID, author of the tweet>>
  visible     \* those that an eventually consistent read finds

splitVars == <<queue, carrying, items, visible>>
allVars == <<vars, splitVars>>

Favorites == [from : People, to : People]

\* "tip" while UserDirectory's worker is busy, "write" when it has paid or not
\* and the item is to be written.
NoMessage == [pc |-> "none"]
Carried == [pc : {"tip", "write"}, favorite : Favorites, sender : Nat]
Carries(f) == carrying # NoMessage /\ carrying.favorite = f

-----------------------------------------------------------------------------
(* The poll.                                                               *)

\* Mutant of Poll: the item is not looked for.
PollAlways(i, to) ==
  /\ users[i].token # None
  /\ to # users[i].twitter
  /\ queue' = queue \union {[from |-> users[i].twitter, to |-> to]}
  /\ UNCHANGED <<vars, carrying, items, visible>>

\* A user who signed in is polled under each of their records; a favorite that
\* has no item under that UserID becomes a message.  (Who likes their own tweet
\* is refused by B.tip_user and left out here.)
Poll(i, to) ==
  /\ users[i].token # None
  /\ to # users[i].twitter
  /\ <<i, to>> \notin visible
  /\ queue' = queue \union {[from |-> users[i].twitter, to |-> to]}
  /\ UNCHANGED <<vars, carrying, items, visible>>

\* DynamoDB (external): reads catch up with an item.
CatchUp(item) ==
  /\ item \in items \ visible
  /\ visible' = visible \union {item}
  /\ UNCHANGED <<vars, queue, carrying, items>>

-----------------------------------------------------------------------------
(* The tips worker.                                                        *)

\* receive and delete: the queue may hold or deliver a message more than once.
Take(f) ==
  /\ carrying = NoMessage
  /\ f \in queue
  /\ queue' \in {queue, queue \ {f}}

\* The sender is one of their records, and the receiver likewise or a stub.
Receive(f) ==
  /\ Take(f)
  /\ FindUsers(f.from, f.to)
  /\ \E i \in Found(f.from) :
       carrying' = [pc |-> "tip", favorite |-> f, sender |-> i]
  /\ UNCHANGED <<items, visible>>

\* The index does not show the sender yet: the process ends on fromUser being
\* nil, after it has deleted the message.
ReceiveNobody(f) ==
  /\ Take(f)
  /\ worker = Idle
  /\ Found(f.from) = {}
  /\ UNCHANGED <<vars, carrying, items, visible>>

PayItem ==
  /\ Pay
  /\ carrying' = [carrying EXCEPT !.pc = "write"]
  /\ UNCHANGED <<queue, items, visible>>

\* Without a txid the favorite is written down all the same; without a tweet, or
\* when the process ends, it is not.
GiveUpItem ==
  /\ GiveUp
  /\ \/ worker.pc = "pay" /\ carrying' = [carrying EXCEPT !.pc = "write"]
     \/ carrying' = NoMessage
  /\ UNCHANGED <<queue, items, visible>>

\* Tip.new_tip after a payment, Favorite.update_favorite otherwise: both under
\* the UserID of the record found for the sender.
WriteItem ==
  /\ carrying # NoMessage /\ carrying.pc = "write"
  /\ items' = items \union {<<carrying.sender, carrying.favorite.to>>}
  /\ carrying' = NoMessage
  /\ UNCHANGED <<vars, queue, visible>>

\* The process ends between the payment and the item.
WriteDies ==
  /\ carrying # NoMessage /\ carrying.pc = "write"
  /\ carrying' = NoMessage
  /\ UNCHANGED <<vars, queue, items, visible>>

-----------------------------------------------------------------------------
SplitInit ==
  /\ Init
  /\ queue = {} /\ carrying = NoMessage /\ items = {} /\ visible = {}

\* Sign-ins, the index, and the stub that the worker makes.
Elsewhere ==
  /\ \/ \E i \in DOMAIN users : Index(i)
     \/ \E h \in Handlers :
          \/ \E id \in People, token \in Tokens : FindUser(h, id, token)
          \/ CreateUser(h) \/ UpdateUser(h) \/ LoginFails(h)
     \/ CreateStub
  /\ UNCHANGED splitVars

SplitNext ==
  \/ Elsewhere
  \/ \E i \in DOMAIN users, to \in People : Poll(i, to)
  \/ \E item \in items : CatchUp(item)
  \/ \E f \in Favorites : Receive(f) \/ ReceiveNobody(f)
  \/ PayItem \/ GiveUpItem \/ WriteItem \/ WriteDies

SplitSpec == SplitInit /\ [][SplitNext]_allVars

-----------------------------------------------------------------------------
(* Properties.                                                             *)

SplitTypeOK ==
  /\ TypeOK
  /\ queue \subseteq Favorites
  /\ carrying \in {NoMessage} \union Carried
  /\ items \subseteq (DOMAIN users) \X People
  /\ visible \subseteq items
  /\ worker # Idle => carrying # NoMessage /\ carrying.pc = "tip"

\* The favorite has an item under some record of the sender, for all to see, and
\* no message about it is left.
Settled(f) ==
  /\ f \notin queue /\ ~Carries(f)
  /\ \E i \in Records(f.from) : <<i, f.to>> \in visible

\* A favorite that was settled comes up again, to be paid once more, only for a
\* sender of whom a lookup missed a record that existed or was being created: as
\* long as the directory has one record of a person, the poll looks where the
\* worker writes.
RepaidOnlyBySplits ==
  [][\A f \in Favorites : Settled(f) /\ ~Settled(f)' => misses[f.from] > 0]_allVars
=============================================================================
