---------------------------- MODULE UserDirectory ----------------------------
(***************************************************************************)
(* Who has a record in TipperUsers, and at which address money waits.      *)
(*                                                                         *)
(* A record is made by the first sign-in with Twitter                      *)
(* (SessionsController#find_or_create), or by the tips worker as a stub    *)
(* for an author who is tipped before signing in.                          *)
(* Both look the Twitter id up in the index TwitterUserID-index and then   *)
(* write a record under a fresh UserID.  The index is a global secondary   *)
(* index: it follows the table with a delay, and it allows many records    *)
(* with one Twitter id.                                                    *)
(***************************************************************************)
EXTENDS Integers, Sequences, FiniteSets

CONSTANTS
  People,      \* Twitter ids
  Tokens,      \* OAuth tokens
  Handlers,    \* the processes of puma that serve requests
  MaxLogins,   \* bound: sign-ins
  MaxTips,     \* bound: messages for the tips worker
  None         \* no token

ASSUME DirectoryAssumption ==
  /\ None \notin Tokens
  /\ IsFiniteSet(Handlers)
  /\ MaxLogins \in Nat /\ MaxTips \in Nat

VARIABLES
  users,       \* the records of TipperUsers; a UserID is an index
  indexed,     \* the UserIDs that TwitterUserID-index shows
  login,       \* login[h]: the sign-in h is serving
  logins,      \* how many there were
  worker,      \* the message the tips worker is processing
  messages,    \* how many there were
  addresses,   \* how many addresses bitcoind has handed out
  paid,        \* whom a tip was meant for, and the address it was paid to
  misses       \* misses[id]: history, lookups that missed a record of id that
               \* existed or that another process was about to write

vars == <<users, indexed, login, logins, worker, messages, addresses, paid, misses>>

Users == [twitter : People, address : Nat, token : Tokens \union {None}]

Idle == [pc |-> "idle"]

\* "create" when the lookup found nobody, "update" when it found user.
SigningIn == [pc : {"create", "update"}, id : People, token : Tokens, user : Nat]

\* "stub" when the lookup of the receiver found nobody, then "pay".
Tipping == [pc : {"stub", "pay"}, id : People, address : Nat]

\* find_by_twitter_id answers with the first of these, in no order we know.
Found(id) == {i \in indexed : users[i].twitter = id}

Records(id) == {i \in DOMAIN users : users[i].twitter = id}

Creating(id) ==
  {h \in Handlers : login[h] # Idle /\ login[h].pc = "create" /\ login[h].id = id}

Stubbing(id) == worker # Idle /\ worker.pc = "stub" /\ worker.id = id

\* A lookup finds nobody.
Miss(id) ==
  /\ Found(id) = {}
  /\ misses' = IF Records(id) = {} /\ Creating(id) = {} /\ ~Stubbing(id)
               THEN misses ELSE [misses EXCEPT ![id] = @ + 1]

\* update_item under a fresh UserID, with a new address from bitcoind.
Insert(id, token) ==
  /\ addresses' = addresses + 1
  /\ users' = Append(users, [twitter |-> id, address |-> addresses + 1, token |-> token])

-----------------------------------------------------------------------------
(* DynamoDB (external).                                                    *)

\* The index catches up with a record.
Index(i) ==
  /\ i \in DOMAIN users \ indexed
  /\ indexed' = indexed \union {i}
  /\ UNCHANGED <<users, login, logins, worker, messages, addresses, paid, misses>>

-----------------------------------------------------------------------------
(* SessionsController#find_or_create.                                      *)

FindUser(h, id, token) ==
  /\ login[h] = Idle
  /\ logins < MaxLogins
  /\ logins' = logins + 1
  /\ \/ \E i \in Found(id) :
          /\ login' = [login EXCEPT ![h] = [pc |-> "update", id |-> id, token |-> token, user |-> i]]
          /\ UNCHANGED misses
     \/ /\ Miss(id)
        /\ login' = [login EXCEPT ![h] = [pc |-> "create", id |-> id, token |-> token, user |-> 0]]
  /\ UNCHANGED <<users, indexed, worker, messages, addresses, paid>>

\* User.create_user with UPDATE_NEW_USER_EXPRESSION.
CreateUser(h) ==
  /\ login[h] # Idle /\ login[h].pc = "create"
  /\ Insert(login[h].id, login[h].token)
  /\ login' = [login EXCEPT ![h] = Idle]
  /\ UNCHANGED <<indexed, logins, worker, messages, paid, misses>>

\* Mutant of UpdateUser: it sets the attributes of a new user.
UpdateUserNewAddress(h) ==
  /\ login[h] # Idle /\ login[h].pc = "update"
  /\ addresses' = addresses + 1
  /\ users' = [users EXCEPT ![login[h].user].token = login[h].token,
                            ![login[h].user].address = addresses + 1]
  /\ login' = [login EXCEPT ![h] = Idle]
  /\ UNCHANGED <<indexed, logins, worker, messages, paid, misses>>

\* User.update with UPDATE_EXPRESSION, which has no BitcoinAddress: a stub
\* becomes a user and keeps its money.
UpdateUser(h) ==
  /\ login[h] # Idle /\ login[h].pc = "update"
  /\ users' = [users EXCEPT ![login[h].user].token = login[h].token]
  /\ login' = [login EXCEPT ![h] = Idle]
  /\ UNCHANGED <<indexed, logins, worker, messages, addresses, paid, misses>>

\* Mutant of LoginFails: what the process held is not forgotten.
LoginFailsHalfReset(h) ==
  /\ login[h] # Idle
  /\ login' = [login EXCEPT ![h].pc = "idle"]
  /\ UNCHANGED <<users, indexed, logins, worker, messages, addresses, paid, misses>>

\* bitcoind or DynamoDB raises, or the process ends.
LoginFails(h) ==
  /\ login[h] # Idle
  /\ login' = [login EXCEPT ![h] = Idle]
  /\ UNCHANGED <<users, indexed, logins, worker, messages, addresses, paid, misses>>

-----------------------------------------------------------------------------
(* The tips worker, as far as it touches the users.                        *)

\* Both users are looked up, and then the tweet is fetched from Twitter.  A
\* sender who is not found ends the process.
FindUsers(from, to) ==
  /\ worker = Idle
  /\ messages < MaxTips
  /\ from # to
  /\ Found(from) # {}
  /\ messages' = messages + 1
  /\ \/ \E i \in Found(to) :
          /\ worker' = [pc |-> "pay", id |-> to, address |-> users[i].address]
          /\ UNCHANGED misses
     \/ /\ Miss(to)
        /\ worker' = [pc |-> "stub", id |-> to, address |-> 0]
  /\ UNCHANGED <<users, indexed, login, logins, addresses, paid>>

\* User.create_stub_user
CreateStub ==
  /\ worker # Idle /\ worker.pc = "stub"
  /\ Insert(worker.id, None)
  /\ worker' = [worker EXCEPT !.pc = "pay", !.address = addresses + 1]
  /\ UNCHANGED <<indexed, login, logins, messages, paid, misses>>

\* B.tip_user succeeds.
Pay ==
  /\ worker # Idle /\ worker.pc = "pay"
  /\ paid' = paid \union {[to |-> worker.id, address |-> worker.address]}
  /\ worker' = Idle
  /\ UNCHANGED <<users, indexed, login, logins, messages, addresses, misses>>

\* Mutant of GiveUp: the message is processed again from the start.
GiveUpRetries ==
  /\ worker # Idle
  /\ worker' = [worker EXCEPT !.pc = "stub"]
  /\ UNCHANGED <<users, indexed, login, logins, messages, addresses, paid, misses>>

\* No tweet, no txid, or the process ends.
GiveUp ==
  /\ worker # Idle
  /\ worker' = Idle
  /\ UNCHANGED <<users, indexed, login, logins, messages, addresses, paid, misses>>

-----------------------------------------------------------------------------
Init ==
  /\ users = <<>> /\ indexed = {}
  /\ login = [h \in Handlers |-> Idle] /\ logins = 0
  /\ worker = Idle /\ messages = 0
  /\ addresses = 0 /\ paid = {}
  /\ misses = [id \in People |-> 0]

Next ==
  \/ \E i \in DOMAIN users : Index(i)
  \/ \E h \in Handlers :
       \/ \E id \in People, token \in Tokens : FindUser(h, id, token)
       \/ CreateUser(h) \/ UpdateUser(h) \/ LoginFails(h)
  \/ \E from, to \in People : FindUsers(from, to)
  \/ CreateStub \/ Pay \/ GiveUp

Spec == Init /\ [][Next]_vars

-----------------------------------------------------------------------------
(* Properties.                                                             *)

TypeOK ==
  /\ users \in Seq(Users)
  /\ indexed \subseteq DOMAIN users
  /\ login \in [Handlers -> {Idle} \union SigningIn]
  /\ logins \in 0 .. MaxLogins
  /\ worker \in {Idle} \union Tipping
  /\ messages \in 0 .. MaxTips
  /\ addresses \in Nat
  /\ paid \subseteq [to : People, address : Nat]
  /\ misses \in [People -> Nat]

\* Money that was sent to somebody, known or not when the message was taken up,
\* lies at the address of one of that person's records - whoever signs in, and
\* whatever records are written, between the lookup, the payment and now.
MoneyIsOwned ==
  \A p \in paid : \E i \in DOMAIN users :
    users[i].twitter = p.to /\ users[i].address = p.address

\* A Twitter id has one record, and at most one more for every lookup that was
\* answered from a stale index or while another process was creating one.
DuplicatesOnlyByRaces ==
  \A id \in People : Cardinality(Records(id)) <= 1 + misses[id]
=============================================================================
