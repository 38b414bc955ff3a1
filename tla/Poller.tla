-------------------------------- MODULE Poller --------------------------------
(***************************************************************************)
(* Whose favorites are polled: the flag and the tokens in TipperUsers, the *)
(* requests of puma that change them (MeController, SessionsController),   *)
(* and the timers of the poller process (lib/twitter_poller.rb).           *)
(*                                                                         *)
(* The poller reads the active users once, when it starts, and follows     *)
(* changes by Redis messages from then on.  A message names a token, not a *)
(* user, and is lost while the poller is not subscribed.                   *)
(***************************************************************************)
EXTENDS Integers, Sequences, FiniteSets

CONSTANTS
  Users,         \* people who may sign in
  Tokens,        \* the OAuth tokens Twitter issues
  Handlers,      \* the processes of puma that serve requests
  MaxRequests    \* bound: connect and disconnect requests

CONSTANTS None   \* no user, no token

ASSUME PollerAssumption == None \notin Users \union Tokens /\ MaxRequests \in Nat

VARIABLES
  token,     \* token[u]: TwitterAuthToken; whoever has one IsActive
  enabled,   \* enabled[u]: AutomaticTippingEnabled, "unset" before the first connect
  index,     \* index[u]: u's record as the indexes of TipperUsers show it
  owner,     \* owner[t]: the user Twitter issued t to
  request,   \* request[h]: the request h is serving
  requests,  \* how many there were
  poller,    \* the poller process: "down", "starting" or "up"
  snapshot,  \* the users it read when it started
  inbox,     \* messages on its Redis connection, in order
  timers,    \* its timers
  invoked    \* whom it invoked PollUserFavorites for, with which token

web == <<token, enabled, index, owner, request, requests>>
daemon == <<poller, snapshot, inbox, timers>>
vars == <<web, daemon, invoked>>

Flags == {"unset", "on", "off"}

Idle == [pc |-> "idle"]

\* A request works on the user it read when it authenticated, tokens included.
Serving == [pc : {"write", "publish"}, op : {"connect", "disconnect"},
            user : Users, token : Tokens]

\* A user's record, as far as somebody who reads it here is concerned.
Row(u) == [user |-> u, token |-> token[u], enabled |-> enabled[u]]
Rows == [user : Users, token : Tokens \union {None}, enabled : Flags]

Messages == [op : {"connect", "disconnect"}, token : Tokens]
Timers == [token : Tokens, user : Users \union {None}]

-----------------------------------------------------------------------------
(* The web processes.                                                      *)

\* find_or_create: the tokens are overwritten, by fresh ones or the same, and
\* "new_users" is published, a channel on which the poller does not listen.
Login(u, t) ==
  /\ owner[t] \in {None, u}
  /\ owner' = [owner EXCEPT ![t] = u]
  /\ token' = [token EXCEPT ![u] = t]
  /\ UNCHANGED <<enabled, index, request, requests, daemon, invoked>>

\* DynamoDB (external): the indexes follow the table, with a delay.
Follow(u) ==
  /\ index' = [index EXCEPT ![u] = Row(u)]
  /\ UNCHANGED <<token, enabled, owner, request, requests, daemon, invoked>>

\* A signed-in user asks to be connected or disconnected; the record is looked up
\* by TwitterUserID-index.
Begin(h, u, op) ==
  /\ request[h] = Idle
  /\ index[u].token # None
  /\ requests < MaxRequests
  /\ requests' = requests + 1
  /\ request' = [request EXCEPT ![h] =
                   [pc |-> "write", op |-> op, user |-> u, token |-> index[u].token]]
  /\ UNCHANGED <<token, enabled, index, owner, daemon, invoked>>

\* turn_on_automatic_tipping, turn_off_automatic_tipping.
WriteFlag(h) ==
  /\ request[h] # Idle
  /\ request[h].pc = "write"
  /\ enabled' = [enabled EXCEPT ![request[h].user] =
                   IF request[h].op = "connect" THEN "on" ELSE "off"]
  /\ request' = [request EXCEPT ![h].pc = "publish"]
  /\ UNCHANGED <<token, index, owner, requests, daemon, invoked>>

\* The message has the token but no user_id; nobody gets it unless the poller
\* is subscribed.
Publish(h) ==
  /\ request[h] # Idle
  /\ request[h].pc = "publish"
  /\ inbox' = IF poller = "up"
              THEN Append(inbox, [op |-> request[h].op, token |-> request[h].token])
              ELSE inbox
  /\ request' = [request EXCEPT ![h] = Idle]
  /\ UNCHANGED <<token, enabled, index, owner, requests, poller, snapshot, timers, invoked>>

\* Mutant of RequestFails: what the process held is not forgotten.
RequestFailsHalfReset(h) ==
  /\ request[h] # Idle
  /\ request' = [request EXCEPT ![h].pc = "idle"]
  /\ UNCHANGED <<token, enabled, index, owner, requests, daemon, invoked>>

\* The balance cannot be read or written, or the process dies.
RequestFails(h) ==
  /\ request[h] # Idle
  /\ request' = [request EXCEPT ![h] = Idle]
  /\ UNCHANGED <<token, enabled, index, owner, requests, daemon, invoked>>

-----------------------------------------------------------------------------
(* The poller.                                                             *)

\* Mutant of Add: the registry is not consulted.
AddAlways(ts, t, u) == ts \union {[token |-> t, user |-> u]}

\* FavoritesPoller.add: a token that has a timer gets no second one.
Add(ts, t, u) ==
  IF \E timer \in ts : timer.token = t THEN ts
  ELSE ts \union {[token |-> t, user |-> u]}

\* FavoritesPoller.remove
Remove(ts, t) == {timer \in ts : timer.token # t}

\* User.find_active, before the event loop runs: by IsActive-CreatedAt-index.
ReadUsers ==
  /\ poller = "down"
  /\ poller' = "starting"
  /\ snapshot' = {row \in {index[u] : u \in Users} : row.token # None}
  /\ UNCHANGED <<web, inbox, timers, invoked>>

\* Mutant of Start: every active user gets a timer.
StartAll ==
  /\ poller = "starting"
  /\ poller' = "up"
  /\ timers' = {[token |-> row.token, user |-> row.user] : row \in snapshot}
  /\ snapshot' = {}
  /\ UNCHANGED <<web, inbox, invoked>>

\* Mutant of Start: no user gets a timer.
StartNone ==
  /\ poller = "starting"
  /\ poller' = "up"
  /\ snapshot' = {}
  /\ UNCHANGED <<web, inbox, timers, invoked>>

\* The event loop: timers for the users with the flag, and the subscriptions.
\* (The others are sent a notification that nothing reads.  FavoritesPoller.add
\* finds no timer of the row's token yet: the table has one row per user here, and
\* a token is one user's.)
Start ==
  /\ poller = "starting"
  /\ poller' = "up"
  /\ timers' = {[token |-> row.token, user |-> row.user] :
                  row \in {r \in snapshot : r.enabled = "on"}}
  /\ snapshot' = {}
  /\ UNCHANGED <<web, inbox, invoked>>

HandleConnect ==
  /\ poller = "up"
  /\ inbox # <<>> /\ Head(inbox).op = "connect"
  /\ timers' = Add(timers, Head(inbox).token, None)
  /\ inbox' = Tail(inbox)
  /\ UNCHANGED <<web, poller, snapshot, invoked>>

HandleDisconnect ==
  /\ poller = "up"
  /\ inbox # <<>> /\ Head(inbox).op = "disconnect"
  /\ timers' = Remove(timers, Head(inbox).token)
  /\ inbox' = Tail(inbox)
  /\ UNCHANGED <<web, poller, snapshot, invoked>>

\* Mutant of Fire: the function is invoked for no user, too.
FireAny(timer) ==
  /\ poller = "up"
  /\ timer \in timers
  /\ invoked' = invoked \union {timer}
  /\ UNCHANGED <<web, daemon>>

\* A timer with a user fires: publish invokes the Lambda function.
Fire(timer) ==
  /\ poller = "up"
  /\ timer \in timers
  /\ timer.user # None
  /\ invoked' = invoked \union {timer}
  /\ UNCHANGED <<web, daemon>>

Die ==
  /\ poller' = "down"
  /\ snapshot' = {} /\ inbox' = <<>> /\ timers' = {}

\* A timer without a user fires: User.find(nil) raises, and the process ends.
FireNobody(timer) ==
  /\ poller = "up"
  /\ timer \in timers
  /\ timer.user = None
  /\ Die
  /\ UNCHANGED <<web, invoked>>

\* The process ends for any other reason; eye starts it again.
Crash ==
  /\ poller # "down"
  /\ Die
  /\ UNCHANGED <<web, invoked>>

-----------------------------------------------------------------------------
Init ==
  /\ token = [u \in Users |-> None]
  /\ enabled = [u \in Users |-> "unset"]
  /\ index = [u \in Users |-> Row(u)]
  /\ owner = [t \in Tokens |-> None]
  /\ request = [h \in Handlers |-> Idle]
  /\ requests = 0
  /\ poller = "down" /\ snapshot = {} /\ inbox = <<>> /\ timers = {}
  /\ invoked = {}

HandlerNext(h) ==
  \/ \E u \in Users, op \in {"connect", "disconnect"} : Begin(h, u, op)
  \/ WriteFlag(h) \/ Publish(h) \/ RequestFails(h)

Handle == HandleConnect \/ HandleDisconnect

Next ==
  \/ \E u \in Users : Follow(u) \/ \E t \in Tokens : Login(u, t)
  \/ \E h \in Handlers : HandlerNext(h)
  \/ ReadUsers \/ Start \/ Handle
  \/ \E timer \in Timers : Fire(timer) \/ FireNobody(timer)
  \/ Crash

Spec == Init /\ [][Next]_vars

-----------------------------------------------------------------------------
(* Properties.                                                             *)

TypeOK ==
  /\ token \in [Users -> Tokens \union {None}]
  /\ enabled \in [Users -> Flags]
  /\ index \in [Users -> Rows]
  /\ owner \in [Tokens -> Users \union {None}]
  /\ request \in [Handlers -> {Idle} \union Serving]
  /\ requests \in 0 .. MaxRequests
  /\ poller \in {"down", "starting", "up"}
  /\ snapshot \subseteq Rows /\ \A row \in snapshot : row.token # None
  /\ inbox \in Seq(Messages)
  /\ timers \subseteq Timers
  /\ invoked \subseteq Timers

\* A token has one timer: a second one would poll twice as often, and could not
\* be stopped, since the registry keeps one poller per token.
OneTimerPerToken ==
  \A a, b \in timers : a.token = b.token => a = b

\* Favorites are looked up and tips recorded for the owner of the token that
\* reads them, although a message brings a token without its user.
InvokedForOwner ==
  \A timer \in invoked : owner[timer.token] = timer.user

\* Whatever messages were lost or named no user: when the poller restarts again
\* and again, a user who stays connected and keeps one token gets a timer for it.
RestartConnects ==
  \A u \in Users :
    (<>[](enabled[u] = "on") /\ <>[][UNCHANGED token[u]]_vars /\ []<><<Start>>_vars)
      => []<>([token |-> token[u], user |-> u] \in timers)

\* ... and one who stays disconnected loses every timer for good.
RestartDisconnects ==
  \A u \in Users :
    (<>[](enabled[u] = "off") /\ []<><<Start>>_vars)
      => <>[](\A timer \in timers : owner[timer.token] # u)

=============================================================================
