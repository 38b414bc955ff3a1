---------------------------- MODULE Poller_proofs ----------------------------
(***************************************************************************)
(* Proofs about Poller, for any users, tokens and requests: the types, one *)
(* timer per token, and that the Lambda function is invoked for the owner  *)
(* of the token it gets.  About Onboarding: it is a Poller with welcomes   *)
(* around it, and how often a user can be welcomed.                        *)
(***************************************************************************)
EXTENDS Onboarding, SequenceTheorems, FiniteSetTheorems, TLAPS

-----------------------------------------------------------------------------
(* Type correctness.                                                       *)

\* The first message on the connection and the rest.
LEMMA Inbox ==
  ASSUME TypeOK, inbox # <<>>
  PROVE  Head(inbox) \in Messages /\ Tail(inbox) \in Seq(Messages)
BY DEF TypeOK

\* The first states are well typed.
LEMMA InitTypeOK == Init => TypeOK
BY PollerAssumption DEF Init, TypeOK, Flags, Row, Rows

\* Every step keeps the types.
LEMMA NextTypeOK == TypeOK /\ [Next]_vars => TypeOK'
<1> SUFFICES ASSUME TypeOK, [Next]_vars PROVE TypeOK'
  OBVIOUS
<1> USE DEF web, daemon
<1>1. ASSUME NEW u \in Users, NEW t \in Tokens, Login(u, t) PROVE TypeOK'
  BY <1>1 DEF Login, TypeOK
<1>2. ASSUME NEW h \in Handlers, NEW u \in Users, NEW op \in {"connect", "disconnect"},
             Begin(h, u, op)
      PROVE  TypeOK'
  <2>1. index[u].token \in Tokens
    BY <1>2 DEF Begin, TypeOK, Rows
  <2>2. [pc |-> "write", op |-> op, user |-> u, token |-> index[u].token] \in Serving
    BY <2>1 DEF Serving
  <2>3. requests' \in 0 .. MaxRequests
    BY <1>2, PollerAssumption DEF Begin, TypeOK
  <2> QED
    BY <1>2, <2>2, <2>3 DEF Begin, TypeOK
<1>3. ASSUME NEW h \in Handlers, WriteFlag(h) PROVE TypeOK'
  <2>1. request[h] \in Serving
    BY <1>3 DEF WriteFlag, TypeOK
  <2>2. [request[h] EXCEPT !.pc = "publish"] \in Serving
    BY <2>1 DEF Serving
  <2>3. request' \in [Handlers -> {Idle} \union Serving]
    BY <1>3, <2>2 DEF WriteFlag, TypeOK
  <2>4. enabled' \in [Users -> Flags]
    BY <1>3 DEF WriteFlag, TypeOK, Flags
  <2> QED
    BY <1>3, <2>3, <2>4 DEF WriteFlag, TypeOK
<1>4. ASSUME NEW h \in Handlers, Publish(h) PROVE TypeOK'
  <2>1. request[h] \in Serving
    BY <1>4 DEF Publish, TypeOK
  <2>2. [op |-> request[h].op, token |-> request[h].token] \in Messages
    BY <2>1 DEF Serving, Messages
  <2>3. inbox' \in Seq(Messages)
    <3>1. CASE poller = "up"
      BY <1>4, <2>2, <3>1 DEF Publish, TypeOK
    <3>2. CASE poller # "up"
      BY <1>4, <3>2 DEF Publish, TypeOK
    <3> QED
      BY <3>1, <3>2
  <2> QED
    BY <1>4, <2>3 DEF Publish, TypeOK
<1>5. ASSUME NEW h \in Handlers, RequestFails(h) PROVE TypeOK'
  BY <1>5 DEF RequestFails, TypeOK
<1>6. CASE ReadUsers
  <2>1. snapshot' \subseteq Rows /\ \A row \in snapshot' : row.token # None
    BY <1>6 DEF ReadUsers, TypeOK
  <2> QED
    BY <1>6, <2>1 DEF ReadUsers, TypeOK
<1>7. CASE Start
  <2>1. timers' \subseteq Timers
    BY <1>7 DEF Start, TypeOK, Rows, Timers
  <2> QED
    BY <1>7, <2>1 DEF Start, TypeOK
<1>8. CASE HandleConnect
  <2>1. Head(inbox).token \in Tokens /\ Tail(inbox) \in Seq(Messages)
    BY <1>8, Inbox DEF HandleConnect, Messages
  <2>2. timers' \subseteq Timers
    BY <1>8, <2>1 DEF HandleConnect, TypeOK, Add, Timers
  <2> QED
    BY <1>8, <2>1, <2>2 DEF HandleConnect, TypeOK
<1>9. CASE HandleDisconnect
  <2>1. Tail(inbox) \in Seq(Messages)
    BY <1>9, Inbox DEF HandleDisconnect
  <2>2. timers' \subseteq Timers
    BY <1>9 DEF HandleDisconnect, TypeOK, Remove
  <2> QED
    BY <1>9, <2>1, <2>2 DEF HandleDisconnect, TypeOK
<1>10. ASSUME NEW timer \in Timers, Fire(timer) PROVE TypeOK'
  BY <1>10 DEF Fire, TypeOK
<1>11. ASSUME NEW timer \in Timers, FireNobody(timer) PROVE TypeOK'
  BY <1>11 DEF FireNobody, Die, TypeOK
<1>12. CASE Crash
  BY <1>12 DEF Crash, Die, TypeOK
<1>13. CASE UNCHANGED vars
  BY <1>13 DEF vars, TypeOK
<1>14. ASSUME NEW u \in Users, Follow(u) PROVE TypeOK'
  <2>1. Row(u) \in Rows
    BY DEF Row, Rows, TypeOK
  <2> QED
    BY <1>14, <2>1 DEF Follow, TypeOK
<1> QED
  BY <1>1, <1>2, <1>3, <1>4, <1>5, <1>6, <1>7, <1>8, <1>9, <1>10, <1>11, <1>12, <1>13, <1>14
     DEF Next, HandlerNext, Handle

\* Every reachable state is well typed.
THEOREM TypeCorrect == Spec => []TypeOK
BY InitTypeOK, NextTypeOK, PTL DEF Spec

-----------------------------------------------------------------------------
(* One timer per token, and the owner's.                                   *)

\* Neither property is inductive.  The timers that a start makes are unique
\* because a token belongs to one user, in the table as in the index and in the
\* snapshot read before; and a timer that has a user got it from there, long ago.
OwnersInv ==
  /\ \A u \in Users : token[u] # None => owner[token[u]] = u
  /\ \A u \in Users : index[u].token # None => owner[index[u].token] = index[u].user
  /\ \A row \in snapshot : owner[row.token] = row.user
  /\ \A timer \in timers : timer.user # None => owner[timer.token] = timer.user
  /\ \A timer \in invoked : timer.user # None

TimersInv == OwnersInv /\ OneTimerPerToken /\ InvokedForOwner

\* At the start nobody has a token.
LEMMA InitTimersInv == Init => TimersInv
BY DEF Init, TimersInv, OwnersInv, OneTimerPerToken, InvokedForOwner, Row

\* Every step keeps the invariant.
LEMMA NextTimersInv == TypeOK /\ TimersInv /\ [Next]_vars => TimersInv'
<1> SUFFICES ASSUME TypeOK, TimersInv, [Next]_vars PROVE TimersInv'
  OBVIOUS
<1> USE DEF web, daemon
<1>1. ASSUME NEW u \in Users, NEW t \in Tokens, Login(u, t) PROVE TimersInv'
  <2>1. /\ owner[t] \in {None, u} /\ owner' = [owner EXCEPT ![t] = u]
        /\ token' = [token EXCEPT ![u] = t]
        /\ UNCHANGED <<index, snapshot, timers, invoked>>
    BY <1>1 DEF Login
  <2>2. \A other \in Tokens : owner[other] # None => owner'[other] = owner[other]
    BY <2>1 DEF TypeOK
  <2>3. /\ snapshot \subseteq Rows /\ timers \subseteq Timers /\ invoked \subseteq Timers
        /\ None \notin Users /\ owner'[t] = u
    BY <2>1, PollerAssumption DEF TypeOK
  <2>9. \A v \in Users : index[v].token # None => owner'[index[v].token] = index[v].user
    <3> SUFFICES ASSUME NEW v \in Users, index[v].token # None
                 PROVE  owner'[index[v].token] = index[v].user
      OBVIOUS
    <3>1. /\ index[v].token \in Tokens /\ index[v].user \in Users
          /\ owner[index[v].token] = index[v].user
      BY DEF TypeOK, Rows, TimersInv, OwnersInv
    <3> QED
      BY <2>2, <2>3, <3>1
  <2>4. \A v \in Users : token'[v] # None => owner'[token'[v]] = v
    <3> SUFFICES ASSUME NEW v \in Users, token'[v] # None, v # u
                 PROVE  owner'[token'[v]] = v
      BY <2>1, <2>3 DEF TypeOK
    <3>1. token'[v] = token[v] /\ token[v] \in Tokens /\ owner[token[v]] = v
      BY <2>1 DEF TypeOK, TimersInv, OwnersInv
    <3> QED
      BY <2>2, <2>3, <3>1
  <2>5. \A row \in snapshot : owner'[row.token] = row.user
    <3> SUFFICES ASSUME NEW row \in snapshot PROVE owner'[row.token] = row.user
      OBVIOUS
    <3>1. row.token \in Tokens /\ row.user \in Users
      BY DEF TypeOK, Rows
    <3>2. owner[row.token] = row.user
      BY DEF TimersInv, OwnersInv
    <3> QED
      BY <2>2, <2>3, <3>1, <3>2
  <2>6. \A timer \in timers : timer.user # None => owner'[timer.token] = timer.user
    BY <2>2, <2>3 DEF TimersInv, OwnersInv, Timers
  <2>7. \A timer \in invoked : owner'[timer.token] = timer.user
    BY <2>2, <2>3 DEF TimersInv, OwnersInv, InvokedForOwner, Timers
  <2> QED
    BY <2>1, <2>4, <2>5, <2>6, <2>7, <2>9 DEF TimersInv, OwnersInv, OneTimerPerToken, InvokedForOwner
<1>2. ASSUME UNCHANGED <<token, index, owner, snapshot, timers, invoked>> PROVE TimersInv'
  BY <1>2 DEF TimersInv, OwnersInv, OneTimerPerToken, InvokedForOwner
<1>3. CASE \E h \in Handlers : HandlerNext(h)
  BY <1>2, <1>3 DEF HandlerNext, Begin, WriteFlag, Publish, RequestFails
<1>4. CASE ReadUsers
  BY <1>4 DEF ReadUsers, TimersInv, OwnersInv, OneTimerPerToken, InvokedForOwner
<1>5. CASE Start
  <2>1. \A timer \in timers' : owner[timer.token] = timer.user
    BY <1>5 DEF Start, TimersInv, OwnersInv
  <2>2. \A a, b \in timers' : a.token = b.token => a = b
    <3> SUFFICES ASSUME NEW a \in timers', NEW b \in timers', a.token = b.token
                 PROVE  a = b
      OBVIOUS
    <3>1. /\ a = [token |-> a.token, user |-> a.user]
          /\ b = [token |-> b.token, user |-> b.user]
      BY <1>5 DEF Start
    <3> QED
      BY <2>1, <3>1
  <2> QED
    BY <1>5, <2>1, <2>2 DEF Start, TimersInv, OwnersInv, OneTimerPerToken, InvokedForOwner
<1>6. CASE HandleConnect
  BY <1>6 DEF HandleConnect, Add, TimersInv, OwnersInv, OneTimerPerToken, InvokedForOwner
<1>7. CASE HandleDisconnect
  BY <1>7 DEF HandleDisconnect, Remove, TimersInv, OwnersInv, OneTimerPerToken, InvokedForOwner
<1>8. ASSUME NEW timer \in Timers, Fire(timer) PROVE TimersInv'
  BY <1>8 DEF Fire, TimersInv, OwnersInv, OneTimerPerToken, InvokedForOwner
<1>9. CASE Crash \/ \E timer \in Timers : FireNobody(timer)
  BY <1>9 DEF Crash, FireNobody, Die, TimersInv, OwnersInv, OneTimerPerToken, InvokedForOwner
<1>10. CASE UNCHANGED vars
  BY <1>2, <1>10 DEF vars
<1>11. ASSUME NEW u \in Users, Follow(u) PROVE TimersInv'
  <2>1. index' = [index EXCEPT ![u] = Row(u)] /\ UNCHANGED <<token, owner, snapshot, timers, invoked>>
    BY <1>11 DEF Follow
  <2>2. Row(u).token = token[u] /\ Row(u).user = u
    BY DEF Row
  <2>3. \A v \in Users : index'[v].token # None => owner[index'[v].token] = index'[v].user
    BY <2>1, <2>2 DEF TypeOK, TimersInv, OwnersInv
  <2> QED
    BY <2>1, <2>3 DEF TimersInv, OwnersInv, OneTimerPerToken, InvokedForOwner
<1> QED
  BY <1>1, <1>3, <1>4, <1>5, <1>6, <1>7, <1>8, <1>9, <1>10, <1>11 DEF Next, Handle

\* However messages and restarts interleave, a token has one timer.
THEOREM OneTimer == Spec => []OneTimerPerToken
<1>1. Spec => [](TypeOK /\ TimersInv)
  BY InitTypeOK, NextTypeOK, InitTimersInv, NextTimersInv, PTL DEF Spec
<1>2. TimersInv => OneTimerPerToken
  BY DEF TimersInv
<1> QED
  BY <1>1, <1>2, PTL

\* No favorite is read with one user's token and charged to another.
THEOREM OwnerInvoked == Spec => []InvokedForOwner
<1>1. Spec => [](TypeOK /\ TimersInv)
  BY InitTypeOK, NextTypeOK, InitTimersInv, NextTimersInv, PTL DEF Spec
<1>2. TimersInv => InvokedForOwner
  BY DEF TimersInv
<1> QED
  BY <1>1, <1>2, PTL

-----------------------------------------------------------------------------
(* Welcomes.                                                               *)

\* Every step is a step of Poller or leaves its variables alone.
LEMMA StepOfPoller == [OnboardingNext]_allVars => [Next]_vars
<1>1. Elsewhere => Next
  BY DEF Elsewhere, Web, Loop, Next
<1>2. \A h \in Handlers : SendLetter(h) => UNCHANGED vars
  BY DEF SendLetter
<1>3. \A h \in Handlers, u \in Users : Autotip(h, u) => UNCHANGED vars
  BY DEF Autotip
<1>4. \A u \in Users : Greet(u) => UNCHANGED vars
  BY DEF Greet
<1>7. \A u \in Users : Index(u) => Next
  BY DEF Index, Next
<1>5. GreetEnds => UNCHANGED vars
  BY DEF GreetEnds
<1>6. PollerEnds => Next
  BY DEF PollerEnds, Next
<1> QED
  BY <1>1, <1>2, <1>3, <1>4, <1>5, <1>6, <1>7 DEF OnboardingNext, allVars

\* With welcomes around them the flags, messages and timers behave as Poller
\* says: OneTimerPerToken and InvokedForOwner hold here, too.
THEOREM PollerInside == OnboardingSpec => Spec
<1>1. OnboardingInit => Init
  BY DEF OnboardingInit
<1> QED
  BY <1>1, StepOfPoller, PTL DEF OnboardingSpec, Spec

\* The variables of the welcomes are well typed at the start.
LEMMA OnboardingInitType == OnboardingInit => OnboardingTypeOK
BY InitTypeOK, OnboardingAssumption DEF OnboardingInit, OnboardingTypeOK

\* Counting one more, or one less of something.
LEMMA CountTypes ==
  ASSUME NEW f \in [Users -> Nat], NEW u \in Users
  PROVE  /\ [f EXCEPT ![u] = @ + 1] \in [Users -> Nat]
         /\ f[u] > 0 => [f EXCEPT ![u] = @ - 1] \in [Users -> Nat]
OBVIOUS

\* Every step keeps the types.
LEMMA OnboardingNextType ==
  OnboardingTypeOK /\ [OnboardingNext]_allVars => OnboardingTypeOK'
<1> SUFFICES ASSUME OnboardingTypeOK, [OnboardingNext]_allVars PROVE OnboardingTypeOK'
  OBVIOUS
<1>0. TypeOK'
  BY StepOfPoller, NextTypeOK DEF OnboardingTypeOK
<1>1. CASE Elsewhere
  <2>1. greeting # None => poller' = "up"
    BY <1>1 DEF Elsewhere, Web, HandlerNext, Login, Begin, WriteFlag, Publish, RequestFails,
                ReadUsers, Start, Loop, Handle, OnboardingTypeOK, daemon
  <2> QED
    BY <1>0, <1>1, <2>1 DEF Elsewhere, welcomeVars, OnboardingTypeOK
<1>2. ASSUME NEW h \in Handlers, SendLetter(h) PROVE OnboardingTypeOK'
  <2>1. autotip[h] \in Users
    BY <1>2 DEF SendLetter, OnboardingTypeOK
  <2>2. letters' \in [Users -> Nat]
    BY <1>2, <2>1, CountTypes DEF SendLetter, OnboardingTypeOK
  <2> QED
    BY <1>0, <1>2, <2>2 DEF SendLetter, OnboardingTypeOK, vars, daemon
<1>3. ASSUME NEW h \in Handlers, NEW u \in Users, Autotip(h, u) PROVE OnboardingTypeOK'
  <2>1. early' \in [Users -> Nat]
    BY <1>3, CountTypes DEF Autotip, OnboardingTypeOK
  <2>2. autotips' \in 0 .. MaxAutotips
    BY <1>3, OnboardingAssumption DEF Autotip, OnboardingTypeOK
  <2> QED
    BY <1>0, <1>3, <2>1, <2>2 DEF Autotip, OnboardingTypeOK, vars, daemon
<1>4. ASSUME NEW u \in Users, Index(u) PROVE OnboardingTypeOK'
  BY <1>0, <1>4 DEF Index, Follow, OnboardingTypeOK, daemon
<1>5. ASSUME NEW u \in Users, Greet(u) PROVE OnboardingTypeOK'
  <2>1. letters' \in [Users -> Nat] /\ welcomes' \in [Users -> Nat]
    BY <1>5, CountTypes DEF Greet, OnboardingTypeOK
  <2> QED
    BY <1>0, <1>5, <2>1 DEF Greet, OnboardingTypeOK, vars, daemon
<1>6. CASE GreetEnds
  BY <1>0, <1>6 DEF GreetEnds, OnboardingTypeOK
<1>7. CASE PollerEnds
  BY <1>0, <1>7 DEF PollerEnds, OnboardingTypeOK
<1>8. CASE UNCHANGED allVars
  BY <1>0, <1>8 DEF allVars, welcomeVars, vars, daemon, OnboardingTypeOK
<1> QED
  BY <1>1, <1>2, <1>3, <1>4, <1>5, <1>6, <1>7, <1>8 DEF OnboardingNext

\* Every reachable state is well typed.
THEOREM OnboardingTypeCorrect == OnboardingSpec => []OnboardingTypeOK
BY OnboardingInitType, OnboardingNextType, PTL DEF OnboardingSpec

\* WelcomedOnceUnlessEarly is not inductive: a letter on its way, or a request
\* that has passed the test, is a welcome to come and counts like one.
Asking(u) == {h \in Handlers : autotip[h] = u}

Coming(u) == welcomes[u] + Cardinality(Asking(u)) + letters[u]

WelcomeInv ==
  /\ \A u \in Users \ marked : welcomes[u] = 0
  /\ \A u \in Users : Coming(u) <= 1 + early[u]

\* The requests of a user can be counted.
LEMMA AskingCounts ==
  ASSUME NEW u \in Users
  PROVE  IsFiniteSet(Asking(u)) /\ Cardinality(Asking(u)) \in Nat
<1>1. IsFiniteSet(Handlers) /\ Asking(u) \subseteq Handlers
  BY OnboardingAssumption DEF Asking
<1>2. IsFiniteSet(Asking(u))
  BY <1>1, FS_Subset
<1> QED
  BY <1>2, FS_CardinalityType

\* Nobody asks for a welcome at the start.
LEMMA InitWelcomeInv == OnboardingInit => WelcomeInv
<1> SUFFICES ASSUME OnboardingInit, NEW u \in Users PROVE Coming(u) <= 1 + early[u]
  BY DEF OnboardingInit, WelcomeInv
<1>1. Asking(u) = {}
  BY PollerAssumption DEF Asking, OnboardingInit
<1>2. Cardinality(Asking(u)) = 0
  BY <1>1, FS_EmptySet
<1> QED
  BY <1>2 DEF OnboardingInit, Coming

\* A step that leaves the counts alone and unmarks nobody keeps the invariant.
LEMMA CountsStay ==
  OnboardingTypeOK /\ WelcomeInv /\ marked \subseteq marked'
  /\ UNCHANGED <<autotip, letters, welcomes, early>> => WelcomeInv'
BY DEF WelcomeInv, Coming, Asking

\* A request that passes the test counts for its user only.
LEMMA AutotipKeeps ==
  ASSUME OnboardingTypeOK, WelcomeInv, NEW h \in Handlers, NEW u \in Users, Autotip(h, u)
  PROVE  WelcomeInv'
<1> USE DEF OnboardingTypeOK
<1>1. /\ autotip[h] = None /\ autotip' = [autotip EXCEPT ![h] = u] /\ u \notin shown
      /\ early' = IF Expected(u) \/ u \in marked \ shown
                  THEN [early EXCEPT ![u] = @ + 1] ELSE early
      /\ UNCHANGED <<marked, letters, welcomes>>
  BY DEF Autotip
<1>2. \A v \in Users : early'[v] \in Nat /\ early'[v] >= early[v]
  BY <1>1
<1> SUFFICES ASSUME NEW v \in Users PROVE Coming(v)' <= 1 + early'[v]
  BY <1>1 DEF WelcomeInv
<1>3. Coming(v)' = welcomes[v] + Cardinality(Asking(v)') + letters[v]
  BY <1>1 DEF Coming
<1>4. Coming(v) <= 1 + early[v] /\ welcomes[v] \in Nat /\ letters[v] \in Nat /\ early[v] \in Nat
  BY DEF WelcomeInv
<1>5. CASE v # u
  <2>1. Asking(v)' = Asking(v)
    BY <1>1, <1>5, PollerAssumption DEF Asking
  <2> QED
    BY <1>2, <1>3, <1>4, <2>1, AskingCounts DEF Coming
<1>6. CASE v = u
  <2>1. Asking(v)' = Asking(v) \union {h} /\ h \notin Asking(v)
    BY <1>1, <1>6, PollerAssumption DEF Asking
  <2>2. Cardinality(Asking(v)') = Cardinality(Asking(v)) + 1
    BY <2>1, AskingCounts, FS_AddElement
  <2>3. CASE Expected(u) \/ u \in marked \ shown
    <3>1. early'[v] = early[v] + 1
      BY <1>1, <1>6, <2>3
    <3> QED
      BY <1>3, <1>4, <2>2, <3>1, AskingCounts DEF Coming
  <2>4. CASE ~(Expected(u) \/ u \in marked \ shown)
    <3>1. Asking(v) = {} /\ letters[v] = 0
      BY <1>4, <1>6, <2>4 DEF Expected, Asking
    <3>2. welcomes[v] = 0
      BY <1>1, <1>6, <2>4 DEF WelcomeInv
    <3>3. Cardinality(Asking(v)) = 0
      BY <3>1, FS_EmptySet
    <3> QED
      BY <1>2, <1>3, <2>2, <3>1, <3>2, <3>3
  <2> QED
    BY <2>3, <2>4
<1> QED
  BY <1>5, <1>6

\* A request that ends counts no more; its message does, if anybody hears it.
LEMMA SendLetterKeeps ==
  ASSUME OnboardingTypeOK, WelcomeInv, NEW h \in Handlers, SendLetter(h)
  PROVE  WelcomeInv'
<1> USE DEF OnboardingTypeOK
<1> DEFINE u == autotip[h]
<1>1. u \in Users /\ autotip' = [autotip EXCEPT ![h] = None]
      /\ UNCHANGED <<marked, welcomes, early>>
  BY DEF SendLetter
<1>2. letters' = [letters EXCEPT ![u] = @ + 1] \/ letters' = letters
  BY DEF SendLetter
<1> SUFFICES ASSUME NEW v \in Users PROVE Coming(v)' <= 1 + early[v]
  BY <1>1 DEF WelcomeInv
<1>3. Coming(v)' = welcomes[v] + Cardinality(Asking(v)') + letters'[v]
  BY <1>1 DEF Coming
<1>4. Coming(v) <= 1 + early[v] /\ welcomes[v] \in Nat /\ letters[v] \in Nat /\ early[v] \in Nat
  BY DEF WelcomeInv
<1>5. CASE v # u
  <2>1. Asking(v)' = Asking(v) /\ letters'[v] = letters[v]
    BY <1>1, <1>2, <1>5, PollerAssumption DEF Asking
  <2> QED
    BY <1>3, <1>4, <2>1 DEF Coming
<1>6. CASE v = u
  <2>1. Asking(v)' = Asking(v) \ {h} /\ h \in Asking(v)
    BY <1>1, <1>6, PollerAssumption DEF Asking
  <2>2. Cardinality(Asking(v)') = Cardinality(Asking(v)) - 1
    BY <2>1, AskingCounts, FS_RemoveElement
  <2>3. letters'[v] \in {letters[v], letters[v] + 1}
    BY <1>1, <1>2, <1>6
  <2> QED
    BY <1>3, <1>4, <2>2, <2>3, AskingCounts DEF Coming
<1> QED
  BY <1>5, <1>6

\* A message that is read becomes a welcome.
LEMMA GreetKeeps ==
  ASSUME OnboardingTypeOK, WelcomeInv, NEW u \in Users, Greet(u)
  PROVE  WelcomeInv'
<1> USE DEF OnboardingTypeOK
<1>1. /\ letters[u] > 0 /\ letters' = [letters EXCEPT ![u] = @ - 1]
      /\ welcomes' = [welcomes EXCEPT ![u] = @ + 1]
      /\ marked' = marked \union {u} /\ UNCHANGED <<autotip, early>>
  BY DEF Greet
<1>2. \A v \in Users \ marked' : welcomes'[v] = 0
  BY <1>1 DEF WelcomeInv
<1>3. ASSUME NEW v \in Users PROVE Coming(v)' <= 1 + early'[v]
  <2>1. Asking(v)' = Asking(v)
    BY <1>1 DEF Asking
  <2>2. welcomes'[v] + letters'[v] = welcomes[v] + letters[v]
    BY <1>1
  <2>3. welcomes[v] \in Nat /\ letters[v] \in Nat /\ welcomes'[v] \in Nat /\ letters'[v] \in Nat
    BY <1>1
  <2>4. Coming(v) <= 1 + early[v]
    BY DEF WelcomeInv
  <2> QED
    BY <1>1, <2>1, <2>2, <2>3, <2>4, AskingCounts DEF Coming
<1> QED
  BY <1>2, <1>3 DEF WelcomeInv

\* The process ends and its messages with it.
LEMMA PollerEndsKeeps ==
  ASSUME OnboardingTypeOK, WelcomeInv, PollerEnds PROVE WelcomeInv'
<1> USE DEF OnboardingTypeOK
<1>1. letters' = [v \in Users |-> 0] /\ UNCHANGED <<marked, autotip, welcomes, early>>
  BY DEF PollerEnds
<1>2. ASSUME NEW v \in Users PROVE Coming(v)' <= 1 + early'[v]
  <2>1. Asking(v)' = Asking(v)
    BY <1>1 DEF Asking
  <2>2. Coming(v) <= 1 + early[v] /\ welcomes[v] \in Nat /\ letters[v] \in Nat /\ early[v] \in Nat
    BY DEF WelcomeInv
  <2> QED
    BY <1>1, <2>1, <2>2, AskingCounts DEF Coming
<1> QED
  BY <1>1, <1>2 DEF WelcomeInv

\* Every step keeps the invariant.
LEMMA NextWelcomeInv ==
  OnboardingTypeOK /\ WelcomeInv /\ [OnboardingNext]_allVars => WelcomeInv'
<1> SUFFICES ASSUME OnboardingTypeOK, WelcomeInv, [OnboardingNext]_allVars PROVE WelcomeInv'
  OBVIOUS
<1>1. CASE Elsewhere \/ GreetEnds \/ UNCHANGED allVars
  BY <1>1, CountsStay DEF Elsewhere, GreetEnds, allVars, welcomeVars
<1>2. ASSUME NEW u \in Users, Index(u) PROVE WelcomeInv'
  BY <1>2, CountsStay DEF Index
<1>3. ASSUME NEW h \in Handlers, NEW u \in Users, Autotip(h, u) PROVE WelcomeInv'
  BY <1>3, AutotipKeeps
<1>4. ASSUME NEW h \in Handlers, SendLetter(h) PROVE WelcomeInv'
  BY <1>4, SendLetterKeeps
<1>5. ASSUME NEW u \in Users, Greet(u) PROVE WelcomeInv'
  BY <1>5, GreetKeeps
<1>6. CASE PollerEnds
  BY <1>6, PollerEndsKeeps
<1> QED
  BY <1>1, <1>2, <1>3, <1>4, <1>5, <1>6 DEF OnboardingNext

\* Repeated requests, lost messages and restarts do not welcome anybody twice;
\* only a request that came too early to see the mark does.
THEOREM WelcomedOnce == OnboardingSpec => []WelcomedOnceUnlessEarly
<1>1. OnboardingTypeOK /\ WelcomeInv => WelcomedOnceUnlessEarly
  <2> SUFFICES ASSUME OnboardingTypeOK, WelcomeInv, NEW u \in Users
               PROVE  welcomes[u] <= 1 + early[u]
    BY DEF WelcomedOnceUnlessEarly
  <2>1. Coming(u) <= 1 + early[u] /\ welcomes[u] \in Nat /\ letters[u] \in Nat /\ early[u] \in Nat
    BY DEF WelcomeInv, OnboardingTypeOK
  <2> QED
    BY <2>1, AskingCounts DEF Coming
<1>2. OnboardingInit => OnboardingTypeOK /\ WelcomeInv
  BY OnboardingInitType, InitWelcomeInv
<1>3. (OnboardingTypeOK /\ WelcomeInv) /\ [OnboardingNext]_allVars
        => (OnboardingTypeOK /\ WelcomeInv)'
  BY OnboardingNextType, NextWelcomeInv
<1> QED
  BY <1>1, <1>2, <1>3, PTL DEF OnboardingSpec
=============================================================================
