------------------------ MODULE UserDirectory_proofs ------------------------
(***************************************************************************)
(* Proofs about UserDirectory, for any people, tokens, sign-ins and tips:  *)
(* the types, that tipped money stays with its owner, and that every       *)
(* duplicate record goes back to a lookup that raced or was stale.  About  *)
(* SplitIdentity: the directory inside is that of UserDirectory, and a     *)
(* settled favorite comes up again only for a person with two records.     *)
(***************************************************************************)
EXTENDS SplitIdentity, FiniteSetTheorems, SequenceTheorems, TLAPS

-----------------------------------------------------------------------------
(* Type correctness.                                                       *)

\* The table with one more record.
LEMMA InsertType ==
  ASSUME TypeOK, NEW id \in People, NEW token \in Tokens \union {None},
         Insert(id, token)
  PROVE  /\ users' \in Seq(Users) /\ addresses' = addresses + 1
         /\ Len(users) \in Nat /\ DOMAIN users = 1 .. Len(users)
         /\ DOMAIN users' = 1 .. Len(users) + 1
         /\ \A i \in DOMAIN users : i \in DOMAIN users' /\ users'[i] = users[i]
         /\ Len(users) + 1 \in DOMAIN users' /\ Len(users) + 1 \notin DOMAIN users
         /\ users'[Len(users) + 1] = [twitter |-> id, address |-> addresses + 1, token |-> token]
<1>1. [twitter |-> id, address |-> addresses + 1, token |-> token] \in Users
  BY DEF TypeOK, Users
<1> QED
  BY <1>1 DEF Insert, TypeOK

\* The table with a new token in one record.
LEMMA UpdateType ==
  ASSUME TypeOK, NEW n, NEW token \in Tokens,
         users' = [users EXCEPT ![n].token = token]
  PROVE  /\ users' \in Seq(Users) /\ DOMAIN users' = DOMAIN users
         /\ \A i \in DOMAIN users :
              users'[i].twitter = users[i].twitter /\ users'[i].address = users[i].address
<1>1. Len(users) \in Nat /\ DOMAIN users = 1 .. Len(users)
  BY DEF TypeOK
<1>2. \A i \in DOMAIN users : users[i] \in Users
  BY ElementOfSeq, LenProperties DEF TypeOK
<1>3. /\ users' = [i \in 1 .. Len(users) |-> users'[i]]
      /\ \A i \in 1 .. Len(users) :
           users'[i] = IF i = n THEN [users[i] EXCEPT !.token = token] ELSE users[i]
  BY <1>1 DEF TypeOK
<1>4. \A i \in 1 .. Len(users) :
        /\ users'[i] \in Users
        /\ users'[i].twitter = users[i].twitter /\ users'[i].address = users[i].address
  BY <1>1, <1>2, <1>3 DEF Users
<1>5. users' \in Seq(Users)
  <2>1. CASE n \in 1 .. Len(users)
    <3> DEFINE record == [users[n] EXCEPT !.token = token]
    <3>1. record \in Users
      BY <1>1, <1>2, <2>1 DEF Users
    <3>2. users' = [users EXCEPT ![n] = record]
      OBVIOUS
    <3> QED
      BY <2>1, <3>1, <3>2, ExceptSeq DEF TypeOK
  <2>2. CASE n \notin 1 .. Len(users)
    <3>1. users = [i \in 1 .. Len(users) |-> users[i]]
      BY <1>1 DEF TypeOK
    <3>2. users' = [i \in 1 .. Len(users) |-> users[i]]
      BY <1>3, <2>2
    <3> QED
      BY <3>1, <3>2 DEF TypeOK
  <2> QED
    BY <2>1, <2>2
<1> QED
  BY <1>1, <1>3, <1>4, <1>5

\* A lookup that finds nobody counts at most one miss.
LEMMA MissType ==
  ASSUME TypeOK, NEW id \in People, Miss(id)
  PROVE  /\ misses' \in [People -> Nat]
         /\ \A other \in People : other # id => misses'[other] = misses[other]
         /\ misses'[id] = misses[id] + 1 \/
            (/\ misses'[id] = misses[id]
             /\ Records(id) = {} /\ Creating(id) = {} /\ ~ Stubbing(id))
BY DEF Miss, TypeOK

\* The first states are well typed.
LEMMA InitTypeOK == Init => TypeOK
BY DirectoryAssumption DEF Init, TypeOK

\* Every step keeps the types.
LEMMA NextTypeOK == TypeOK /\ [Next]_vars => TypeOK'
<1> SUFFICES ASSUME TypeOK, [Next]_vars PROVE TypeOK'
  OBVIOUS
<1>1. ASSUME NEW i \in DOMAIN users, Index(i) PROVE TypeOK'
  BY <1>1 DEF Index, TypeOK
<1>2. ASSUME NEW h \in Handlers, NEW id \in People, NEW token \in Tokens, FindUser(h, id, token)
      PROVE  TypeOK'
  <2>1. login' \in [Handlers -> {Idle} \union SigningIn]
    <3>1. \A i \in Found(id) : i \in Nat
      BY DEF Found, TypeOK
    <3>2. \E v \in SigningIn : login' = [login EXCEPT ![h] = v]
      BY <1>2, <3>1 DEF FindUser, SigningIn
    <3> QED
      BY <3>2 DEF TypeOK
  <2>2. misses' \in [People -> Nat]
    BY <1>2, MissType DEF FindUser, TypeOK
  <2>3. logins' \in 0 .. MaxLogins
    BY <1>2, DirectoryAssumption DEF FindUser, TypeOK
  <2> QED
    BY <1>2, <2>1, <2>2, <2>3 DEF FindUser, TypeOK
<1>3. ASSUME NEW h \in Handlers, CreateUser(h) PROVE TypeOK'
  <2>1. login[h].id \in People /\ login[h].token \in Tokens
    BY <1>3 DEF CreateUser, TypeOK, SigningIn
  <2>2. /\ users' \in Seq(Users) /\ addresses' = addresses + 1
        /\ \A i \in DOMAIN users : i \in DOMAIN users'
    BY <1>3, <2>1, InsertType DEF CreateUser
  <2> QED
    BY <1>3, <2>2 DEF CreateUser, TypeOK
<1>4. ASSUME NEW h \in Handlers, UpdateUser(h) PROVE TypeOK'
  <2>1. login[h].token \in Tokens
    BY <1>4 DEF UpdateUser, TypeOK, SigningIn
  <2>2. users' \in Seq(Users) /\ DOMAIN users' = DOMAIN users
    BY <1>4, <2>1, UpdateType DEF UpdateUser
  <2> QED
    BY <1>4, <2>2 DEF UpdateUser, TypeOK
<1>5. ASSUME NEW h \in Handlers, LoginFails(h) PROVE TypeOK'
  BY <1>5 DEF LoginFails, TypeOK
<1>6. ASSUME NEW from \in People, NEW to \in People, FindUsers(from, to) PROVE TypeOK'
  <2>1. \A i \in Found(to) : users[i] \in Users
    BY ElementOfSeq, LenProperties DEF Found, TypeOK
  <2>2. worker' \in Tipping
    BY <1>6, <2>1 DEF FindUsers, Tipping, Users
  <2>3. misses' \in [People -> Nat]
    BY <1>6, MissType DEF FindUsers, TypeOK
  <2>4. messages' \in 0 .. MaxTips
    BY <1>6, DirectoryAssumption DEF FindUsers, TypeOK
  <2> QED
    BY <1>6, <2>2, <2>3, <2>4 DEF FindUsers, TypeOK
<1>7. CASE CreateStub
  <2>1. worker \in Tipping /\ worker.id \in People
    BY <1>7 DEF CreateStub, TypeOK, Tipping
  <2>2. /\ users' \in Seq(Users) /\ addresses' = addresses + 1
        /\ \A i \in DOMAIN users : i \in DOMAIN users'
    BY <1>7, <2>1, InsertType DEF CreateStub
  <2>3. worker' \in Tipping
    <3>1. addresses + 1 \in Nat
      BY DEF TypeOK
    <3> QED
      BY <1>7, <2>1, <3>1 DEF CreateStub, Tipping
  <2> QED
    BY <1>7, <2>2, <2>3 DEF CreateStub, TypeOK
<1>8. CASE Pay
  BY <1>8 DEF Pay, TypeOK, Tipping
<1>9. CASE GiveUp
  BY <1>9 DEF GiveUp, TypeOK
<1>10. CASE UNCHANGED vars
  BY <1>10 DEF vars, TypeOK
<1> QED
  BY <1>1, <1>2, <1>3, <1>4, <1>5, <1>6, <1>7, <1>8, <1>9, <1>10 DEF Next

\* Every reachable state is well typed.
THEOREM TypeCorrect == Spec => []TypeOK
BY InitTypeOK, NextTypeOK, PTL DEF Spec

-----------------------------------------------------------------------------
(* Whose the money is.                                                     *)

Owns(id, address) ==
  \E i \in DOMAIN users : users[i].twitter = id /\ users[i].address = address

\* MoneyIsOwned is not inductive: the worker is about to pay to an address that
\* it has looked up or made, and that must be its receiver's.
MoneyInv ==
  /\ \A p \in paid : Owns(p.to, p.address)
  /\ worker # Idle /\ worker.pc = "pay" => Owns(worker.id, worker.address)

\* No step takes an address from its owner.
LEMMA OwnsStays ==
  ASSUME TypeOK, [Next]_vars
  PROVE  \A id, address : Owns(id, address) =>
           \E i \in DOMAIN users' : users'[i].twitter = id /\ users'[i].address = address
<1>1. ASSUME NEW h \in Handlers, CreateUser(h)
      PROVE  \A i \in DOMAIN users : i \in DOMAIN users' /\ users'[i] = users[i]
  <2>1. login[h].id \in People /\ login[h].token \in Tokens
    BY <1>1 DEF CreateUser, TypeOK, SigningIn
  <2> QED
    BY <1>1, <2>1, InsertType DEF CreateUser
<1>2. ASSUME CreateStub
      PROVE  \A i \in DOMAIN users : i \in DOMAIN users' /\ users'[i] = users[i]
  <2>1. worker.id \in People
    BY <1>2 DEF CreateStub, TypeOK, Tipping
  <2> QED
    BY <1>2, <2>1, InsertType DEF CreateStub
<1>3. ASSUME NEW h \in Handlers, UpdateUser(h)
      PROVE  /\ DOMAIN users' = DOMAIN users
             /\ \A i \in DOMAIN users : /\ users'[i].twitter = users[i].twitter
                                        /\ users'[i].address = users[i].address
  <2>1. login[h].token \in Tokens
    BY <1>3 DEF UpdateUser, TypeOK, SigningIn
  <2> QED
    BY <1>3, <2>1, UpdateType DEF UpdateUser
<1>4. UNCHANGED users \/ CreateStub \/ \E h \in Handlers : CreateUser(h) \/ UpdateUser(h)
  BY DEF Next, Index, FindUser, LoginFails, FindUsers, Pay, GiveUp, vars
<1> QED
  BY <1>1, <1>2, <1>3, <1>4 DEF Owns

\* Every step keeps the invariant.
LEMMA NextMoneyInv == TypeOK /\ MoneyInv /\ [Next]_vars => MoneyInv'
<1> SUFFICES ASSUME TypeOK, MoneyInv, [Next]_vars PROVE MoneyInv'
  OBVIOUS
<1>1. ASSUME UNCHANGED paid, UNCHANGED worker \/ worker' = Idle \/ worker'.pc = "stub"
      PROVE  MoneyInv'
  BY <1>1, OwnsStays DEF MoneyInv, Owns
<1>2. ASSUME NEW from \in People, NEW to \in People, FindUsers(from, to) PROVE MoneyInv'
  <2>1. CASE worker'.pc = "stub"
    BY <1>1, <1>2, <2>1 DEF FindUsers
  <2>2. CASE \E i \in Found(to) : worker' = [pc |-> "pay", id |-> to, address |-> users[i].address]
    <3>1. PICK i \in Found(to) : worker' = [pc |-> "pay", id |-> to, address |-> users[i].address]
      BY <2>2
    <3>2. i \in DOMAIN users /\ users[i].twitter = to
      BY <3>1 DEF Found, TypeOK
    <3> QED
      BY <1>2, <3>1, <3>2 DEF FindUsers, MoneyInv, Owns
  <2> QED
    BY <1>2, <2>1, <2>2 DEF FindUsers
<1>3. CASE CreateStub
  <2>1. worker \in Tipping /\ worker.id \in People
    BY <1>3 DEF CreateStub, TypeOK, Tipping
  <2>2. /\ worker'.id = worker.id /\ worker'.address = addresses + 1
        /\ paid' = paid
    BY <1>3, <2>1 DEF CreateStub, Tipping
  <2>3. Insert(worker.id, None)
    BY <1>3 DEF CreateStub
  <2>4. /\ Len(users) + 1 \in DOMAIN users'
        /\ users'[Len(users) + 1] =
             [twitter |-> worker.id, address |-> addresses + 1, token |-> None]
    BY <2>1, <2>3, InsertType
  <2>5. Owns(worker.id, worker.address)'
    BY <2>2, <2>4 DEF Owns
  <2>6. \A p \in paid : Owns(p.to, p.address)'
    BY OwnsStays DEF MoneyInv, Owns
  <2> QED
    BY <2>2, <2>5, <2>6 DEF MoneyInv
<1>4. CASE Pay
  BY <1>4 DEF Pay, MoneyInv, Owns
<1>5. CASE ~ (CreateStub \/ Pay \/ \E from, to \in People : FindUsers(from, to))
  <2>1. UNCHANGED paid /\ (UNCHANGED worker \/ worker' = Idle)
    BY <1>5 DEF Next, Index, FindUser, CreateUser, UpdateUser, LoginFails, GiveUp, vars
  <2> QED
    BY <1>1, <2>1
<1> QED
  BY <1>2, <1>3, <1>4, <1>5

\* Whoever signs in while a tip is under way, the money lies at an address of
\* the person it was meant for.
THEOREM MoneyOwned == Spec => []MoneyIsOwned
<1>1. Init => MoneyInv
  BY DEF Init, MoneyInv
<1>2. Spec => [](TypeOK /\ MoneyInv)
  BY <1>1, InitTypeOK, NextTypeOK, NextMoneyInv, PTL DEF Spec
<1>3. MoneyInv => MoneyIsOwned
  BY DEF MoneyInv, MoneyIsOwned, Owns
<1> QED
  BY <1>2, <1>3, PTL

-----------------------------------------------------------------------------
(* Duplicate records.                                                      *)

\* The record that the worker is about to make for id.
Stubs(id) == IF Stubbing(id) THEN 1 ELSE 0

\* DuplicatesOnlyByRaces is not inductive: the records about to be made count
\* like those there are, for nothing stops them any more.
RaceInv ==
  \A id \in People :
    Cardinality(Records(id)) + Cardinality(Creating(id)) + Stubs(id) <= 1 + misses[id]

\* The sets that are counted are finite.
LEMMA Counts ==
  ASSUME TypeOK, NEW id \in People
  PROVE  /\ IsFiniteSet(Records(id)) /\ Cardinality(Records(id)) \in Nat
         /\ IsFiniteSet(Creating(id)) /\ Cardinality(Creating(id)) \in Nat
         /\ Stubs(id) \in {0, 1} /\ misses[id] \in Nat
<1>1. Len(users) \in Nat /\ Records(id) \subseteq 1 .. Len(users)
  BY DEF TypeOK, Records
<1>2. IsFiniteSet(Records(id))
  <2>1. IsFiniteSet(1 .. Len(users))
    BY <1>1, FS_Interval
  <2> QED
    BY <1>1, <2>1, FS_Subset
<1>3. IsFiniteSet(Creating(id))
  BY DirectoryAssumption, FS_Subset DEF Creating
<1> QED
  BY <1>2, <1>3, FS_CardinalityType DEF Stubs, TypeOK

\* A step that makes no record and starts making none keeps the counts.
LEMMA QuietStep ==
  ASSUME TypeOK, RaceInv,
         UNCHANGED misses,
         \A id \in People : Records(id)' = Records(id),
         \A id \in People : Creating(id)' \subseteq Creating(id),
         \A id \in People : Stubbing(id)' => Stubbing(id)
  PROVE  RaceInv'
<1> SUFFICES ASSUME NEW id \in People
             PROVE  Cardinality(Records(id))' + Cardinality(Creating(id))' + Stubs(id)'
                      <= 1 + misses'[id]
  BY DEF RaceInv
<1>1. Cardinality(Creating(id)') <= Cardinality(Creating(id)) /\ Cardinality(Creating(id)') \in Nat
  BY Counts, FS_Subset, FS_CardinalityType
<1>2. Stubs(id)' <= Stubs(id) /\ Stubs(id)' \in {0, 1}
  BY DEF Stubs
<1>3. Cardinality(Records(id)') = Cardinality(Records(id))
  OBVIOUS
<1>4. Cardinality(Records(id)) + Cardinality(Creating(id)) + Stubs(id) <= 1 + misses[id]
  BY DEF RaceInv
<1> QED
  BY <1>1, <1>2, <1>3, <1>4, Counts

\* A new record counts for its person only.
LEMMA InsertCounts ==
  ASSUME TypeOK, NEW id \in People, NEW token \in Tokens \union {None}, Insert(id, token)
  PROVE  /\ Cardinality(Records(id)') = Cardinality(Records(id)) + 1
         /\ \A other \in People : other # id => Records(other)' = Records(other)
<1>1. /\ DOMAIN users' = DOMAIN users \union {Len(users) + 1}
      /\ \A i \in DOMAIN users : users'[i] = users[i]
      /\ Len(users) + 1 \notin DOMAIN users
      /\ users'[Len(users) + 1].twitter = id
  <2>1. /\ Len(users) \in Nat /\ DOMAIN users = 1 .. Len(users)
        /\ DOMAIN users' = 1 .. Len(users) + 1
        /\ \A i \in DOMAIN users : users'[i] = users[i]
        /\ users'[Len(users) + 1] =
             [twitter |-> id, address |-> addresses + 1, token |-> token]
    BY InsertType
  <2>2. DOMAIN users' = DOMAIN users \union {Len(users) + 1}
    BY <2>1
  <2> QED
    BY <2>1, <2>2
<1>2. Records(id)' = Records(id) \union {Len(users) + 1} /\ Len(users) + 1 \notin Records(id)
  BY <1>1 DEF Records
<1>3. \A other \in People : other # id => Records(other)' = Records(other)
  BY <1>1 DEF Records
<1> QED
  BY <1>2, <1>3, Counts, FS_AddElement

\* Every step keeps the counts.
LEMMA NextRaceInv == TypeOK /\ RaceInv /\ [Next]_vars => RaceInv'
<1> SUFFICES ASSUME TypeOK, RaceInv, [Next]_vars PROVE RaceInv'
  OBVIOUS
<1>1. ASSUME NEW h \in Handlers, NEW id \in People, NEW token \in Tokens, FindUser(h, id, token)
      PROVE  RaceInv'
  <2>1. login[h] = Idle /\ UNCHANGED <<users, worker>>
    BY <1>1 DEF FindUser
  <2>2. \A other \in People : Records(other)' = Records(other) /\ Stubs(other)' = Stubs(other)
    BY <2>1 DEF Records, Stubs, Stubbing
  <2>3. CASE UNCHANGED misses /\ \E i \in Found(id) :
               login' = [login EXCEPT ![h] = [pc |-> "update", id |-> id, token |-> token, user |-> i]]
    <3>1. \A other \in People : Creating(other)' \subseteq Creating(other)
      <4>1. \A g \in Handlers : login'[g] = login[g] \/ login'[g].pc = "update"
        BY <2>3 DEF TypeOK
      <4> QED
        BY <4>1 DEF Creating
    <3>2. \A other \in People : Stubbing(other)' => Stubbing(other)
      BY <2>1 DEF Stubbing
    <3> QED
      BY <2>2, <2>3, <3>1, <3>2, QuietStep
  <2>4. CASE Miss(id) /\
             login' = [login EXCEPT ![h] = [pc |-> "create", id |-> id, token |-> token, user |-> 0]]
    <3>1. /\ Creating(id)' = Creating(id) \union {h} /\ h \notin Creating(id)
          /\ \A other \in People : other # id => Creating(other)' = Creating(other)
      BY <2>1, <2>4 DEF Creating, TypeOK, Idle
    <3>2. Cardinality(Creating(id)') = Cardinality(Creating(id)) + 1
      BY <3>1, Counts, FS_AddElement
    <3>3. Cardinality(Records(id)) + Cardinality(Creating(id)) + 1 + Stubs(id) <= 1 + misses'[id]
      <4>1. CASE misses'[id] = misses[id] + 1
        BY <4>1, Counts DEF RaceInv
      <4>2. CASE /\ misses'[id] = misses[id]
                 /\ Records(id) = {} /\ Creating(id) = {} /\ ~ Stubbing(id)
        BY <4>2, Counts, FS_EmptySet DEF Stubs
      <4> QED
        BY <2>4, <4>1, <4>2, MissType
    <3>4. \A other \in People : other # id => misses'[other] = misses[other]
      BY <2>4, MissType
    <3> SUFFICES ASSUME NEW other \in People
                 PROVE  Cardinality(Records(other)') + Cardinality(Creating(other)') + Stubs(other)'
                          <= 1 + misses'[other]
      BY DEF RaceInv
    <3>5. CASE other = id
      BY <2>2, <3>2, <3>3, <3>5, Counts
    <3>6. CASE other # id
      BY <2>2, <3>1, <3>4, <3>6 DEF RaceInv
    <3> QED
      BY <3>5, <3>6
  <2> QED
    BY <1>1, <2>3, <2>4 DEF FindUser
<1>2. ASSUME NEW h \in Handlers, CreateUser(h) PROVE RaceInv'
  <2>0. PICK id \in People, token \in Tokens : id = login[h].id /\ token = login[h].token
    BY <1>2 DEF CreateUser, TypeOK, SigningIn
  <2>1. login[h] # Idle /\ login[h].pc = "create"
    BY <1>2 DEF CreateUser
  <2>2. /\ Insert(id, token) /\ login' = [login EXCEPT ![h] = Idle]
        /\ UNCHANGED <<worker, misses>>
    BY <1>2, <2>0 DEF CreateUser
  <2>3. /\ Creating(id)' = Creating(id) \ {h} /\ h \in Creating(id)
        /\ \A other \in People : other # id => Creating(other)' = Creating(other)
    <3>1. \A g \in Handlers : login'[g] = IF g = h THEN Idle ELSE login[g]
      BY <2>2 DEF TypeOK
    <3>2. h \in Creating(id)
      BY <2>0, <2>1 DEF Creating
    <3>3. \A other \in People : Creating(other)' = Creating(other) \ {h}
      BY <3>1 DEF Creating
    <3>4. \A other \in People : other # id => h \notin Creating(other)
      BY <2>0 DEF Creating
    <3> QED
      BY <2>1, <3>2, <3>3, <3>4
  <2>4. \A other \in People : Stubs(other)' = Stubs(other)
    BY <2>2 DEF Stubs, Stubbing
  <2> SUFFICES ASSUME NEW other \in People
               PROVE  Cardinality(Records(other)') + Cardinality(Creating(other)') + Stubs(other)'
                        <= 1 + misses'[other]
    BY DEF RaceInv
  <2>5. CASE other = id
    <3>1. Cardinality(Records(id)') = Cardinality(Records(id)) + 1
      <4>1. token \in Tokens \union {None} /\ Insert(id, token)
        BY <2>1, <2>2
      <4> QED
        BY <2>1, <4>1, InsertCounts
    <3>2. Cardinality(Creating(id)') = Cardinality(Creating(id)) - 1
      BY <2>1, <2>3, Counts, FS_RemoveElement
    <3>3. Cardinality(Records(id)) + Cardinality(Creating(id)) + Stubs(id) <= 1 + misses[id]
      BY <2>1 DEF RaceInv
    <3> QED
      BY <2>1, <2>2, <2>4, <2>5, <3>1, <3>2, <3>3, Counts
  <2>6. CASE other # id
    BY <2>1, <2>2, <2>3, <2>4, <2>6, InsertCounts DEF RaceInv
  <2> QED
    BY <2>5, <2>6
<1>3. ASSUME NEW h \in Handlers, UpdateUser(h) PROVE RaceInv'
  <2>1. login[h].token \in Tokens
    BY <1>3 DEF UpdateUser, TypeOK, SigningIn
  <2>2. \A id \in People : Records(id)' = Records(id)
    BY <1>3, <2>1, UpdateType DEF UpdateUser, Records
  <2>3. \A id \in People : Creating(id)' \subseteq Creating(id) /\ (Stubbing(id)' => Stubbing(id))
    BY <1>3 DEF UpdateUser, Creating, Stubbing, TypeOK
  <2> QED
    BY <1>3, <2>2, <2>3, QuietStep DEF UpdateUser
<1>4. ASSUME NEW h \in Handlers, LoginFails(h) PROVE RaceInv'
  <2>1. \A id \in People : /\ Records(id)' = Records(id) /\ Creating(id)' \subseteq Creating(id)
                           /\ Stubbing(id)' => Stubbing(id)
    BY <1>4 DEF LoginFails, Records, Creating, Stubbing, TypeOK
  <2> QED
    BY <1>4, <2>1, QuietStep DEF LoginFails
<1>5. ASSUME NEW from \in People, NEW to \in People, FindUsers(from, to) PROVE RaceInv'
  <2>1. worker = Idle /\ UNCHANGED <<users, login>>
    BY <1>5 DEF FindUsers
  <2>2. \A id \in People : Records(id)' = Records(id) /\ Creating(id)' = Creating(id)
    BY <2>1 DEF Records, Creating
  <2>3. CASE UNCHANGED misses /\ worker'.pc = "pay"
    <3>1. \A id \in People : ~ Stubbing(id)'
      BY <2>3 DEF Stubbing
    <3> QED
      BY <2>2, <2>3, <3>1, QuietStep
  <2>4. CASE Miss(to) /\ worker' = [pc |-> "stub", id |-> to, address |-> 0]
    <3>1. Stubs(to)' = 1 /\ Stubs(to) = 0
      BY <2>1, <2>4 DEF Stubs, Stubbing, Idle
    <3>2. \A id \in People : id # to => Stubs(id)' = Stubs(id)
      BY <2>1, <2>4 DEF Stubs, Stubbing
    <3>3. Cardinality(Records(to)) + Cardinality(Creating(to)) + 1 <= 1 + misses'[to]
      <4>1. CASE misses'[to] = misses[to] + 1
        BY <3>1, <4>1, Counts DEF RaceInv
      <4>2. CASE misses'[to] = misses[to] /\ Records(to) = {} /\ Creating(to) = {}
        BY <4>2, Counts, FS_EmptySet
      <4> QED
        BY <2>4, <4>1, <4>2, MissType
    <3>4. \A id \in People : id # to => misses'[id] = misses[id]
      BY <2>4, MissType
    <3> SUFFICES ASSUME NEW id \in People
                 PROVE  Cardinality(Records(id)') + Cardinality(Creating(id)') + Stubs(id)'
                          <= 1 + misses'[id]
      BY DEF RaceInv
    <3>5. CASE id = to
      BY <2>2, <3>1, <3>3, <3>5, Counts
    <3>6. CASE id # to
      BY <2>2, <3>2, <3>4, <3>6 DEF RaceInv
    <3> QED
      BY <3>5, <3>6
  <2> QED
    BY <1>5, <2>3, <2>4 DEF FindUsers
<1>6. CASE CreateStub
  <2>0. PICK id \in People : id = worker.id
    BY <1>6 DEF CreateStub, TypeOK, Tipping
  <2>1. Stubbing(id) /\ worker \in Tipping
    BY <1>6, <2>0 DEF CreateStub, TypeOK, Stubbing
  <2>2. Insert(id, None) /\ UNCHANGED <<login, misses>> /\ worker'.pc = "pay"
    BY <1>6, <2>0, <2>1 DEF CreateStub, Tipping
  <2>3. Stubs(id) = 1 /\ \A other \in People : Stubs(other)' = 0
    BY <2>1, <2>2 DEF Stubs, Stubbing
  <2>4. \A other \in People : Creating(other)' = Creating(other)
    BY <2>2 DEF Creating
  <2> SUFFICES ASSUME NEW other \in People
               PROVE  Cardinality(Records(other)') + Cardinality(Creating(other)') + Stubs(other)'
                        <= 1 + misses'[other]
    BY DEF RaceInv
  <2>5. CASE other = id
    BY <2>1, <2>2, <2>3, <2>4, <2>5, InsertCounts, Counts DEF RaceInv
  <2>6. CASE other # id
    BY <2>1, <2>2, <2>3, <2>4, <2>6, InsertCounts, Counts DEF RaceInv
  <2> QED
    BY <2>5, <2>6
<1>7. ASSUME UNCHANGED <<users, login, misses>>, UNCHANGED worker \/ worker' = Idle
      PROVE  RaceInv'
  <2>1. \A id \in People : /\ Records(id)' = Records(id) /\ Creating(id)' = Creating(id)
                           /\ Stubbing(id)' => Stubbing(id)
    BY <1>7 DEF Records, Creating, Stubbing
  <2> QED
    BY <1>7, <2>1, QuietStep
<1>8. CASE (\E i \in DOMAIN users : Index(i)) \/ Pay \/ GiveUp \/ UNCHANGED vars
  BY <1>7, <1>8 DEF Index, Pay, GiveUp, vars
<1> QED
  BY <1>1, <1>2, <1>3, <1>4, <1>5, <1>6, <1>8 DEF Next

\* At the start there are no records.
LEMMA InitRaceInv == Init => RaceInv
<1> SUFFICES ASSUME Init, NEW id \in People
             PROVE  Cardinality(Records(id)) + Cardinality(Creating(id)) + Stubs(id) <= 1 + misses[id]
  BY DEF RaceInv
<1>1. Records(id) = {} /\ Creating(id) = {} /\ Stubs(id) = 0 /\ misses[id] = 0
  BY DEF Init, Records, Creating, Stubs, Stubbing, Idle
<1> QED
  BY <1>1, FS_EmptySet

\* One person has two records only where a lookup missed one.
THEOREM DuplicatesByRaces == Spec => []DuplicatesOnlyByRaces
<1>1. Spec => [](TypeOK /\ RaceInv)
  BY InitTypeOK, NextTypeOK, InitRaceInv, NextRaceInv, PTL DEF Spec
<1>2. TypeOK /\ RaceInv => DuplicatesOnlyByRaces
  <2> SUFFICES ASSUME TypeOK, RaceInv, NEW id \in People
               PROVE  Cardinality(Records(id)) <= 1 + misses[id]
    BY DEF DuplicatesOnlyByRaces
  <2> QED
    BY Counts DEF RaceInv
<1> QED
  BY <1>1, <1>2, PTL

-----------------------------------------------------------------------------
(* The directory inside.                                                   *)

\* Every step is a step of UserDirectory or leaves its variables alone.
LEMMA StepOfDirectory == [SplitNext]_allVars => [Next]_vars
<1>1. Elsewhere => Next
  BY DEF Elsewhere, Next
<1>2. ASSUME NEW f \in Favorites, Receive(f) PROVE Next
  BY <1>2 DEF Receive, Next, Favorites
<1>3. PayItem \/ GiveUpItem => Next
  BY DEF PayItem, GiveUpItem, Next
<1>4. \A i, to : Poll(i, to) => UNCHANGED vars
  BY DEF Poll
<1>5. \A item : CatchUp(item) => UNCHANGED vars
  BY DEF CatchUp
<1>6. \A f : ReceiveNobody(f) => UNCHANGED vars
  BY DEF ReceiveNobody
<1>7. WriteItem \/ WriteDies => UNCHANGED vars
  BY DEF WriteItem, WriteDies
<1> QED
  BY <1>1, <1>2, <1>3, <1>4, <1>5, <1>6, <1>7 DEF SplitNext, allVars

\* With polls and items around it the directory behaves as UserDirectory says:
\* MoneyOwned and DuplicatesByRaces hold here, too.
THEOREM DirectoryInside == SplitSpec => Spec
<1>1. SplitInit => Init
  BY DEF SplitInit
<1> QED
  BY <1>1, StepOfDirectory, PTL DEF SplitSpec, Spec

\* Records are never removed, nor do they change hands.
LEMMA RecordsStay ==
  ASSUME TypeOK, [Next]_vars, NEW i \in DOMAIN users
  PROVE  i \in DOMAIN users' /\ users'[i].twitter = users[i].twitter
<1>1. ASSUME NEW h \in Handlers, CreateUser(h)
      PROVE  i \in DOMAIN users' /\ users'[i] = users[i]
  <2>1. login[h].id \in People /\ login[h].token \in Tokens
    BY <1>1 DEF CreateUser, TypeOK, SigningIn
  <2> QED
    BY <1>1, <2>1, InsertType DEF CreateUser
<1>2. ASSUME CreateStub PROVE i \in DOMAIN users' /\ users'[i] = users[i]
  <2>1. worker.id \in People
    BY <1>2 DEF CreateStub, TypeOK, Tipping
  <2> QED
    BY <1>2, <2>1, InsertType DEF CreateStub
<1>3. ASSUME NEW h \in Handlers, UpdateUser(h)
      PROVE  i \in DOMAIN users' /\ users'[i].twitter = users[i].twitter
  <2>1. login[h].token \in Tokens
    BY <1>3 DEF UpdateUser, TypeOK, SigningIn
  <2> QED
    BY <1>3, <2>1, UpdateType DEF UpdateUser
<1>4. UNCHANGED users \/ CreateStub \/ \E h \in Handlers : CreateUser(h) \/ UpdateUser(h)
  BY DEF Next, Index, FindUser, LoginFails, FindUsers, Pay, GiveUp, vars
<1> QED
  BY <1>1, <1>2, <1>3, <1>4

-----------------------------------------------------------------------------
(* Type correctness.                                                       *)

SplitTypes ==
  /\ queue \subseteq Favorites
  /\ carrying \in {NoMessage} \union Carried
  /\ items \subseteq (DOMAIN users) \X People
  /\ visible \subseteq items
  /\ worker # Idle => carrying # NoMessage /\ carrying.pc = "tip"

\* The sender that is carried is a record.
SenderKnown == carrying # NoMessage => carrying.sender \in DOMAIN users

\* At the start there is nothing.
LEMMA InitSplitTypes == SplitInit => SplitTypes /\ SenderKnown
BY DEF SplitInit, Init, SplitTypes, SenderKnown

\* Every step keeps the types.
LEMMA NextSplitTypes ==
  TypeOK /\ SplitTypes /\ SenderKnown /\ [SplitNext]_allVars => SplitTypes' /\ SenderKnown'
<1> SUFFICES ASSUME TypeOK, SplitTypes, SenderKnown, [SplitNext]_allVars
             PROVE  SplitTypes' /\ SenderKnown'
  OBVIOUS
<1>1. /\ DOMAIN users \subseteq DOMAIN users'
      /\ items \subseteq (DOMAIN users') \X People
  <2>1. DOMAIN users \subseteq DOMAIN users'
    BY StepOfDirectory, RecordsStay
  <2> QED
    BY <2>1 DEF SplitTypes
<1>2. ASSUME NEW x, x \in DOMAIN users PROVE x \in Nat
  BY <1>2 DEF TypeOK
<1>3. CASE UNCHANGED splitVars /\ (worker' = worker \/ worker # Idle)
  BY <1>1, <1>3 DEF splitVars, SplitTypes, SenderKnown
<1>4. CASE Elsewhere
  <2>1. worker' = worker \/ worker # Idle
    BY <1>4 DEF Elsewhere, Index, FindUser, CreateUser, UpdateUser, LoginFails, CreateStub
  <2> QED
    BY <1>3, <1>4, <2>1 DEF Elsewhere
<1>5. ASSUME NEW i \in DOMAIN users, NEW to \in People, Poll(i, to) PROVE SplitTypes' /\ SenderKnown'
  <2>1. users[i].twitter \in People
    <3>1. users[i] \in Users
      BY DEF TypeOK
    <3> QED
      BY <3>1 DEF Users
  <2> QED
    BY <1>5, <2>1 DEF Poll, vars, SplitTypes, SenderKnown, Favorites
<1>6. ASSUME NEW item \in items, CatchUp(item) PROVE SplitTypes' /\ SenderKnown'
  BY <1>6 DEF CatchUp, vars, SplitTypes, SenderKnown
<1>7. ASSUME NEW f \in Favorites, Receive(f) PROVE SplitTypes' /\ SenderKnown'
  <2>1. PICK i \in Found(f.from) : carrying' = [pc |-> "tip", favorite |-> f, sender |-> i]
    BY <1>7 DEF Receive
  <2>2. i \in DOMAIN users /\ i \in Nat
    BY <1>2 DEF Found, TypeOK
  <2>3. carrying' \in Carried /\ carrying' # NoMessage /\ carrying'.pc = "tip" /\ carrying'.sender = i
    BY <2>1, <2>2 DEF Carried, NoMessage
  <2>4. queue' \subseteq Favorites
    BY <1>7 DEF Receive, Take, SplitTypes
  <2> QED
    BY <1>1, <1>7, <2>2, <2>3, <2>4 DEF Receive, SplitTypes, SenderKnown
<1>8. ASSUME NEW f \in Favorites, ReceiveNobody(f) PROVE SplitTypes' /\ SenderKnown'
  BY <1>8 DEF ReceiveNobody, Take, vars, SplitTypes, SenderKnown
<1>9. CASE PayItem \/ GiveUpItem
  <2>1. worker # Idle /\ worker' = Idle /\ UNCHANGED <<queue, items, visible>>
    BY <1>9 DEF PayItem, GiveUpItem, Pay, GiveUp
  <2>2. carrying \in Carried /\ carrying.sender \in DOMAIN users
    BY <2>1 DEF SplitTypes, SenderKnown
  <2>3. CASE carrying' = [carrying EXCEPT !.pc = "write"]
    <3>1. carrying' \in Carried /\ carrying'.sender = carrying.sender
      BY <2>2, <2>3 DEF Carried
    <3> QED
      BY <1>1, <2>1, <2>2, <3>1 DEF SplitTypes, SenderKnown
  <2>4. CASE carrying' = NoMessage
    BY <1>1, <2>1, <2>4 DEF SplitTypes, SenderKnown
  <2> QED
    BY <1>9, <2>3, <2>4 DEF PayItem, GiveUpItem
<1>10. CASE WriteItem
  <2>1. carrying \in Carried /\ carrying.sender \in DOMAIN users /\ carrying.favorite.to \in People
    BY <1>10 DEF WriteItem, SplitTypes, SenderKnown, Carried, Favorites
  <2>2. worker = Idle
    BY <1>10 DEF WriteItem, SplitTypes
  <2> QED
    BY <1>10, <2>1, <2>2 DEF WriteItem, vars, SplitTypes, SenderKnown
<1>11. CASE WriteDies
  <2>1. worker = Idle
    BY <1>11 DEF WriteDies, SplitTypes
  <2> QED
    BY <1>11, <2>1 DEF WriteDies, vars, SplitTypes, SenderKnown
<1>12. CASE UNCHANGED allVars
  BY <1>3, <1>12 DEF allVars, vars
<1> QED
  BY <1>4, <1>5, <1>6, <1>7, <1>8, <1>9, <1>10, <1>11, <1>12 DEF SplitNext

SplitInv == TypeOK /\ RaceInv /\ SplitTypes /\ SenderKnown

\* The directory's invariants and the types hold together.
LEMMA SplitInvHolds == SplitSpec => []SplitInv
<1>1. SplitInit => SplitInv
  BY InitTypeOK, InitRaceInv, InitSplitTypes DEF SplitInit, SplitInv
<1>2. SplitInv /\ [SplitNext]_allVars => SplitInv'
  BY StepOfDirectory, NextTypeOK, NextRaceInv, NextSplitTypes DEF SplitInv
<1> QED
  BY <1>1, <1>2, PTL DEF SplitSpec

\* The queue, the message that is carried and the items keep their types; the
\* worker is busy only with a message.
THEOREM SplitTypeCorrect == SplitSpec => []SplitTypeOK
<1>1. SplitInv => SplitTypeOK
  BY DEF SplitInv, SplitTypes, SplitTypeOK
<1> QED
  BY <1>1, SplitInvHolds, PTL

-----------------------------------------------------------------------------
(* What is settled comes up again only by a split.                         *)

\* Two records of one person are the doing of a lookup that missed one.
LEMMA TwoRecordsMissed ==
  ASSUME TypeOK, RaceInv, NEW id \in People, NEW i \in Records(id), NEW j \in Records(id), i # j
  PROVE  misses[id] > 0
<1>1. IsFiniteSet(Records(id)) /\ Cardinality(Records(id)) \in Nat
  BY Counts
<1>2. Cardinality(Records(id)) <= 1 + misses[id] /\ misses[id] \in Nat
  <2>1. /\ Cardinality(Records(id)) + Cardinality(Creating(id)) + Stubs(id) <= 1 + misses[id]
        /\ Cardinality(Creating(id)) \in Nat /\ Stubs(id) \in {0, 1} /\ misses[id] \in Nat
    BY Counts DEF RaceInv
  <2> QED
    BY <1>1, <2>1
<1>3. IsFiniteSet({i}) /\ Cardinality({i}) = 1
  BY FS_Singleton
<1>4. Cardinality({i} \cup {j}) = 2
  <2>1. j \notin {i}
    OBVIOUS
  <2>2. Cardinality({i} \cup {j}) = IF j \in {i} THEN Cardinality({i}) ELSE Cardinality({i}) + 1
    BY <1>3, FS_AddElement
  <2>3. Cardinality({i} \cup {j}) = Cardinality({i}) + 1
    BY <2>1, <2>2, Zenon
  <2> QED
    BY <1>3, <2>3
<1>5. {i} \cup {j} \in SUBSET Records(id)
  OBVIOUS
<1>6. Cardinality({i} \cup {j}) <= Cardinality(Records(id))
  BY <1>1, <1>5, FS_Subset
<1> QED
  BY <1>1, <1>2, <1>4, <1>6

\* A poll puts a settled favorite into the queue only from another record.
LEMMA StepRepaid ==
  SplitInv /\ [SplitNext]_allVars
    => \A f \in Favorites : Settled(f) /\ ~Settled(f)' => misses[f.from] > 0
<1> SUFFICES ASSUME SplitInv, [SplitNext]_allVars, NEW f \in Favorites, Settled(f), ~Settled(f)'
             PROVE  misses[f.from] > 0
  OBVIOUS
<1>1. /\ TypeOK /\ RaceInv /\ SplitTypes /\ f.from \in People /\ f.to \in People
      /\ f \notin queue /\ ~Carries(f)
  BY DEF SplitInv, Settled, Favorites
<1>2. PICK j \in Records(f.from) : <<j, f.to>> \in visible
  BY DEF Settled
<1>3. j \in DOMAIN users' /\ users'[j].twitter = f.from
  BY <1>1, <1>2, StepOfDirectory, RecordsStay DEF Records
<1>4. visible \subseteq visible'
  BY DEF SplitNext, Elsewhere, Poll, CatchUp, Receive, ReceiveNobody, PayItem, GiveUpItem,
     WriteItem, WriteDies, allVars, splitVars
<1>5. f \in queue' \/ Carries(f)'
  BY <1>2, <1>3, <1>4 DEF Settled, Records
<1>6. ~Carries(f)'
  <2>1. CASE carrying' = carrying \/ carrying' = NoMessage
    BY <1>1, <2>1 DEF Carries
  <2>2. ASSUME NEW g \in Favorites, Receive(g) PROVE ~Carries(f)'
    <3>1. carrying'.favorite = g /\ g \in queue
      BY <2>2 DEF Receive, Take
    <3> QED
      BY <1>1, <3>1 DEF Carries
  <2>3. CASE PayItem \/ GiveUpItem
    <3>1. worker # Idle
      BY <2>3 DEF PayItem, GiveUpItem, Pay, GiveUp
    <3>2. carrying \in Carried /\ carrying # NoMessage
      BY <1>1, <3>1 DEF SplitTypes
    <3>3. CASE carrying' = [carrying EXCEPT !.pc = "write"]
      <4>1. carrying'.favorite = carrying.favorite
        BY <3>2, <3>3 DEF Carried
      <4> QED
        BY <1>1, <3>2, <4>1 DEF Carries
    <3> QED
      BY <2>1, <2>3, <3>3 DEF PayItem, GiveUpItem
  <2> QED
    BY <2>1, <2>2, <2>3 DEF SplitNext, Elsewhere, Poll, CatchUp, ReceiveNobody, WriteItem,
       WriteDies, allVars, splitVars
<1>7. PICK i \in DOMAIN users, to \in People : Poll(i, to)
  BY <1>1, <1>5, <1>6 DEF SplitNext, Elsewhere, CatchUp, Receive, ReceiveNobody, Take,
     PayItem, GiveUpItem, WriteItem, WriteDies, allVars, splitVars
<1>8. f = [from |-> users[i].twitter, to |-> to] /\ <<i, to>> \notin visible
  BY <1>1, <1>5, <1>6, <1>7 DEF Poll
<1>9. i \in Records(f.from) /\ i # j
  BY <1>2, <1>8 DEF Records
<1> QED
  BY <1>1, <1>2, <1>9, TwoRecordsMissed

\* As long as a person has one record, a favorite of theirs that has an item and
\* no message never gets a message again.
THEOREM RepaidBySplits == SplitSpec => RepaidOnlyBySplits
BY SplitInvHolds, StepRepaid, PTL DEF SplitSpec, RepaidOnlyBySplits
=============================================================================
