------------------------------ MODULE Onboarding ------------------------------
(***************************************************************************)
(* The welcome of a new user, next to the connecting and disconnecting of  *)
(* Poller: the app calls autotip, puma publishes "auto_favorite_new_user"  *)
(* unless the user's record has TippedFromUsAt, and the poller process has *)
(* Tipper's own account favorite some of the user's tweets, which are then *)
(* polled and tipped like any favorite.  The mark is read by one process,  *)
(* through an index that follows the table with a delay, and set, later,   *)
(* by another.                                                             *)
(*                                                                         *)
(* The favorites are six seconds apart and the poller sleeps in between:   *)
(* its event loop stands still while it welcomes somebody.  The messages   *)
(* of this channel are counted, apart from those of the other two, and     *)
(* read in any order: no property depends on how they are mixed.           *)
(***************************************************************************)
EXTENDS Poller

CONSTANT MaxAutotips   \* bound: autotip requests

ASSUME OnboardingAssumption == MaxAutotips \in Nat /\ IsFiniteSet(Handlers)

VARIABLES
  marked,     \* users with TippedFromUsAt
  shown,      \* those of them whom TwitterUserID-index shows it of
  autotip,    \* autotip[h]: the user whose autotip request h is serving
  autotips,   \* how many there were
  letters,    \* letters[u]: messages about u on auto_favorite_new_user, unread
  greeting,   \* the user the poller is welcoming
  welcomes,   \* welcomes[u]: how often a welcome of u began
  early       \* early[u]: history, requests that saw no mark though a welcome
              \* of u was coming or begun

welcomeVars == <<marked, shown, autotip, autotips, letters, greeting, welcomes, early>>
allVars == <<vars, welcomeVars>>

\* A welcome of u is on its way or going on.
Expected(u) ==
  \/ \E h \in Handlers : autotip[h] = u
  \/ letters[u] > 0
  \/ greeting = u

-----------------------------------------------------------------------------
(* MeController#autotip.                                                   *)

\* Mutant of Autotip: the mark is not looked at.
AutotipAlways(h, u) ==
  /\ request[h] = Idle /\ autotip[h] = None
  /\ index[u].token # None
  /\ autotips < MaxAutotips
  /\ autotips' = autotips + 1
  /\ autotip' = [autotip EXCEPT ![h] = u]
  /\ early' = IF Expected(u) \/ u \in marked \ shown THEN [early EXCEPT ![u] = @ + 1] ELSE early
  /\ UNCHANGED <<vars, marked, shown, letters, greeting, welcomes>>

\* The record that the index gave to authenticate the user has no mark.  (When it
\* has one nothing is published.)
Autotip(h, u) ==
  /\ request[h] = Idle /\ autotip[h] = None
  /\ index[u].token # None
  /\ u \notin shown
  /\ autotips < MaxAutotips
  /\ autotips' = autotips + 1
  /\ autotip' = [autotip EXCEPT ![h] = u]
  /\ early' = IF Expected(u) \/ u \in marked \ shown THEN [early EXCEPT ![u] = @ + 1] ELSE early
  /\ UNCHANGED <<vars, marked, shown, letters, greeting, welcomes>>

\* send_onboarding_tips_from_us: nobody hears it while the poller is away, or
\* when the process dies first.
SendLetter(h) ==
  /\ autotip[h] # None
  /\ autotip' = [autotip EXCEPT ![h] = None]
  /\ \/ poller = "up" /\ letters' = [letters EXCEPT ![autotip[h]] = @ + 1]
     \/ UNCHANGED letters
  /\ UNCHANGED <<vars, marked, shown, autotips, greeting, welcomes, early>>

\* DynamoDB (external): the index shows what the record has now.
Index(u) ==
  /\ index[u] # Row(u) \/ u \in marked \ shown
  /\ Follow(u)
  /\ shown' = shown \union (marked \intersect {u})
  /\ UNCHANGED <<marked, autotip, autotips, letters, greeting, welcomes, early>>

-----------------------------------------------------------------------------
(* AutoFavoriter, in the poller process.                                   *)

\* initialize: User.tipped_from_us comes before anything is favorited.
Greet(u) ==
  /\ poller = "up" /\ greeting = None
  /\ letters[u] > 0
  /\ letters' = [letters EXCEPT ![u] = @ - 1]
  /\ greeting' = u
  /\ marked' = marked \union {u}
  /\ welcomes' = [welcomes EXCEPT ![u] = @ + 1]
  /\ UNCHANGED <<vars, shown, autotip, autotips, early>>

\* start: the last of the favorites, and of the naps.
GreetEnds ==
  /\ greeting # None
  /\ greeting' = None
  /\ UNCHANGED <<vars, marked, shown, autotip, autotips, letters, welcomes, early>>

\* The process ends, for instance when Twitter refuses a favorite: nobody welcomes
\* this user again.
PollerEnds ==
  /\ \/ Crash
     \/ greeting = None /\ \E timer \in Timers : FireNobody(timer)
  /\ letters' = [u \in Users |-> 0] /\ greeting' = None
  /\ UNCHANGED <<marked, shown, autotip, autotips, welcomes, early>>

-----------------------------------------------------------------------------
OnboardingInit ==
  /\ Init
  /\ marked = {} /\ shown = {} /\ autotips = 0 /\ greeting = None
  /\ autotip = [h \in Handlers |-> None]
  /\ letters = [u \in Users |-> 0]
  /\ welcomes = [u \in Users |-> 0] /\ early = [u \in Users |-> 0]

\* Steps of Poller: its event loop turns unless it is welcoming somebody, and a
\* process of puma serves one request at a time.
Web(h) == autotip[h] = None /\ HandlerNext(h)

Loop ==
  /\ greeting = None
  /\ Handle \/ \E timer \in Timers : Fire(timer)

Elsewhere ==
  /\ \/ \E u \in Users, t \in Tokens : Login(u, t)
     \/ \E h \in Handlers : Web(h)
     \/ ReadUsers \/ Start \/ Loop
  /\ UNCHANGED welcomeVars

OnboardingNext ==
  \/ Elsewhere
  \/ \E h \in Handlers : SendLetter(h) \/ \E u \in Users : Autotip(h, u)
  \/ \E u \in Users : Index(u) \/ Greet(u)
  \/ GreetEnds \/ PollerEnds

OnboardingSpec == OnboardingInit /\ [][OnboardingNext]_allVars

\* The index shows every change at last.  How often the poller restarts is said
\* by the properties themselves.
OnboardingFairness == \A u \in Users : WF_allVars(Index(u))

OnboardingFairSpec == OnboardingSpec /\ OnboardingFairness

-----------------------------------------------------------------------------
(* Properties.                                                             *)

OnboardingTypeOK ==
  /\ TypeOK
  /\ marked \subseteq Users /\ shown \subseteq marked
  /\ autotip \in [Handlers -> Users \union {None}]
  /\ autotips \in 0 .. MaxAutotips
  /\ letters \in [Users -> Nat]
  /\ greeting \in Users \union {None}
  /\ welcomes \in [Users -> Nat] /\ early \in [Users -> Nat]
  /\ greeting # None => poller = "up"

\* A user is welcomed, and tipped by Tipper itself, at most once, and at most
\* once more for every request that came while a welcome was on its way, or that
\* the index did not show the mark to: repeated calls, lost messages and restarts
\* of the poller do not welcome anybody twice.
WelcomedOnceUnlessEarly ==
  \A u \in Users : welcomes[u] <= 1 + early[u]
=============================================================================
