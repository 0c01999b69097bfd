------------------------------ MODULE AuthGate ------------------------------
(***************************************************************************)
(* MyApp, which shows the login page or the home page as the stream of     *)
(* sign-in states says, the check of MyHomePage, which sends an account    *)
(* without a profile to the registration, signing in and out, and the apps *)
(* that pile up because the record page and the registration push a new    *)
(* MyApp on top of themselves.                                             *)
(*                                                                         *)
(* Every app has a navigator of its own, whose routes lie above the app's  *)
(* first page: the record page, the registration, or another app.  The     *)
(* system's back button goes to the outermost app; the arrow of a page to  *)
(* the app of that page.  The tabs are left out except for the check that  *)
(* a change of tab repeats; what the pages store is in RecordStore and     *)
(* Registration.                                                           *)
(***************************************************************************)
EXTENDS Integers, Sequences, FiniteSets, SequencesExt

CONSTANTS
    User,       \* Google accounts
    NoUser,     \* nobody is signed in
    MaxApps,    \* bound: apps made in one run of the program
    MaxTaps,    \* bound: sign-ins under way at a time
    MaxChanges, \* bound: changes of the account
    MaxFaults   \* bound: failed checks, refused registrations and restarts

ASSUME GateAssumption ==
    /\ NoUser \notin User
    /\ MaxApps \in Nat \ {0}
    /\ {MaxTaps, MaxChanges, MaxFaults} \subseteq Nat

VARIABLES
    user,       \* FirebaseAuth's currentUser
    registered, \* accounts that have a profile, as the program sees it
    waiting,    \* accounts whose registration the server has not accepted yet
    apps,       \* the apps, in the order in which they were made
    attempts,   \* calls of signWithGoogle under way
    leaving,    \* a call of signOut is under way
    \* history
    back,       \* the user went back since the program was started
    raced,      \* a page was opened while its app was behind the sign-in
                \* state, or a second sign-in changed the account
    overtaken,  \* a check said no for an account that has a profile
    refused,    \* accounts whose registration the server has refused
    unsaved,    \* a reading was confirmed while nobody was signed in
    changes, faults

vars == <<user, registered, waiting, apps, attempts, leaving, back, raced,
          overtaken, refused, unsaved, changes, faults>>

Account == User \cup {NoUser}

\* Routes: two pages, or the number of an app.
RecordPage == 0
RegisterPage == -1

App == [events : Seq(Account),          \* sign-in states not yet delivered
        page : {"splash", "login", "loading", "home", "blank"},
        asked : Account,                \* the account of the check
        answer : {"none", "yes", "no"}, \* what its read has found
        routes : Seq(-1..MaxApps),
        live : BOOLEAN]

NewApp(u) == [events |-> <<u>>, page |-> "splash", asked |-> NoUser,
              answer |-> "none", routes |-> <<>>, live |-> TRUE]

Live == {k \in DOMAIN apps : apps[k].live}

\* The app whose pages are on the screen: an app that covers another was made
\* after it.
Top ==
    LET top[k \in DOMAIN apps] ==
            IF apps[k].routes # <<>> /\ Last(apps[k].routes) > 0
            THEN top[Last(apps[k].routes)] ELSE k
    IN  top[1]

\* What is on the screen: a page of the app at the top, or one of its routes.
AtFirst(page) == apps[Top].routes = <<>> /\ apps[Top].page = page
OnRoute(r) == apps[Top].routes # <<>> /\ Last(apps[Top].routes) = r

\* The app k has not caught up with the sign-in state.
Behind(k) == leaving \/ apps[k].events # <<>>

Init ==
    /\ user \in Account
    /\ registered \in SUBSET User
    /\ waiting = {}
    /\ apps = <<NewApp(user)>>
    /\ attempts = 0
    /\ leaving = FALSE
    /\ back = FALSE
    /\ raced = FALSE
    /\ overtaken = FALSE
    /\ refused = {}
    /\ unsaved = FALSE
    /\ changes = 0
    /\ faults = 0

-----------------------------------------------------------------------------
(* Sign-in states and checks.                                              *)

\* The account changes, and every app will hear of it.
Becomes(u) ==
    /\ user' = u
    /\ apps' = IF u = user THEN apps
               ELSE [k \in DOMAIN apps |->
                        IF apps[k].live
                        THEN [apps[k] EXCEPT !.events = Append(@, u)]
                        ELSE apps[k]]

\* userCheck starts, for the account that is signed in now.
Checking(app) ==
    [app EXCEPT !.page = "loading", !.asked = user, !.answer = "none"]

\* Mutant of Shown: a home page that is shown stays as it is.
ShownKeeping(app, u) ==
    IF u = NoUser THEN [app EXCEPT !.page = "login"]
    ELSE IF app.page = "home" THEN app ELSE Checking(app)

\* Mutant of Shown: a home page that is shown is kept at the sign-out.
ShownSignedOut(app, u) ==
    IF u = NoUser /\ app.page # "home" THEN [app EXCEPT !.page = "login"]
    ELSE IF u = NoUser THEN app ELSE Checking(app)

\* What the first page becomes for a sign-in state: the login page, or the
\* home page with a new check.
Shown(app, u) ==
    IF u = NoUser THEN [app EXCEPT !.page = "login"] ELSE Checking(app)

\* The stream delivers a sign-in state.  The routes above stay.
AuthEvent(k) ==
    /\ k \in Live
    /\ apps[k].events # <<>>
    /\ apps' = [apps EXCEPT ![k] =
                    [Shown(apps[k], Head(apps[k].events))
                        EXCEPT !.events = Tail(apps[k].events)]]
    /\ UNCHANGED <<user, registered, waiting, attempts, leaving, back, raced,
                   overtaken, refused, unsaved, changes, faults>>

\* The profile is looked for; for nobody the check throws, and says no.
CheckReads(k) ==
    /\ k \in Live
    /\ apps[k].page = "loading"
    /\ apps[k].answer = "none"
    /\ apps' = [apps EXCEPT ![k].answer =
                    IF apps[k].asked \in registered THEN "yes" ELSE "no"]
    /\ UNCHANGED <<user, registered, waiting, attempts, leaving, back, raced,
                   overtaken, refused, unsaved, changes, faults>>

\* A read that fails is caught, and says no as well.
CheckFails(k) ==
    /\ faults < MaxFaults
    /\ k \in Live
    /\ apps[k].page = "loading"
    /\ apps[k].answer = "none"
    /\ apps' = [apps EXCEPT ![k].answer = "no"]
    /\ faults' = faults + 1
    /\ UNCHANGED <<user, registered, waiting, attempts, leaving, back, raced,
                   overtaken, refused, unsaved, changes>>

\* Mutant of CheckReturns: nothing is pushed.
CheckReturnsOnly(k) ==
    /\ k \in Live
    /\ apps[k].page = "loading"
    /\ apps[k].answer # "none"
    /\ apps' = [apps EXCEPT ![k].page =
                    IF apps[k].answer = "yes" THEN "home" ELSE "blank"]
    /\ UNCHANGED <<user, registered, waiting, attempts, leaving, back, raced,
                   overtaken, refused, unsaved, changes, faults>>

\* The answer arrives.  No pushes the registration, on top of all the routes
\* of the app.
CheckReturns(k) ==
    /\ k \in Live
    /\ apps[k].page = "loading"
    /\ \/ /\ apps[k].answer = "yes"
          /\ apps' = [apps EXCEPT ![k].page = "home"]
          /\ UNCHANGED <<raced, overtaken>>
       \/ /\ apps[k].answer = "no"
          /\ apps' = [apps EXCEPT ![k].page = "blank",
                                  ![k].routes = Append(@, RegisterPage)]
          /\ raced' = (raced \/ Behind(k) \/ apps[k].asked # user)
          /\ overtaken' = (overtaken \/ user \in registered)
    /\ UNCHANGED <<user, registered, waiting, attempts, leaving, back,
                   refused, unsaved, changes, faults>>

-----------------------------------------------------------------------------
(* Taps of the user.                                                       *)

TapSignIn ==
    /\ AtFirst("login")
    /\ attempts < MaxTaps
    /\ attempts' = attempts + 1
    /\ UNCHANGED <<user, registered, waiting, apps, leaving, back, raced,
                   overtaken, refused, unsaved, changes, faults>>

\* signWithGoogle signs in, or throws, which is caught.
SignInEnds ==
    /\ attempts > 0
    /\ attempts' = attempts - 1
    /\ \/ /\ changes < MaxChanges
          /\ \E u \in User : Becomes(u)
          /\ raced' = (raced \/ user \notin {NoUser, user'})
          /\ changes' = changes + 1
       \/ UNCHANGED <<user, apps, raced, changes>>
    /\ UNCHANGED <<registered, waiting, leaving, back, overtaken, refused,
                   unsaved, faults>>

\* OK in the dialog of the profile page.
TapSignOut ==
    /\ AtFirst("home")
    /\ ~leaving
    /\ changes < MaxChanges
    /\ leaving' = TRUE
    /\ changes' = changes + 1
    /\ UNCHANGED <<user, registered, waiting, apps, attempts, back, raced,
                   overtaken, refused, unsaved, faults>>

SignOutEnds ==
    /\ leaving
    /\ leaving' = FALSE
    /\ Becomes(NoUser)
    /\ UNCHANGED <<registered, waiting, attempts, back, raced, overtaken,
                   refused, unsaved, changes, faults>>

\* A change of tab builds the home page again.
TapTab ==
    /\ AtFirst("home")
    /\ apps' = [apps EXCEPT ![Top] = Checking(@)]
    /\ UNCHANGED <<user, registered, waiting, attempts, leaving, back, raced,
                   overtaken, refused, unsaved, changes, faults>>

\* Mutant of OpenRecord: the button is also on the login page.
OpenRecordAlways ==
    /\ AtFirst("home") \/ AtFirst("login")
    /\ apps' = [apps EXCEPT ![Top].routes = Append(@, RecordPage)]
    /\ raced' = (raced \/ Behind(Top))
    /\ UNCHANGED <<user, registered, waiting, attempts, leaving, back,
                   overtaken, refused, unsaved, changes, faults>>

\* The button of the home page.
OpenRecord ==
    /\ AtFirst("home")
    /\ apps' = [apps EXCEPT ![Top].routes = Append(@, RecordPage)]
    /\ raced' = (raced \/ Behind(Top))
    /\ UNCHANGED <<user, registered, waiting, attempts, leaving, back,
                   overtaken, refused, unsaved, changes, faults>>

\* A new app on top of the routes of app k.
PushApp(k) ==
    /\ Len(apps) < MaxApps
    /\ apps' = Append([apps EXCEPT ![k].routes = Append(@, Len(apps) + 1)],
                      NewApp(user))

\* The button of the record page.  updateUser, not awaited, throws if nobody
\* is signed in.
PressRecord ==
    /\ OnRoute(RecordPage)
    /\ PushApp(Top)
    /\ unsaved' = (unsaved \/ user = NoUser)
    /\ UNCHANGED <<user, registered, waiting, attempts, leaving, back, raced,
                   overtaken, refused, changes, faults>>

\* set() of the profile: the program sees it at once, the server has still to
\* accept it, unless there was one.
AuthAdd ==
    LET new == {user} \ (registered \cup {NoUser})
    IN  registered' = registered \cup new /\ waiting' = waiting \cup new

\* Mutant of Register: the registration stays on the screen.
RegisterStays ==
    /\ OnRoute(RegisterPage)
    /\ AuthAdd
    /\ UNCHANGED <<user, apps, attempts, leaving, back, raced, overtaken,
                   refused, unsaved, changes, faults>>

\* OK at the end of the registration, in a dialog, which belongs to the
\* outermost navigator.
Register ==
    /\ OnRoute(RegisterPage)
    /\ PushApp(1)
    /\ AuthAdd
    /\ UNCHANGED <<user, attempts, leaving, back, raced, overtaken, refused,
                   unsaved, changes, faults>>

\* The server refuses the registration of the account that is signed in (the
\* writes of others are not sent), and the program sees no profile any more.
RegistrationRefused ==
    /\ faults < MaxFaults
    /\ faults' = faults + 1
    /\ user \in waiting
    /\ registered' = registered \ {user}
    /\ waiting' = waiting \ {user}
    /\ refused' = refused \cup {user}
    /\ UNCHANGED <<user, apps, attempts, leaving, back, raced, overtaken,
                   unsaved, changes>>

\* The apps on route r, if it is an app, and on the routes above it.
Covered(r) ==
    LET on[k \in DOMAIN apps] ==
            {k} \cup UNION {on[j] : j \in ToSet(apps[k].routes) \cap DOMAIN apps}
    IN  IF r > 0 THEN on[r] ELSE {}

\* Where the user can go back: the button of the system goes to the outermost
\* app, the arrow of a page or a swipe over it to the app of that page, and a
\* swipe over the first page of the app on top to the app it lies on.
CanGoBack(k) ==
    \/ k \in {1, Top}
    \/ apps[Top].routes = <<>> /\ Top \in ToSet(apps[k].routes)

\* Mutant of Back: the apps on the route keep listening.
BackKeeping(k) ==
    /\ CanGoBack(k)
    /\ apps[k].routes # <<>>
    /\ apps' = [apps EXCEPT ![k].routes = Front(@)]
    /\ back' = TRUE
    /\ UNCHANGED <<user, registered, waiting, attempts, leaving, raced,
                   overtaken, refused, unsaved, changes, faults>>

\* Back takes the last route of an app, and the apps on it.
Back(k) ==
    /\ CanGoBack(k)
    /\ apps[k].routes # <<>>
    /\ apps' = [j \in DOMAIN apps |->
           IF j \in Covered(Last(apps[k].routes))
           THEN [NewApp(NoUser) EXCEPT !.events = <<>>, !.live = FALSE]
           ELSE IF j = k THEN [apps[j] EXCEPT !.routes = Front(@)]
           ELSE apps[j]]
    /\ back' = TRUE
    /\ UNCHANGED <<user, registered, waiting, attempts, leaving, raced,
                   overtaken, refused, unsaved, changes, faults>>

\* The program is started again; the account is kept.
Restart ==
    /\ faults < MaxFaults
    /\ faults' = faults + 1
    /\ apps' = <<NewApp(user)>>
    /\ attempts' = 0
    /\ leaving' = FALSE
    /\ back' = FALSE
    /\ raced' = FALSE
    /\ overtaken' = FALSE
    /\ unsaved' = FALSE
    /\ UNCHANGED <<user, registered, waiting, refused, changes>>

-----------------------------------------------------------------------------
Next ==
    \/ \E k \in DOMAIN apps : \/ AuthEvent(k)
                              \/ CheckReads(k)
                              \/ CheckFails(k)
                              \/ CheckReturns(k)
                              \/ Back(k)
    \/ TapSignIn
    \/ SignInEnds
    \/ TapSignOut
    \/ SignOutEnds
    \/ TapTab
    \/ OpenRecord
    \/ PressRecord
    \/ Register
    \/ RegistrationRefused
    \/ Restart

Spec == Init /\ [][Next]_vars

\* Events are delivered, reads return, and signOut ends.  That the reads of the
\* checks return is assumed here; WatchListen names the one case in which a
\* get() may stay without an answer.
FairSpec ==
    /\ Spec
    /\ \A k \in 1..MaxApps : /\ WF_vars(AuthEvent(k))
                             /\ WF_vars(CheckReads(k))
                             /\ WF_vars(CheckReturns(k))
    /\ WF_vars(SignOutEnds)
-----------------------------------------------------------------------------
(* Properties.                                                             *)

TypeOK ==
    /\ user \in Account
    /\ registered \subseteq User
    /\ waiting \subseteq registered
    /\ refused \subseteq User
    /\ apps \in Seq(App)
    /\ Len(apps) \in 1..MaxApps
    /\ attempts \in 0..MaxTaps
    /\ {leaving, back, raced, overtaken, unsaved} \subseteq BOOLEAN
    /\ changes \in 0..MaxChanges
    /\ faults \in 0..MaxFaults

\* The types, and that the apps form a tree: each one but the first lies on
\* exactly one route, of an app that was made before it and is still there.
Inv ==
    /\ TypeOK
    /\ apps[1].live
    /\ \A j \in DOMAIN apps \ {1} :
           LET on == UNION {{<<k, i>> : i \in {n \in DOMAIN apps[k].routes :
                                                 apps[k].routes[n] = j}}
                            : k \in Live}
           IN  /\ apps[j].live <=> on # {}
               /\ Cardinality(on) <= 1 /\ \A p \in on : p[1] < j

\* Nobody gets the home page, whose parts need a profile, without one: an app
\* that has heard of every change of account shows it only if the account
\* that is signed in has a profile, or had one until the server refused it.
GateChecked ==
    \A k \in Live :
        apps[k].events = <<>> /\ apps[k].page = "home" =>
            user \in registered \cup refused

\* When nobody is signed in the login page is on the screen once the app at
\* the top has heard of it, as the comment of main.dart 54 says, unless the
\* user went back to a page below or a page was opened in the meantime.
LoginShown ==
    user = NoUser /\ ~Behind(Top) => AtFirst("login") \/ back \/ raced

\* A reading is confirmed by somebody who is signed in, with the same
\* exceptions.
ReadingHasUser == unsaved => back \/ raced

\* A user who has a profile is not asked to register, unless a check said no
\* when there was a profile, or the user went back.
NotAskedAgain ==
    OnRoute(RegisterPage) /\ user \in registered =>
        overtaken \/ back \/ raced

\* A user who stays signed in does not stay before a splash, a login page or
\* a spinner: the home page, the registration or the record page comes up.  A
\* user who went back may stay on the empty page under the registration.
Served ==
    \A u \in User :
        user = u ~> \/ user # u \/ back
                    \/ AtFirst("home") \/ OnRoute(RegisterPage)
                    \/ OnRoute(RecordPage)
============================================================================
