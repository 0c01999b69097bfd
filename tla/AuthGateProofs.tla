--------------------------- MODULE AuthGateProofs ---------------------------
(***************************************************************************)
(* AuthGate: the types, the tree of apps, and what is on the screen, for   *)
(* any number of accounts, apps, sign-ins and faults.                      *)
(*                                                                         *)
(* GateChecked is not inductive: a check that has read but not returned,   *)
(* and a sign-in state that is still to be delivered, decide what the page *)
(* will be.  GateInv says what an app that is there knows.  The other      *)
(* properties are about the app on the screen, which the routes of the     *)
(* tree lead to: IInv adds the tree and what is on the screen.             *)
(***************************************************************************)
EXTENDS AuthGate, SequenceTheorems, FiniteSetTheorems, WellFoundedInduction,
        TLAPS

\* What an app knows of the account u and the profiles reg.  The last event
\* to come is of the account that is signed in; with no event to come the
\* check under way asked for that account, the home page is its own, and the
\* login page is shown to nobody else; a check that said yes asked for an
\* account with a profile.
Knows(a, u, reg) ==
    a.live =>
        /\ a.events # <<>> => a.events[Len(a.events)] = u
        /\ a.events = <<>> /\ a.page = "loading" => a.asked = u
        /\ a.page = "loading" /\ a.answer = "yes" => a.asked \in reg
        /\ a.events = <<>> /\ a.page = "home" => u \in reg
        /\ a.events = <<>> => (a.page = "login" <=> u = NoUser)

\* A list of apps that fits the account u and the profiles reg.
Fits(list, u, reg) ==
    /\ list \in Seq(App)
    /\ Len(list) \in 1..MaxApps
    /\ \A k \in DOMAIN list : Knows(list[k], u, reg)

\* The accounts that have a profile, or had one until the server refused it.
Profiled == registered \cup refused

\* The inductive invariant.
GateInv == TypeOK /\ Fits(apps, user, Profiled)

-----------------------------------------------------------------------------
(* Sequences.                                                              *)

\* What is left of a sequence ends as the sequence did.
LEMMA TailEnds ==
    ASSUME NEW S, NEW s \in Seq(S), s # <<>>
    PROVE  /\ Tail(s) \in Seq(S) /\ Head(s) \in S
           /\ Tail(s) # <<>> => Tail(s)[Len(Tail(s))] = s[Len(s)]
           /\ Tail(s) = <<>> => Head(s) = s[Len(s)]
  <1>1. Len(s) \in Nat \ {0}
    BY EmptySeq
  <1>2. /\ Tail(s) \in Seq(S) /\ Len(Tail(s)) = Len(s) - 1
        /\ \A i \in 1..Len(Tail(s)) : Tail(s)[i] = s[i + 1]
    BY HeadTailProperties
  <1>3. Head(s) = s[1] /\ s[1] \in S
    BY <1>1
  <1>4. ASSUME Tail(s) # <<>> PROVE Tail(s)[Len(Tail(s))] = s[Len(s)]
    <2>1. Len(Tail(s)) # 0
      BY <1>2, <1>4, EmptySeq
    <2> QED BY <1>1, <1>2, <2>1
  <1>5. ASSUME Tail(s) = <<>> PROVE Head(s) = s[Len(s)]
    <2>1. Len(Tail(s)) = 0
      BY <1>5, EmptySeq
    <2>2. Len(s) - 1 = 0
      BY <1>2, <2>1
    <2>3. Len(s) = 1
      BY <1>1, <2>2
    <2> QED BY <1>3, <2>3
  <1> QED
    BY <1>2, <1>3, <1>4, <1>5

\* A sequence without its last element.
LEMMA FrontSeq ==
    ASSUME NEW S, NEW s \in Seq(S)
    PROVE  Front(s) \in Seq(S)
  <1>1. Len(s) \in Nat /\ \A i \in 1..Len(s) - 1 : s[i] \in S
    BY LenProperties
  <1> QED
    BY <1>1, SubSeqProperties DEF Front

-----------------------------------------------------------------------------
(* Apps, one at a time.                                                    *)

\* A new app has the sign-in state before it.
LEMMA NewAppKnows ==
    ASSUME NEW u \in Account, NEW reg
    PROVE  NewApp(u) \in App /\ Knows(NewApp(u), u, reg)
  <1>1. <<u>> \in Seq(Account) /\ <<u>> # <<>> /\ Len(<<u>>) = 1 /\ <<u>>[1] = u
    OBVIOUS
  <1>2. <<>> \in Seq(-1..MaxApps)
    OBVIOUS
  <1> QED
    BY <1>1, <1>2 DEF NewApp, App, Account, Knows

\* An app that is gone knows nothing.
LEMMA GoneApp ==
    ASSUME NEW u, NEW reg
    PROVE  LET a == [NewApp(NoUser) EXCEPT !.events = <<>>, !.live = FALSE]
           IN  a \in App /\ Knows(a, u, reg)
  <1>1. <<>> \in Seq(-1..MaxApps) /\ <<>> \in Seq(Account)
    OBVIOUS
  <1> QED
    BY <1>1 DEF NewApp, App, Account, Knows

\* An app that is told of a new account knows it.
LEMMA ToldKnows ==
    ASSUME NEW a \in App, NEW u, NEW reg, NEW v \in Account, Knows(a, u, reg)
    PROVE  LET b == [a EXCEPT !.events = Append(@, v)]
           IN  b \in App /\ Knows(b, v, reg)
  <1> DEFINE e == Append(a.events, v)
  <1>1. a.events \in Seq(Account)
    BY DEF App
  <1>2. e \in Seq(Account) /\ Len(e) = Len(a.events) + 1 /\ e[Len(e)] = v
    BY <1>1
  <1>3. e # <<>>
    BY <1>1, <1>2
  <1> HIDE DEF e
  <1>4. [a EXCEPT !.events = e] \in App
    BY <1>2 DEF App
  <1>5. Knows([a EXCEPT !.events = e], v, reg)
    BY <1>2, <1>3 DEF Knows, App
  <1> QED
    BY <1>4, <1>5 DEF e

\* A check that starts asks for the account that is signed in.
LEMMA CheckingKnows ==
    ASSUME NEW a \in App, NEW reg, user \in Account, Knows(a, user, reg),
           a.page = "home"
    PROVE  Checking(a) \in App /\ Knows(Checking(a), user, reg)
  BY DEF Checking, App, Knows

\* An app to which an event is delivered shows the login page or checks.
LEMMA DeliveredKnows ==
    ASSUME NEW a \in App, NEW reg, user \in Account, Knows(a, user, reg),
           a.live, a.events # <<>>
    PROVE  LET b == [Shown(a, Head(a.events)) EXCEPT !.events = Tail(a.events)]
           IN  b \in App /\ Knows(b, user, reg)
  <1> DEFINE t == Tail(a.events)
  <1>1. a.events \in Seq(Account)
    BY DEF App
  <1>2. /\ t \in Seq(Account) /\ Head(a.events) \in Account
        /\ t # <<>> => t[Len(t)] = a.events[Len(a.events)]
        /\ t = <<>> => Head(a.events) = a.events[Len(a.events)]
    BY <1>1, TailEnds
  <1>3. a.events[Len(a.events)] = user
    BY DEF Knows
  <1> DEFINE s == Shown(a, Head(a.events))
  <1>4. s \in App /\ s.events = a.events
    BY <1>2 DEF Shown, Checking, App
  <1>5. IF Head(a.events) = NoUser THEN s.page = "login"
        ELSE s.page = "loading" /\ s.asked = user /\ s.answer = "none"
    BY DEF Shown, Checking, App
  <1> HIDE DEF s, t
  <1>6. [s EXCEPT !.events = t] \in App
    BY <1>2, <1>4 DEF App
  <1>7. Knows([s EXCEPT !.events = t], user, reg)
    BY <1>2, <1>3, <1>4, <1>5 DEF Knows, App
  <1> QED
    BY <1>6, <1>7 DEF s, t

\* What an app knows does not depend on its routes.
LEMMA RoutedKnows ==
    ASSUME NEW a \in App, NEW u, NEW reg, Knows(a, u, reg),
           NEW r \in Seq(-1..MaxApps)
    PROVE  LET b == [a EXCEPT !.routes = r] IN b \in App /\ Knows(b, u, reg)
  BY DEF App, Knows

\* More profiles take nothing from what an app knows.
LEMMA RegisteredKnows ==
    ASSUME NEW a, NEW u, NEW reg, NEW more, Knows(a, u, reg)
    PROVE  Knows(a, u, reg \cup more)
  BY DEF Knows

-----------------------------------------------------------------------------
(* The list of apps.                                                       *)

\* A list in which every app is replaced by one that fits.
LEMMA AllReplaced ==
    ASSUME NEW u, NEW reg, NEW v, NEW more, NEW xs, NEW ys, Fits(xs, u, reg),
           DOMAIN ys = DOMAIN xs, ys = [j \in DOMAIN ys |-> ys[j]],
           \A j \in DOMAIN xs : ys[j] \in App /\ Knows(ys[j], v, more)
    PROVE  Fits(ys, v, more) /\ Len(ys) = Len(xs)
  <1>0. xs \in Seq(App) /\ Len(xs) \in 1..MaxApps
    BY DEF Fits
  <1>1. DOMAIN xs = 1..Len(xs) /\ Len(xs) \in Nat
    BY <1>0, LenProperties
  <1>2. ys \in [1..Len(xs) -> App]
    BY <1>1
  <1>3. ys \in Seq(App)
    BY <1>1, <1>2
  <1>4. Len(ys) = Len(xs)
    BY <1>1, <1>3, LenProperties
  <1> QED
    BY <1>0, <1>3, <1>4 DEF Fits

\* A list in which one app is replaced by one that fits.
LEMMA OneReplaced ==
    ASSUME NEW u, NEW reg, NEW xs, NEW k, NEW b, Fits(xs, u, reg),
           k \in DOMAIN xs => b \in App /\ Knows(b, u, reg)
    PROVE  /\ Fits([xs EXCEPT ![k] = b], u, reg)
           /\ Len([xs EXCEPT ![k] = b]) = Len(xs)
  <1> DEFINE ys == [xs EXCEPT ![k] = b]
  <1>0. xs \in Seq(App)
    BY DEF Fits
  <1>1. DOMAIN ys = DOMAIN xs /\ ys = [j \in DOMAIN ys |-> ys[j]]
    BY <1>0
  <1>2. ASSUME NEW j \in DOMAIN xs PROVE ys[j] \in App /\ Knows(ys[j], u, reg)
    <2>1. xs[j] \in App
      BY <1>0, LenProperties
    <2>2. Knows(xs[j], u, reg)
      BY DEF Fits
    <2>3. ys[j] = IF j = k THEN b ELSE xs[j]
      BY <1>0
    <2> QED BY <2>1, <2>2, <2>3
  <1> HIDE DEF ys
  <1>3. Fits(ys, u, reg) /\ Len(ys) = Len(xs)
    BY <1>1, <1>2, AllReplaced
  <1> QED
    BY <1>3 DEF ys

\* A list that gets one more app.
LEMMA OneMore ==
    ASSUME NEW u, NEW reg, NEW xs, NEW b, Fits(xs, u, reg), Len(xs) < MaxApps,
           b \in App, Knows(b, u, reg)
    PROVE  Fits(Append(xs, b), u, reg)
  <1> DEFINE ys == Append(xs, b)
  <1>0. xs \in Seq(App) /\ Len(xs) \in Nat /\ MaxApps \in Nat
    BY GateAssumption, LenProperties DEF Fits
  <1>1. /\ ys \in Seq(App) /\ Len(ys) = Len(xs) + 1
        /\ \A j \in 1..Len(xs) : ys[j] = xs[j]
        /\ ys[Len(xs) + 1] = b
    BY <1>0, AppendProperties
  <1> HIDE DEF ys
  <1>2. DOMAIN xs = 1..Len(xs) /\ DOMAIN ys = 1..Len(ys)
    BY <1>0, <1>1, LenProperties
  <1>3. ASSUME NEW j \in DOMAIN ys PROVE Knows(ys[j], u, reg)
    <2>1. CASE j \in DOMAIN xs
      <3>1. ys[j] = xs[j] /\ Knows(xs[j], u, reg)
        BY <1>1, <1>2, <2>1 DEF Fits
      <3> QED BY <3>1
    <2>2. CASE j \notin DOMAIN xs
      <3>1. j = Len(xs) + 1
        BY <1>0, <1>1, <1>2, <2>2
      <3> QED BY <1>1, <3>1
    <2> QED BY <2>1, <2>2
  <1>4. Len(ys) \in 1..MaxApps
    BY <1>0, <1>1
  <1>5. Fits(ys, u, reg)
    BY <1>1, <1>3, <1>4 DEF Fits
  <1> QED
    BY <1>5 DEF ys

\* A list in which an app gets one more route.
LEMMA OneRouted ==
    ASSUME NEW u, NEW reg, NEW xs, NEW k, NEW r \in -1..MaxApps, Fits(xs, u, reg)
    PROVE  /\ Fits([xs EXCEPT ![k].routes = Append(@, r)], u, reg)
           /\ Len([xs EXCEPT ![k].routes = Append(@, r)]) = Len(xs)
  <1> DEFINE b == [xs[k] EXCEPT !.routes = Append(xs[k].routes, r)]
  <1>1. ASSUME k \in DOMAIN xs PROVE b \in App /\ Knows(b, u, reg)
    <2>1. xs[k] \in App /\ Knows(xs[k], u, reg)
      BY <1>1, LenProperties DEF Fits
    <2>2. xs[k].routes \in Seq(-1..MaxApps)
      BY <2>1 DEF App
    <2>3. Append(xs[k].routes, r) \in Seq(-1..MaxApps)
      BY <2>2, AppendProperties
    <2> QED BY <2>1, <2>3, RoutedKnows
  <1>2. [xs EXCEPT ![k].routes = Append(@, r)] = [xs EXCEPT ![k] = b]
    OBVIOUS
  <1> HIDE DEF b
  <1> QED
    BY <1>1, <1>2, OneReplaced

\* PushApp keeps a list that fits.
LEMMA PushAppFits ==
    ASSUME GateInv, NEW k, PushApp(k)
    PROVE  Fits(apps', user, Profiled)
  <1>1. Fits(apps, user, Profiled) /\ user \in Account /\ Len(apps) < MaxApps
    BY DEF GateInv, TypeOK, PushApp
  <1> DEFINE r == Len(apps) + 1
             ys == [apps EXCEPT ![k].routes = Append(@, r)]
  <1>2. r \in -1..MaxApps
    BY <1>1, GateAssumption DEF Fits
  <1>3. apps' = Append(ys, NewApp(user))
    BY DEF PushApp
  <1> HIDE DEF r
  <1>4. Fits(ys, user, Profiled) /\ Len(ys) = Len(apps)
    <2>1. Fits(apps, user, Profiled)
      BY <1>1
    <2>2. Fits([apps EXCEPT ![k].routes = Append(@, r)], user, Profiled)
      BY <1>2, <2>1, OneRouted
    <2>3. Len([apps EXCEPT ![k].routes = Append(@, r)]) = Len(apps)
      BY <1>2, <2>1, OneRouted
    <2> QED BY <2>2, <2>3
  <1> HIDE DEF ys
  <1>5. NewApp(user) \in App /\ Knows(NewApp(user), user, Profiled)
    BY <1>1, NewAppKnows
  <1> QED
    BY <1>1, <1>3, <1>4, <1>5, OneMore

\* Becomes keeps a list that fits.
LEMMA BecomesFits ==
    ASSUME GateInv, NEW v \in Account, Becomes(v)
    PROVE  Fits(apps', user', Profiled) /\ user' \in Account
  <1>1. Fits(apps, user, Profiled) /\ apps \in Seq(App)
    BY DEF GateInv, Fits
  <1>2. CASE v = user
    BY <1>1, <1>2 DEF Becomes
  <1>3. CASE v # user
    <2>1. /\ user' = v
          /\ apps' = [k \in DOMAIN apps |->
                        IF apps[k].live
                        THEN [apps[k] EXCEPT !.events = Append(@, v)]
                        ELSE apps[k]]
      BY <1>3 DEF Becomes
    <2>2. DOMAIN apps' = DOMAIN apps /\ apps' = [j \in DOMAIN apps' |-> apps'[j]]
      BY <2>1
    <2>3. ASSUME NEW j \in DOMAIN apps
          PROVE  apps'[j] \in App /\ Knows(apps'[j], v, Profiled)
      <3>1. apps[j] \in App /\ Knows(apps[j], user, Profiled)
        BY <1>1, LenProperties DEF Fits
      <3>2. CASE apps[j].live
        <4>1. apps'[j] = [apps[j] EXCEPT !.events = Append(@, v)]
          BY <2>1, <3>2
        <4> QED BY <3>1, <4>1, ToldKnows
      <3>3. CASE ~apps[j].live
        <4>1. apps'[j] = apps[j]
          BY <2>1, <3>3
        <4> QED BY <3>1, <3>3, <4>1 DEF Knows
      <3> QED BY <3>2, <3>3
    <2>4. Fits(apps', v, Profiled)
      BY <1>1, <2>2, <2>3, AllReplaced
    <2> QED
      BY <2>1, <2>4
  <1> QED
    BY <1>2, <1>3

\* AuthEvent keeps a list that fits.
LEMMA AuthEventFits ==
    ASSUME GateInv, NEW k \in DOMAIN apps, AuthEvent(k)
    PROVE  Fits(apps', user, Profiled)
  <1>1. /\ Fits(apps, user, Profiled) /\ user \in Account
        /\ apps[k] \in App /\ Knows(apps[k], user, Profiled)
    BY LenProperties DEF GateInv, TypeOK, Fits
  <1>2. apps[k].live /\ apps[k].events # <<>>
    BY DEF AuthEvent, Live
  <1> DEFINE b == [Shown(apps[k], Head(apps[k].events))
                    EXCEPT !.events = Tail(apps[k].events)]
  <1>3. b \in App /\ Knows(b, user, Profiled)
    BY <1>1, <1>2, DeliveredKnows
  <1>4. apps' = [apps EXCEPT ![k] = b]
    BY DEF AuthEvent
  <1> HIDE DEF b
  <1> QED
    BY <1>1, <1>3, <1>4, OneReplaced

\* An answer to a check that is true keeps a list that fits.
LEMMA AnswerFits ==
    ASSUME GateInv, NEW k \in DOMAIN apps, NEW w \in {"yes", "no"},
           apps' = [apps EXCEPT ![k].answer = w],
           w = "yes" => apps[k].asked \in Profiled
    PROVE  Fits(apps', user, Profiled)
  <1>1. /\ Fits(apps, user, Profiled)
        /\ apps[k] \in App /\ Knows(apps[k], user, Profiled)
    BY LenProperties DEF GateInv, Fits
  <1> DEFINE b == [apps[k] EXCEPT !.answer = w]
  <1>2. b \in App /\ Knows(b, user, Profiled)
    BY <1>1 DEF App, Knows
  <1>3. apps' = [apps EXCEPT ![k] = b]
    OBVIOUS
  <1> HIDE DEF b
  <1>4. Fits([apps EXCEPT ![k] = b], user, Profiled)
    BY <1>1, <1>2, OneReplaced
  <1> QED
    BY <1>3, <1>4

\* CheckReturns keeps a list that fits: a yes that opens the home page is of
\* the account that is signed in, if the app has heard of every change.
LEMMA CheckReturnsFits ==
    ASSUME GateInv, NEW k \in DOMAIN apps, CheckReturns(k)
    PROVE  Fits(apps', user, Profiled)
  <1>1. /\ Fits(apps, user, Profiled)
        /\ apps[k] \in App /\ Knows(apps[k], user, Profiled)
        /\ apps[k].page = "loading"
    BY LenProperties DEF GateInv, Fits, CheckReturns
  <1>2. CASE apps[k].answer = "yes"
    <2> DEFINE b == [apps[k] EXCEPT !.page = "home"]
    <2>1. b \in App /\ Knows(b, user, Profiled)
      BY <1>1, <1>2 DEF App, Knows
    <2>2. apps' = [apps EXCEPT ![k] = b]
      BY <1>2 DEF CheckReturns
    <2> HIDE DEF b
    <2> QED BY <1>1, <2>1, <2>2, OneReplaced
  <1>3. CASE apps[k].answer # "yes"
    <2> DEFINE r == Append(apps[k].routes, RegisterPage)
               b == [apps[k] EXCEPT !.page = "blank"]
               c == [b EXCEPT !.routes = r]
    <2>1. b \in App /\ Knows(b, user, Profiled)
      BY <1>1 DEF App, Knows
    <2>2. RegisterPage \in -1..MaxApps /\ apps[k].routes \in Seq(-1..MaxApps)
      BY <1>1, GateAssumption DEF RegisterPage, App
    <2>3. r \in Seq(-1..MaxApps)
      BY <2>2, AppendProperties
    <2>4. apps' = [apps EXCEPT ![k] = c]
      BY <1>1, <1>3 DEF CheckReturns, App
    <2> HIDE DEF b, r
    <2>5. c \in App /\ Knows(c, user, Profiled)
      BY <2>1, <2>3, RoutedKnows
    <2> HIDE DEF c
    <2> QED BY <1>1, <2>4, <2>5, OneReplaced
  <1> QED
    BY <1>2, <1>3

\* Back keeps a list that fits: an app is taken away whole, or keeps what it
\* knows.
LEMMA BackFits ==
    ASSUME GateInv, NEW k \in DOMAIN apps, Back(k)
    PROVE  Fits(apps', user, Profiled)
  <1>1. Fits(apps, user, Profiled) /\ apps \in Seq(App)
    BY DEF GateInv, Fits
  <1> DEFINE gone == Covered(Last(apps[k].routes))
             dead == [NewApp(NoUser) EXCEPT !.events = <<>>, !.live = FALSE]
  <1>2. apps[k].routes # <<>>
        /\ apps' = [j \in DOMAIN apps |->
                      IF j \in gone THEN dead
                      ELSE IF j = k THEN [apps[j] EXCEPT !.routes = Front(@)]
                      ELSE apps[j]]
    BY DEF Back
  <1>3. dead \in App /\ Knows(dead, user, Profiled)
    BY GoneApp
  <1> HIDE DEF gone, dead
  <1>4. DOMAIN apps' = DOMAIN apps /\ apps' = [j \in DOMAIN apps' |-> apps'[j]]
    BY <1>2
  <1>5. ASSUME NEW j \in DOMAIN apps
        PROVE  apps'[j] \in App /\ Knows(apps'[j], user, Profiled)
    <2>1. apps[j] \in App /\ Knows(apps[j], user, Profiled)
      BY <1>1, LenProperties DEF Fits
    <2>2. CASE j \in gone
      <3>1. apps'[j] = dead
        BY <1>2, <2>2
      <3> QED BY <1>3, <3>1
    <2>3. CASE j \notin gone /\ j = k
      <3> DEFINE f == Front(apps[j].routes)
      <3>1. apps'[j] = [apps[j] EXCEPT !.routes = f]
        BY <1>2, <2>3
      <3>2. apps[j].routes \in Seq(-1..MaxApps)
        BY <2>1 DEF App
      <3>3. f \in Seq(-1..MaxApps)
        BY <3>2, FrontSeq
      <3> HIDE DEF f
      <3> QED BY <2>1, <3>1, <3>3, RoutedKnows
    <2>4. CASE j \notin gone /\ j # k
      <3>1. apps'[j] = apps[j]
        BY <1>2, <2>4
      <3> QED BY <2>1, <3>1
    <2> QED BY <2>2, <2>3, <2>4
  <1> QED
    BY <1>1, <1>4, <1>5, AllReplaced

\* A list of one new app fits.
LEMMA FirstFits ==
    ASSUME NEW u \in Account, NEW reg
    PROVE  Fits(<<NewApp(u)>>, u, reg)
  <1> DEFINE a == NewApp(u)
  <1>1. a \in App /\ Knows(a, u, reg)
    BY NewAppKnows
  <1> HIDE DEF a
  <1>2. <<a>> \in Seq(App) /\ Len(<<a>>) = 1 /\ DOMAIN <<a>> = {1} /\ <<a>>[1] = a
    BY <1>1
  <1>3. 1 \in 1..MaxApps
    BY GateAssumption
  <1>4. Fits(<<a>>, u, reg)
    BY <1>1, <1>2, <1>3 DEF Fits
  <1> QED
    BY <1>4 DEF a

-----------------------------------------------------------------------------
(* The specification.                                                      *)

\* The types of all the variables but the apps.
Scalars ==
    /\ user \in Account
    /\ registered \subseteq User
    /\ waiting \subseteq registered
    /\ refused \subseteq User
    /\ attempts \in 0..MaxTaps
    /\ {leaving, back, raced, overtaken, unsaved} \subseteq BOOLEAN
    /\ changes \in 0..MaxChanges
    /\ faults \in 0..MaxFaults

\* The parts of the invariant.
LEMMA GateInvParts == GateInv <=> Scalars /\ Fits(apps, user, Profiled)
  BY DEF GateInv, TypeOK, Scalars, Fits

\* The first states.
LEMMA GateInit == Init => GateInv
  <1> SUFFICES ASSUME Init PROVE GateInv
    OBVIOUS
  <1>1. Scalars
    <2>1. {leaving, back, raced, overtaken, unsaved} \subseteq BOOLEAN
      BY Zenon DEF Init
    <2>2. 0 \in 0..MaxTaps /\ 0 \in 0..MaxChanges /\ 0 \in 0..MaxFaults
      BY GateAssumption
    <2> QED BY <2>1, <2>2 DEF Init, Scalars
  <1>2. Fits(apps, user, Profiled)
    BY FirstFits DEF Init
  <1> QED
    BY <1>1, <1>2, GateInvParts

\* Every step of the program keeps the types of the other variables.
LEMMA ScalarsStep ==
    ASSUME Scalars, [Next]_vars
    PROVE  Scalars'
  <1>0. {MaxTaps, MaxChanges, MaxFaults} \subseteq Nat
    BY GateAssumption
  <1>1. ASSUME NEW k, AuthEvent(k) PROVE Scalars'
    BY <1>1 DEF Scalars, AuthEvent
  <1>2. ASSUME NEW k, CheckReads(k) PROVE Scalars'
    BY <1>2 DEF Scalars, CheckReads
  <1>3. ASSUME NEW k, CheckFails(k) PROVE Scalars'
    BY <1>0, <1>3 DEF Scalars, CheckFails
  <1>4. ASSUME NEW k, CheckReturns(k) PROVE Scalars'
    BY <1>4 DEF Scalars, CheckReturns, Behind
  <1>5. ASSUME NEW k, Back(k) PROVE Scalars'
    BY <1>5 DEF Scalars, Back
  <1>6. CASE TapSignIn
    BY <1>0, <1>6 DEF Scalars, TapSignIn
  <1>7. CASE SignInEnds
    <2>1. attempts' \in 0..MaxTaps /\ changes' \in 0..MaxChanges
      BY <1>0, <1>7 DEF Scalars, SignInEnds
    <2>2. user' \in Account
      BY <1>7 DEF Scalars, SignInEnds, Becomes, Account
    <2>3. raced' \in BOOLEAN
      BY <1>7 DEF Scalars, SignInEnds
    <2> QED BY <1>7, <2>1, <2>2, <2>3 DEF Scalars, SignInEnds
  <1>8. CASE TapSignOut
    BY <1>0, <1>8 DEF Scalars, TapSignOut
  <1>9. CASE SignOutEnds
    BY <1>9 DEF Scalars, SignOutEnds, Becomes, Account
  <1>10. CASE TapTab
    BY <1>10 DEF Scalars, TapTab
  <1>11. CASE OpenRecord
    BY <1>11 DEF Scalars, OpenRecord, Behind
  <1>12. CASE PressRecord
    BY <1>12 DEF Scalars, PressRecord
  <1>13. CASE Register
    BY <1>13 DEF Scalars, Register, AuthAdd, Account
  <1>14. CASE Restart
    <2>1. {leaving, back, raced, overtaken, unsaved}' \subseteq BOOLEAN
      BY <1>14, Zenon DEF Restart
    <2>2. 0 \in 0..MaxTaps /\ faults' \in 0..MaxFaults
      BY <1>0, <1>14 DEF Scalars, Restart
    <2> QED BY <1>14, <2>1, <2>2 DEF Scalars, Restart
  <1>15. CASE RegistrationRefused
    BY <1>0, <1>15 DEF Scalars, RegistrationRefused, Account
  <1>16. CASE UNCHANGED vars
    BY <1>16 DEF Scalars, vars
  <1> QED
    BY <1>1, <1>2, <1>3, <1>4, <1>5, <1>6, <1>7, <1>8, <1>9, <1>10, <1>11,
       <1>12, <1>13, <1>14, <1>15, <1>16 DEF Next

\* Every step of the program keeps the list of apps fitting.
LEMMA FitsStep ==
    ASSUME GateInv, [Next]_vars
    PROVE  Fits(apps', user', Profiled')
  <1>0. Fits(apps, user, Profiled) /\ user \in Account /\ Scalars
    BY GateInvParts DEF Scalars
  <1>1. ASSUME NEW k \in DOMAIN apps, AuthEvent(k)
        PROVE  Fits(apps', user', Profiled')
    <2>1. user' = user /\ Profiled' = Profiled
      BY <1>1 DEF AuthEvent, Profiled
    <2> QED BY <1>1, <2>1, AuthEventFits
  <1>2. ASSUME NEW k \in DOMAIN apps, CheckReads(k)
        PROVE  Fits(apps', user', Profiled')
    <2> DEFINE w == IF apps[k].asked \in registered THEN "yes" ELSE "no"
    <2>1. user' = user /\ Profiled' = Profiled
          /\ apps' = [apps EXCEPT ![k].answer = w]
      BY <1>2 DEF CheckReads, Profiled
    <2>2. w \in {"yes", "no"} /\ (w = "yes" => apps[k].asked \in Profiled)
      BY DEF Profiled
    <2> HIDE DEF w
    <2>3. Fits(apps', user, Profiled)
      BY <2>1, <2>2, AnswerFits
    <2> QED BY <2>1, <2>3
  <1>3. ASSUME NEW k \in DOMAIN apps, CheckFails(k)
        PROVE  Fits(apps', user', Profiled')
    <2> DEFINE w == "no"
    <2>1. user' = user /\ Profiled' = Profiled
          /\ apps' = [apps EXCEPT ![k].answer = w]
      BY <1>3 DEF CheckFails, Profiled
    <2>2. w \in {"yes", "no"} /\ (w = "yes" => apps[k].asked \in Profiled)
      OBVIOUS
    <2> HIDE DEF w
    <2>3. Fits(apps', user, Profiled)
      BY <2>1, <2>2, AnswerFits
    <2> QED BY <2>1, <2>3
  <1>4. ASSUME NEW k \in DOMAIN apps, CheckReturns(k)
        PROVE  Fits(apps', user', Profiled')
    <2>1. user' = user /\ Profiled' = Profiled
      BY <1>4 DEF CheckReturns, Profiled
    <2> QED BY <1>4, <2>1, CheckReturnsFits
  <1>5. ASSUME NEW k \in DOMAIN apps, Back(k)
        PROVE  Fits(apps', user', Profiled')
    <2>1. user' = user /\ Profiled' = Profiled
      BY <1>5 DEF Back, Profiled
    <2> QED BY <1>5, <2>1, BackFits
  <1>6. CASE TapSignIn \/ TapSignOut
    <2>1. user' = user /\ Profiled' = Profiled /\ apps' = apps
      BY <1>6 DEF TapSignIn, TapSignOut, Profiled
    <2> QED BY <1>0, <2>1
  <1>7. CASE SignInEnds
    <2>1. Profiled' = Profiled
      BY <1>7 DEF SignInEnds, Profiled
    <2>2. CASE \E v \in User : Becomes(v)
      <3>1. PICK v \in User : Becomes(v)
        BY <2>2
      <3>2. v \in Account
        BY DEF Account
      <3> QED BY <2>1, <3>1, <3>2, BecomesFits
    <2>3. CASE user' = user /\ apps' = apps
      BY <1>0, <2>1, <2>3
    <2> QED BY <1>7, <2>2, <2>3 DEF SignInEnds
  <1>8. CASE SignOutEnds
    <2>1. Profiled' = Profiled /\ Becomes(NoUser) /\ NoUser \in Account
      BY <1>8 DEF SignOutEnds, Account, Profiled
    <2> QED BY <2>1, BecomesFits
  <1>9. CASE TapTab
    <2> DEFINE k == Top
               b == Checking(apps[k])
    <2>1. user' = user /\ Profiled' = Profiled
          /\ apps' = [apps EXCEPT ![k] = b] /\ apps[k].page = "home"
      BY <1>9 DEF TapTab, AtFirst, Profiled
    <2> HIDE DEF k
    <2>2. ASSUME k \in DOMAIN apps PROVE b \in App /\ Knows(b, user, Profiled)
      <3>1. apps[k] \in App /\ Knows(apps[k], user, Profiled)
        BY <1>0, <2>2, LenProperties DEF Fits
      <3> QED BY <1>0, <2>1, <3>1, CheckingKnows
    <2> HIDE DEF b
    <2>3. Fits([apps EXCEPT ![k] = b], user, Profiled)
      BY <1>0, <2>2, OneReplaced
    <2> QED BY <2>1, <2>3
  <1>10. CASE OpenRecord
    <2> DEFINE k == Top
    <2>1. user' = user /\ Profiled' = Profiled
          /\ apps' = [apps EXCEPT ![k].routes = Append(@, RecordPage)]
      BY <1>10 DEF OpenRecord, Profiled
    <2>2. RecordPage \in -1..MaxApps
      BY GateAssumption DEF RecordPage
    <2> HIDE DEF k
    <2>3. Fits([apps EXCEPT ![k].routes = Append(@, RecordPage)], user, Profiled)
      BY <1>0, <2>2, OneRouted
    <2> QED BY <2>1, <2>3
  <1>11. CASE PressRecord
    <2>1. user' = user /\ Profiled' = Profiled /\ PushApp(Top)
      BY <1>11 DEF PressRecord, Profiled
    <2> QED BY <2>1, PushAppFits
  <1>12. CASE Register
    <2> DEFINE more == {user} \ {NoUser}
    <2>1. user' = user /\ Profiled' = Profiled \cup more /\ PushApp(1)
      BY <1>12 DEF Register, AuthAdd, Profiled
    <2>2. Fits(apps', user, Profiled)
      BY <2>1, PushAppFits
    <2> HIDE DEF more
    <2>3. Fits(apps', user, Profiled \cup more)
      BY <2>2, RegisteredKnows DEF Fits
    <2> QED BY <2>1, <2>3
  <1>13. CASE Restart
    <2>1. user' = user /\ Profiled' = Profiled /\ apps' = <<NewApp(user)>>
      BY <1>13 DEF Restart, Profiled
    <2> QED BY <1>0, <2>1, FirstFits
  <1>14. CASE RegistrationRefused
    <2>1. user' = user /\ apps' = apps /\ user \in registered
      BY <1>0, <1>14 DEF RegistrationRefused, Scalars
    <2>2. Profiled' = Profiled
      BY <1>14, <2>1 DEF RegistrationRefused, Profiled
    <2> QED BY <1>0, <2>1, <2>2
  <1>15. CASE UNCHANGED vars
    <2>1. user' = user /\ Profiled' = Profiled /\ apps' = apps
      BY <1>15 DEF vars, Profiled
    <2> QED BY <1>0, <2>1
  <1> QED
    BY <1>1, <1>2, <1>3, <1>4, <1>5, <1>6, <1>7, <1>8, <1>9, <1>10, <1>11,
       <1>12, <1>13, <1>14, <1>15 DEF Next

\* Every step of the program keeps the invariant.
LEMMA GateStep == GateInv /\ [Next]_vars => GateInv'
  <1> SUFFICES ASSUME GateInv, [Next]_vars PROVE GateInv'
    OBVIOUS
  <1>1. Scalars
    BY GateInvParts
  <1>2. Scalars'
    BY <1>1, ScalarsStep
  <1>3. Fits(apps', user', Profiled')
    BY FitsStep
  <1> QED
    BY <1>2, <1>3 DEF GateInv, TypeOK, Scalars, Fits

\* What the apps know implies GateChecked.
LEMMA GateInvChecks == GateInv => GateChecked
  BY DEF GateInv, Fits, Knows, GateChecked, Live, Profiled

\* The invariant holds for any number of accounts, apps, sign-ins and faults.
THEOREM GateInvHolds == Spec => []GateInv
  <1> QED
    BY GateInit, GateStep, PTL DEF Spec

\* main.dart 36-56 and userCheck: nobody gets the home page without a
\* profile, once the app has heard of the account that is signed in, however
\* many apps are piled up and however the checks, the sign-ins, the
\* registrations and restarts interleave.
THEOREM GateCheckedHolds == Spec => []GateChecked
  <1> QED
    BY GateInvHolds, GateInvChecks, PTL

\* The types of AuthGate, in particular that there are never more apps than
\* the bound says and that every route is a page or an app.
THEOREM GateTypes == Spec => []TypeOK
  <1>1. GateInv => TypeOK
    BY DEF GateInv
  <1> QED
    BY <1>1, GateInvHolds, PTL

-----------------------------------------------------------------------------
(* The tree of apps.  R[k] are the routes of app k, L the apps that are    *)
(* there.                                                                  *)

\* Every app but the first lies on one route, of an app that was made before
\* it and is there; an app that is gone has no routes.
Tree(n, R, L) ==
    /\ n \in Nat /\ 1 \in L /\ L \subseteq 1..n
    /\ R \in [1..n -> Seq(Int)]
    /\ \A k \in 1..n : \A i \in 1..Len(R[k]) : R[k][i] > 0 =>
           /\ k \in L /\ R[k][i] \in L /\ k < R[k][i]
           /\ \A l \in 1..n : \A j \in 1..Len(R[l]) :
                  R[l][j] = R[k][i] => l = k /\ j = i
    /\ \A j \in L \ {1} : \E k \in 1..n : \E i \in 1..Len(R[k]) : R[k][i] = j
    /\ \A k \in 1..n : k \notin L => R[k] = <<>>

\* The last of the routes of an app is an app.
Covers(s) == s # <<>> /\ Last(s) > 0

\* The routes of no app but k change; those of k lose the last one, and the
\* apps that are gone lose them all.
OnlyAt(n, k, R, R2) == \A m \in 1..n : m # k => R2[m] = R[m]
LosesLast(n, k, gone, R, R2) ==
    \A m \in 1..n : R2[m] = IF m \in gone THEN <<>>
                            ELSE IF m = k THEN Front(R[m]) ELSE R[m]

\* f leads from every app to the one on the screen above it.
Leads(f, n, R) ==
    f = [k \in 1..n |-> IF Covers(R[k]) THEN f[Last(R[k])] ELSE k]

\* f gives the apps that go with an app.
Holds(f, n, R) ==
    f = [k \in 1..n |->
            {k} \cup UNION {f[j] : j \in ToSet(R[k]) \cap 1..n}]

\* The apps that go with the last of the routes s.
Goes(f, s) == IF Last(s) > 0 THEN f[Last(s)] ELSE {}

\* A set of apps has a newest one.
LEMMA HasNewest ==
    ASSUME NEW n \in Nat, NEW T \in SUBSET (1..n), T # {}
    PROVE  \E k \in T : \A m \in T : m <= k
<1> DEFINE D == {n - k : k \in T}
<1>1. D \subseteq Nat /\ D # {}
    <2>1. \A k \in T : n - k \in Nat
        OBVIOUS
    <2> QED
        BY <2>1
<1>2. PICK x \in D : \A y \in D : ~ (<<y, x>> \in OpToRel(<, Nat))
    BY <1>1, NatLessThanWellFounded, WFMin
<1>3. \A y \in D : x <= y
    <2> HIDE DEF D
    <2>1. SUFFICES ASSUME NEW y \in D, y < x PROVE FALSE
        <3>1. x \in Nat /\ \A y \in D : y \in Nat
            BY <1>1
        <3> QED
            BY <3>1
    <2>2. <<y, x>> \in Nat \X Nat /\ <<y, x>>[1] < <<y, x>>[2]
        BY <1>1, <2>1
    <2>3. <<y, x>> \in {ss \in Nat \X Nat : ss[1] < ss[2]}
        BY <2>2
    <2> QED
        BY <1>2, <2>3 DEF OpToRel
<1>4. PICK k \in T : x = n - k
    OBVIOUS
<1>5. ASSUME NEW m \in T PROVE m <= k
    <2>1. n - m \in D
        OBVIOUS
    <2> HIDE DEF D
    <2>2. n - k <= n - m
        BY <1>3, <1>4, <2>1
    <2> QED
        BY <2>2
<1> QED
    BY <1>5

\* The last route of an app.
LEMMA LastRoute ==
    ASSUME NEW n, NEW R, NEW L, Tree(n, R, L), NEW k \in 1..n
    PROVE  /\ R[k] \in Seq(Int) /\ Len(R[k]) \in Nat
           /\ R[k] # <<>> => /\ Len(R[k]) >= 1 /\ Len(R[k]) \in 1..Len(R[k])
                             /\ Last(R[k]) = R[k][Len(R[k])] /\ Last(R[k]) \in Int
           /\ Covers(R[k]) => /\ k \in L /\ Last(R[k]) \in L /\ k < Last(R[k])
                              /\ Last(R[k]) \in 1..n
<1>1. R[k] \in Seq(Int) /\ Len(R[k]) \in Nat
    BY LenProperties DEF Tree
<1>2. ASSUME R[k] # <<>>
      PROVE  /\ Len(R[k]) >= 1 /\ Len(R[k]) \in 1..Len(R[k])
             /\ Last(R[k]) = R[k][Len(R[k])] /\ Last(R[k]) \in Int
    <2>1. Len(R[k]) # 0
        BY <1>1, <1>2, EmptySeq
    <2>2. Last(R[k]) = R[k][Len(R[k])]
        BY DEF Last
    <2>3. Len(R[k]) >= 1 /\ Len(R[k]) \in 1..Len(R[k])
        BY <1>1, <2>1
    <2> QED
        BY <1>1, <2>2, <2>3, LenProperties
<1>3. ASSUME Covers(R[k])
      PROVE  /\ k \in L /\ Last(R[k]) \in L /\ k < Last(R[k])
             /\ Last(R[k]) \in 1..n
    BY <1>2, <1>3 DEF Covers, Tree
<1> QED
    BY <1>1, <1>2, <1>3

\* There is a function that leads to the screen: it is made from the newest
\* app down.
LEMMA LeadsExists ==
    ASSUME NEW n, NEW R, NEW L, Tree(n, R, L)
    PROVE  \E f : Leads(f, n, R)
<1> DEFINE Up(f, k) == IF Covers(R[k]) THEN f[Last(R[k])] ELSE k
           Ok(f, m) == f = [k \in 1..n |-> f[k]] /\ \A k \in m..n : f[k] = Up(f, k)
           T == {m \in 1..n : ~ \E f : Ok(f, m)}
<1>0. n \in Nat /\ 1 \in 1..n
    BY DEF Tree
<1>1. T = {}
    <2>1. SUFFICES ASSUME T # {} PROVE FALSE
        OBVIOUS
    <2>2. PICK m \in T : \A k \in T : k <= m
        <3> HIDE DEF T
        <3>1. T \in SUBSET (1..n)
            BY DEF T
        <3> QED
            BY <1>0, <2>1, <3>1, HasNewest
    <2>3. m \in 1..n /\ m + 1 \notin T
        <3>1. m \in 1..n
            OBVIOUS
        <3> HIDE DEF T
        <3> QED
            BY <1>0, <2>2, <3>1
    <2>4. PICK f : Ok(f, m + 1)
        <3>1. CASE m = n
            <4> DEFINE g == [k \in 1..n |-> k]
            <4>1. g = [k \in 1..n |-> g[k]] /\ \A k \in m + 1..n : g[k] = Up(g, k)
                BY <1>0, <3>1
            <4> QED
                BY <4>1
        <3>2. CASE m # n
            <4>1. m + 1 \in 1..n
                BY <1>0, <2>3, <3>2
            <4> QED
                BY <2>3, <4>1
        <3> QED
            BY <3>1, <3>2
    <2> DEFINE g == [k \in 1..n |-> IF k = m THEN Up(f, m) ELSE f[k]]
    <2>5. g = [k \in 1..n |-> g[k]]
        OBVIOUS
    <2>6. \A k \in 1..n : g[k] = IF k = m THEN Up(f, m) ELSE f[k]
        OBVIOUS
    <2> HIDE DEF g
    <2>7. ASSUME NEW k \in m..n PROVE g[k] = Up(g, k)
        <3>1. k \in 1..n
            BY <1>0, <2>3
        <3>2. Covers(R[k]) => Last(R[k]) \in 1..n /\ Last(R[k]) # m
            BY <1>0, <2>3, <3>1, LastRoute
        <3>3. Up(g, k) = Up(f, k)
            BY <2>6, <3>2
        <3>4. k # m => k \in m + 1..n
            BY <1>0, <2>3
        <3> QED
            BY <2>4, <2>6, <3>1, <3>3, <3>4
    <2>8. Ok(g, m)
        BY <2>5, <2>7
    <2> QED
        BY <2>2, <2>8
<1>2. PICK f : Ok(f, 1)
    BY <1>0, <1>1
<1>3. Leads(f, n, R)
    BY <1>2 DEF Leads
<1> QED
    BY <1>3

\* There is a function that gives what goes with an app.
LEMMA HoldsExists ==
    ASSUME NEW n, NEW R, NEW L, Tree(n, R, L)
    PROVE  \E f : Holds(f, n, R)
<1> DEFINE Sub(k) == ToSet(R[k]) \cap 1..n
           Up(f, k) == {k} \cup UNION {f[j] : j \in Sub(k)}
           Ok(f, m) == f = [k \in 1..n |-> f[k]] /\ \A k \in m..n : f[k] = Up(f, k)
           T == {m \in 1..n : ~ \E f : Ok(f, m)}
<1>0. n \in Nat /\ 1 \in 1..n
    BY DEF Tree
<1>1. T = {}
    <2>1. SUFFICES ASSUME T # {} PROVE FALSE
        OBVIOUS
    <2>2. PICK m \in T : \A k \in T : k <= m
        <3> HIDE DEF T
        <3>1. T \in SUBSET (1..n)
            BY DEF T
        <3> QED
            BY <1>0, <2>1, <3>1, HasNewest
    <2>3. m \in 1..n /\ m + 1 \notin T
        <3>1. m \in 1..n
            OBVIOUS
        <3> HIDE DEF T
        <3> QED
            BY <1>0, <2>2, <3>1
    <2>4. PICK f : Ok(f, m + 1)
        <3>1. CASE m = n
            <4> DEFINE g == [k \in 1..n |-> k]
            <4>1. g = [k \in 1..n |-> g[k]] /\ \A k \in m + 1..n : g[k] = Up(g, k)
                <5>1. \A k \in m + 1..n : FALSE
                    BY <1>0, <3>1
                <5> QED
                    BY <5>1
            <4> QED
                BY <4>1
        <3>2. CASE m # n
            <4>1. m + 1 \in 1..n
                BY <1>0, <2>3, <3>2
            <4> QED
                BY <2>3, <4>1
        <3> QED
            BY <3>1, <3>2
    <2> DEFINE g == [k \in 1..n |-> IF k = m THEN Up(f, m) ELSE f[k]]
    <2>5. g = [k \in 1..n |-> g[k]]
        OBVIOUS
    <2>6. \A k \in 1..n : g[k] = IF k = m THEN Up(f, m) ELSE f[k]
        OBVIOUS
    <2> HIDE DEF g
    <2>7. ASSUME NEW k \in m..n PROVE g[k] = Up(g, k)
        <3>1. k \in 1..n
            BY <1>0, <2>3
        <3>2. \A j \in Sub(k) : j \in 1..n /\ j # m
            <4>1. ASSUME NEW j \in Sub(k) PROVE k < j
                <5>1. PICK i \in DOMAIN R[k] : j = R[k][i]
                    BY <4>1 DEF ToSet
                <5>2. i \in 1..Len(R[k])
                    BY <3>1, <5>1, LastRoute, LenProperties
                <5> QED
                    BY <3>1, <5>1, <5>2, <4>1 DEF Tree
            <4> QED
                BY <1>0, <2>3, <4>1
        <3> HIDE DEF Sub
        <3>3. \A j \in Sub(k) : g[j] = f[j]
            BY <2>6, <3>2
        <3>4. {g[j] : j \in Sub(k)} = {f[j] : j \in Sub(k)}
            BY <3>3
        <3>5. Up(g, k) = Up(f, k)
            BY <3>4
        <3>6. k # m => k \in m + 1..n
            BY <1>0, <2>3
        <3> QED
            BY <2>4, <2>6, <3>1, <3>5, <3>6
    <2>8. Ok(g, m)
        BY <2>5, <2>7
    <2> QED
        BY <2>2, <2>8
<1>2. PICK f : Ok(f, 1)
    BY <1>0, <1>1
<1>3. Holds(f, n, R)
    BY <1>2 DEF Holds
<1> QED
    BY <1>3

\* The app that is led to is there, and nothing covers it.
LEMMA LeadsTo ==
    ASSUME NEW n, NEW R, NEW L, Tree(n, R, L), NEW f, Leads(f, n, R),
           NEW k \in L
    PROVE  f[k] \in L /\ ~Covers(R[f[k]])
<1> DEFINE Good(m) == f[m] \in L /\ ~Covers(R[f[m]])
           T == {m \in L : ~Good(m)}
<1>0. n \in Nat /\ L \subseteq 1..n
    BY DEF Tree
<1>1. \A m \in L : f[m] = IF Covers(R[m]) THEN f[Last(R[m])] ELSE m
    BY <1>0 DEF Leads
<1>2. T = {}
    <2>1. SUFFICES ASSUME T # {} PROVE FALSE
        OBVIOUS
    <2>2. PICK m \in T : \A j \in T : j <= m
        <3>1. T \in SUBSET (1..n)
            BY <1>0
        <3> HIDE DEF T
        <3> QED
            BY <1>0, <2>1, <3>1, HasNewest
    <2>3. m \in L /\ m \in 1..n /\ ~Good(m)
        BY <1>0
    <2>4. Covers(R[m])
        BY <1>1, <2>3
    <2>5. Last(R[m]) \in L /\ Last(R[m]) \in 1..n /\ m < Last(R[m])
        BY <2>3, <2>4, LastRoute
    <2>6. ~Good(Last(R[m]))
        BY <1>1, <2>3, <2>4
    <2>7. Last(R[m]) \in T
        BY <2>5, <2>6
    <2> HIDE DEF T
    <2>8. Last(R[m]) <= m
        BY <2>2, <2>7
    <2> QED
        BY <1>0, <2>3, <2>5, <2>8
<1> QED
    BY <1>2

\* If the routes of no app but k change, the screen stays or becomes that of
\* k; if theirs do not change either, it stays.
LEMMA LeadsOn ==
    ASSUME NEW n, NEW R, NEW L, Tree(n, R, L), NEW f, Leads(f, n, R),
           NEW R2, NEW g, Leads(g, n, R2), NEW k,
           \A m \in 1..n : m # k => R2[m] = R[m],
           k \in 1..n => ~Covers(R2[k])
    PROVE  g[1] \in {f[1], k}
<1> DEFINE T == {m \in 1..n : g[m] \notin {f[m], k}}
<1>0. n \in Nat /\ 1 \in 1..n
    BY DEF Tree
<1>1. T = {}
    <2>1. SUFFICES ASSUME T # {} PROVE FALSE
        OBVIOUS
    <2>2. PICK m \in T : \A j \in T : j <= m
        <3>1. T \in SUBSET (1..n)
            BY <1>0
        <3> HIDE DEF T
        <3> QED
            BY <1>0, <2>1, <3>1, HasNewest
    <2>3. m \in 1..n /\ g[m] \notin {f[m], k}
        OBVIOUS
    <2>4. /\ f[m] = IF Covers(R[m]) THEN f[Last(R[m])] ELSE m
          /\ g[m] = IF Covers(R2[m]) THEN g[Last(R2[m])] ELSE m
        BY <2>3 DEF Leads
    <2>5. m # k /\ R2[m] = R[m]
        BY <2>3, <2>4
    <2>6. Covers(R[m])
        BY <2>3, <2>4, <2>5
    <2>7. Last(R[m]) \in 1..n /\ m < Last(R[m])
        BY <2>3, <2>6, LastRoute
    <2>8. Last(R[m]) \in T
        BY <2>3, <2>4, <2>5, <2>6, <2>7
    <2> HIDE DEF T
    <2>9. Last(R[m]) <= m
        BY <2>2, <2>8
    <2> QED
        BY <1>0, <2>3, <2>7, <2>9
<1> QED
    BY <1>0, <1>1

\* If the routes do not change, the screen is the same.
LEMMA LeadsSame ==
    ASSUME NEW n, NEW R, NEW L, Tree(n, R, L), NEW f, Leads(f, n, R),
           NEW g, Leads(g, n, R)
    PROVE  g[1] = f[1]
<1>1. g[1] \in {f[1], f[1]}
    <2> DEFINE k == f[1]
    <2>1. k \in L /\ ~Covers(R[k])
        BY LeadsTo DEF Tree
    <2> HIDE DEF k
    <2>2. g[1] \in {f[1], k}
        BY <2>1, LeadsOn
    <2> QED
        BY <2>2 DEF k
<1> QED
    BY <1>1

\* An app that is pushed on the first one, or on the one on the screen, is on
\* the screen.
LEMMA LeadsPushed ==
    ASSUME NEW n, NEW R, NEW L, Tree(n, R, L), NEW f, Leads(f, n, R),
           NEW R2, NEW g, Leads(g, n + 1, R2), NEW k, k \in {1, f[1]},
           OnlyAt(n, k, R, R2),
           Covers(R2[k]), Last(R2[k]) = n + 1, ~Covers(R2[n + 1])
    PROVE  g[1] = n + 1
<1> DEFINE T == {m \in 1..n : f[m] = k /\ g[m] # n + 1}
<1>0. n \in Nat /\ 1 \in 1..n /\ L \subseteq 1..n /\ 1 \in L
    BY DEF Tree
<1>1. g[n + 1] = n + 1 /\ k \in 1..n /\ g[k] = n + 1
    <2>1. k \in 1..n
        BY <1>0, LeadsTo
    <2>2. n + 1 \in 1..n + 1 /\ k \in 1..n + 1
        BY <1>0, <2>1
    <2>3. /\ g[n + 1] = IF Covers(R2[n + 1]) THEN g[Last(R2[n + 1])] ELSE n + 1
          /\ g[k] = IF Covers(R2[k]) THEN g[Last(R2[k])] ELSE k
        BY <2>2 DEF Leads
    <2> QED
        BY <2>1, <2>3
<1>2. T = {}
    <2>1. SUFFICES ASSUME T # {} PROVE FALSE
        OBVIOUS
    <2>2. PICK m \in T : \A j \in T : j <= m
        <3>1. T \in SUBSET (1..n)
            BY <1>0
        <3> HIDE DEF T
        <3> QED
            BY <1>0, <2>1, <3>1, HasNewest
    <2>3. m \in 1..n /\ m \in 1..n + 1 /\ f[m] = k /\ g[m] # n + 1
        BY <1>0
    <2>4. /\ f[m] = IF Covers(R[m]) THEN f[Last(R[m])] ELSE m
          /\ g[m] = IF Covers(R2[m]) THEN g[Last(R2[m])] ELSE m
        BY <2>3 DEF Leads
    <2>5. m # k /\ R2[m] = R[m]
        BY <1>1, <2>3 DEF OnlyAt
    <2>6. Covers(R[m])
        BY <2>3, <2>4, <2>5
    <2>7. Last(R[m]) \in 1..n /\ m < Last(R[m])
        BY <2>3, <2>6, LastRoute
    <2>8. Last(R[m]) \in T
        BY <2>3, <2>4, <2>5, <2>6, <2>7
    <2> HIDE DEF T
    <2>9. Last(R[m]) <= m
        BY <2>2, <2>8
    <2> QED
        BY <1>0, <2>3, <2>7, <2>9
<1> QED
    BY <1>0, <1>1, <1>2

\* The routes of an app as a set.
LEMMA RoutesAre ==
    ASSUME NEW n, NEW R, NEW L, Tree(n, R, L), NEW k \in 1..n, NEW j
    PROVE  j \in ToSet(R[k]) \cap 1..n <=>
               j \in 1..n /\ \E i \in 1..Len(R[k]) : R[k][i] = j
<1>1. DOMAIN R[k] = 1..Len(R[k])
    BY LastRoute, LenProperties
<1> QED
    BY <1>1 DEF ToSet

\* What goes with an app: the app, what lies on the routes of what goes with
\* it, and nothing else; all of it is newer.
LEMMA HoldsAll ==
    ASSUME NEW n, NEW R, NEW L, Tree(n, R, L), NEW f, Holds(f, n, R),
           NEW r \in 1..n
    PROVE  /\ f[r] \subseteq 1..n /\ r \in f[r]
           /\ \A j \in f[r] : r <= j
           /\ \A k \in f[r] : \A j \in ToSet(R[k]) \cap 1..n : j \in f[r]
           /\ \A j \in f[r] : j # r =>
                  \E k \in f[r] : j \in ToSet(R[k]) \cap 1..n
<1> DEFINE Sub(k) == ToSet(R[k]) \cap 1..n
           Good(m) ==
               /\ f[m] \subseteq 1..n
               /\ \A j \in f[m] : m <= j
               /\ \A k \in f[m] : \A j \in Sub(k) : j \in f[m]
               /\ \A j \in f[m] : j # m => \E k \in f[m] : j \in Sub(k)
           T == {m \in 1..n : ~Good(m)}
<1>0. n \in Nat
    BY DEF Tree
<1>1. \A m \in 1..n : f[m] = {m} \cup UNION {f[j] : j \in Sub(m)}
    BY DEF Holds
<1>2. ASSUME NEW m \in 1..n, NEW j \in Sub(m) PROVE m < j /\ j \in 1..n
    <2>1. m \in 1..n /\ j \in ToSet(R[m]) \cap 1..n
        BY <1>2
    <2> HIDE DEF Sub, Good, T
    <2>2. R[m] \in Seq(Int)
        BY <2>1 DEF Tree
    <2>3. DOMAIN R[m] = 1..Len(R[m])
        BY <2>2, LenProperties
    <2>4. PICK i \in 1..Len(R[m]) : R[m][i] = j
        BY <2>1, <2>3 DEF ToSet
    <2>5. R[m][i] > 0 => m < R[m][i]
        BY <2>1 DEF Tree
    <2> QED
        BY <1>0, <2>1, <2>4, <2>5
<1>3. T = {}
    <2>1. SUFFICES ASSUME T # {} PROVE FALSE
        OBVIOUS
    <2>2. PICK m \in T : \A j \in T : j <= m
        <3>1. T \in SUBSET (1..n)
            BY <1>0
        <3> HIDE DEF T
        <3> QED
            BY <1>0, <2>1, <3>1, HasNewest
    <2>3. m \in 1..n /\ ~Good(m)
        OBVIOUS
    <2>4. ASSUME NEW c \in Sub(m) PROVE Good(c) /\ m < c /\ c \in 1..n
        <3>1. m < c /\ c \in 1..n
            BY <1>2, <2>3, <2>4
        <3>2. c \notin T
            <4> HIDE DEF T
            <4> QED
                BY <1>0, <2>2, <2>3, <3>1
        <3> QED
            BY <3>1, <3>2
    <2> HIDE DEF T, Sub
    <2>5. \A j : j \in f[m] <=> j = m \/ \E c \in Sub(m) : j \in f[c]
        BY <1>1, <2>3
    <2>6. f[m] \subseteq 1..n
        BY <2>3, <2>4, <2>5
    <2>7. \A j \in f[m] : m <= j
        <3>1. SUFFICES ASSUME NEW c \in Sub(m), NEW j \in f[c] PROVE m <= j
            BY <2>3, <2>5
        <3>2. c <= j /\ m < c /\ j \in 1..n /\ c \in 1..n
            BY <2>4
        <3> QED
            BY <2>3, <3>2
    <2>8. ASSUME NEW k \in f[m], NEW j \in Sub(k) PROVE j \in f[m]
        <3>1. CASE k = m
            <4>1. j \in f[j]
                BY <1>1, <2>4, <2>8, <3>1
            <4> QED
                BY <2>5, <2>8, <3>1, <4>1
        <3>2. CASE k # m
            <4>1. PICK c \in Sub(m) : k \in f[c]
                BY <2>5, <3>2
            <4>2. j \in f[c]
                BY <2>4, <2>8, <4>1
            <4> QED
                BY <2>5, <4>1, <4>2
        <3> QED
            BY <3>1, <3>2
    <2>9. ASSUME NEW j \in f[m], j # m PROVE \E k \in f[m] : j \in Sub(k)
        <3>1. PICK c \in Sub(m) : j \in f[c]
            BY <2>5, <2>9
        <3>2. CASE j = c
            BY <2>5, <3>1, <3>2
        <3>3. CASE j # c
            <4>1. PICK k \in f[c] : j \in Sub(k)
                BY <2>4, <3>1, <3>3
            <4> QED
                BY <2>5, <3>1, <4>1
        <3> QED
            BY <3>2, <3>3
    <2> QED
        BY <2>3, <2>6, <2>7, <2>8, <2>9
<1>4. Good(r)
    BY <1>3
<1>5. r \in f[r]
    BY <1>1
<1> HIDE DEF Sub
<1> QED
    BY <1>4, <1>5 DEF Sub

\* An app that is there gets a page on top of its routes.
LEMMA TreePage ==
    ASSUME NEW n, NEW R, NEW L, Tree(n, R, L), NEW k \in L,
           NEW p \in Int, p <= 0
    PROVE  Tree(n, [R EXCEPT ![k] = Append(@, p)], L)
<1> DEFINE R2 == [R EXCEPT ![k] = Append(R[k], p)]
<1>0. n \in Nat /\ L \subseteq 1..n /\ k \in 1..n /\ 1 \in L
      /\ R \in [1..n -> Seq(Int)]
    BY DEF Tree
<1>1. R[k] \in Seq(Int) /\ Len(R[k]) \in Nat
    BY <1>0, LenProperties
<1>2. /\ Append(R[k], p) \in Seq(Int) /\ Len(Append(R[k], p)) = Len(R[k]) + 1
      /\ \A i \in 1..Len(R[k]) : Append(R[k], p)[i] = R[k][i]
      /\ Append(R[k], p)[Len(R[k]) + 1] = p
    BY <1>1, AppendProperties
<1>3. R2 \in [1..n -> Seq(Int)] /\ R2[k] = Append(R[k], p)
      /\ \A m \in 1..n : m # k => R2[m] = R[m]
    BY <1>0, <1>2
<1> HIDE DEF R2
<1>4. ASSUME NEW m \in 1..n, NEW i \in 1..Len(R2[m])
      PROVE  \/ i \in 1..Len(R[m]) /\ R2[m][i] = R[m][i]
             \/ R2[m][i] <= 0
    <2>1. CASE m # k
        <3>1. R2[m] = R[m]
            BY <1>3, <2>1
        <3> QED
            BY <1>4, <3>1
    <2>2. CASE m = k
        <3>1. i \in 1..Len(R[k]) + 1
            BY <1>2, <1>3, <1>4, <2>2
        <3>2. i \in 1..Len(R[k]) \/ i = Len(R[k]) + 1
            BY <1>1, <3>1
        <3> QED
            BY <1>2, <1>3, <2>2, <3>2
    <2> QED
        BY <2>1, <2>2
<1>5. ASSUME NEW m \in 1..n, NEW i \in 1..Len(R[m])
      PROVE  i \in 1..Len(R2[m]) /\ R2[m][i] = R[m][i]
    <2>1. CASE m # k
        <3>1. R2[m] = R[m]
            BY <1>3, <2>1
        <3> QED
            BY <1>5, <3>1
    <2>2. CASE m = k
        <3>1. i \in 1..Len(R[k]) /\ i \in 1..Len(R[k]) + 1
            BY <1>1, <1>5, <2>2
        <3> QED
            BY <1>2, <1>3, <2>2, <3>1
    <2> QED
        BY <2>1, <2>2
<1>6. ASSUME NEW m \in 1..n, NEW i \in 1..Len(R2[m]), R2[m][i] > 0
      PROVE  /\ m \in L /\ R2[m][i] \in L /\ m < R2[m][i]
             /\ \A l \in 1..n : \A j \in 1..Len(R2[l]) :
                    R2[l][j] = R2[m][i] => l = m /\ j = i
    <2>1. R2[m][i] \in Int
        BY <1>3, <1>6, LenProperties
    <2>2. i \in 1..Len(R[m]) /\ R2[m][i] = R[m][i]
        BY <1>4, <1>6, <2>1
    <2>3. /\ m \in L /\ R[m][i] \in L /\ m < R[m][i]
          /\ \A l \in 1..n : \A j \in 1..Len(R[l]) :
                 R[l][j] = R[m][i] => l = m /\ j = i
        BY <1>6, <2>2 DEF Tree
    <2>4. ASSUME NEW l \in 1..n, NEW j \in 1..Len(R2[l]), R2[l][j] = R2[m][i]
          PROVE  l = m /\ j = i
        <3>1. j \in 1..Len(R[l]) /\ R2[l][j] = R[l][j]
            BY <1>4, <1>6, <2>1, <2>4
        <3> QED
            BY <2>2, <2>3, <2>4, <3>1
    <2> QED
        BY <2>2, <2>3, <2>4
<1>7. ASSUME NEW j \in L \ {1}
      PROVE  \E m \in 1..n : \E i \in 1..Len(R2[m]) : R2[m][i] = j
    <2>1. PICK m \in 1..n : \E i \in 1..Len(R[m]) : R[m][i] = j
        BY <1>7 DEF Tree
    <2> QED
        BY <1>5, <2>1
<1>8. \A m \in 1..n : m \notin L => R2[m] = <<>>
    BY <1>3 DEF Tree
<1>9. Tree(n, R2, L)
    BY <1>0, <1>3, <1>6, <1>7, <1>8 DEF Tree
<1> QED
    BY <1>9 DEF R2

\* An app that is there gets a new app on top of its routes.
LEMMA TreePush ==
    ASSUME NEW n, NEW R, NEW L, Tree(n, R, L), NEW k \in L,
           NEW R2 \in [1..n + 1 -> Seq(Int)],
           \A m \in 1..n : m # k => R2[m] = R[m],
           R2[k] = Append(R[k], n + 1), R2[n + 1] = <<>>
    PROVE  Tree(n + 1, R2, L \cup {n + 1})
<1>0. n \in Nat /\ L \subseteq 1..n /\ k \in 1..n /\ 1 \in L
      /\ R \in [1..n -> Seq(Int)]
    BY DEF Tree
<1>1. R[k] \in Seq(Int) /\ Len(R[k]) \in Nat /\ n + 1 \in Int
    BY <1>0, LenProperties
<1>2. /\ Len(R2[k]) = Len(R[k]) + 1
      /\ \A i \in 1..Len(R[k]) : R2[k][i] = R[k][i]
      /\ R2[k][Len(R[k]) + 1] = n + 1
    BY <1>1, AppendProperties
<1>3. \A m \in 1..n + 1 : m \in 1..n \/ m = n + 1
    BY <1>0
<1>4. ASSUME NEW m \in 1..n + 1, NEW i \in 1..Len(R2[m])
      PROVE  /\ m \in 1..n
             /\ \/ i \in 1..Len(R[m]) /\ R2[m][i] = R[m][i]
                \/ m = k /\ i = Len(R[k]) + 1 /\ R2[m][i] = n + 1
    <2>1. m # n + 1
        <3>1. SUFFICES ASSUME m = n + 1 PROVE FALSE
            OBVIOUS
        <3>2. R2[m] = <<>> /\ Len(<<>>) = 0
            BY <3>1
        <3>3. i \in 1..0
            BY <1>4, <3>2
        <3> QED
            BY <3>3
    <2>2. m \in 1..n
        BY <1>3, <2>1
    <2>3. CASE m # k
        <3>1. R2[m] = R[m]
            BY <2>2, <2>3
        <3> QED
            BY <1>4, <2>2, <3>1
    <2>4. CASE m = k
        <3>1. i \in 1..Len(R[k]) + 1
            BY <1>2, <1>4, <2>4
        <3>2. i \in 1..Len(R[k]) \/ i = Len(R[k]) + 1
            BY <1>1, <3>1
        <3> QED
            BY <1>2, <2>2, <2>4, <3>2
    <2> QED
        BY <2>3, <2>4
<1>5. ASSUME NEW m \in 1..n, NEW i \in 1..Len(R[m])
      PROVE  /\ m \in 1..n + 1 /\ i \in 1..Len(R2[m]) /\ R2[m][i] = R[m][i]
             /\ R[m][i] > 0 => R[m][i] # n + 1
    <2>1. m \in 1..n + 1
        BY <1>0
    <2>2. i \in 1..Len(R2[m]) /\ R2[m][i] = R[m][i]
        <3>1. CASE m # k
            <4>1. R2[m] = R[m]
                BY <3>1
            <4> QED
                BY <1>5, <4>1
        <3>2. CASE m = k
            <4>1. i \in 1..Len(R[k]) /\ i \in 1..Len(R[k]) + 1
                BY <1>1, <1>5, <3>2
            <4> QED
                BY <1>2, <3>2, <4>1
        <3> QED
            BY <3>1, <3>2
    <2>3. R[m][i] > 0 => R[m][i] \in 1..n
        BY <1>0 DEF Tree
    <2>4. n + 1 \notin 1..n
        BY <1>0
    <2> QED
        BY <2>1, <2>2, <2>3, <2>4
<1>6. ASSUME NEW m \in 1..n + 1, NEW i \in 1..Len(R2[m]), R2[m][i] > 0
      PROVE  /\ m \in L /\ R2[m][i] \in L \cup {n + 1} /\ m < R2[m][i]
             /\ \A l \in 1..n + 1 : \A j \in 1..Len(R2[l]) :
                    R2[l][j] = R2[m][i] => l = m /\ j = i
    <2>1. CASE i \in 1..Len(R[m]) /\ R2[m][i] = R[m][i]
        <3>1. m \in 1..n
            BY <1>4, <1>6
        <3>2. /\ m \in L /\ R[m][i] \in L /\ m < R[m][i]
              /\ \A l \in 1..n : \A j \in 1..Len(R[l]) :
                     R[l][j] = R[m][i] => l = m /\ j = i
            BY <1>6, <2>1, <3>1 DEF Tree
        <3>3. ASSUME NEW l \in 1..n + 1, NEW j \in 1..Len(R2[l]),
                     R2[l][j] = R2[m][i]
              PROVE  l = m /\ j = i
            <4>1. R[m][i] # n + 1
                BY <1>5, <1>6, <2>1, <3>1
            <4>2. l \in 1..n /\ j \in 1..Len(R[l]) /\ R2[l][j] = R[l][j]
                BY <1>4, <2>1, <3>3, <4>1
            <4> QED
                BY <2>1, <3>2, <3>3, <4>2
        <3> QED
            BY <2>1, <3>2, <3>3
    <2>2. CASE m = k /\ i = Len(R[k]) + 1 /\ R2[m][i] = n + 1
        <3>1. ASSUME NEW l \in 1..n + 1, NEW j \in 1..Len(R2[l]),
                     R2[l][j] = n + 1
              PROVE  l = k /\ j = Len(R[k]) + 1
            <4>1. l \in 1..n
                BY <1>4, <3>1
            <4>2. ASSUME j \in 1..Len(R[l]), R2[l][j] = R[l][j] PROVE FALSE
                <5>1. R[l][j] = n + 1 /\ n + 1 > 0
                    BY <1>0, <3>1, <4>2
                <5> QED
                    BY <1>5, <4>1, <4>2, <5>1
            <4> QED
                BY <1>4, <3>1, <4>2
        <3>2. m \in L /\ m < n + 1
            BY <1>0, <2>2
        <3> QED
            BY <2>2, <3>1, <3>2
    <2> QED
        BY <1>4, <1>6, <2>1, <2>2
<1>7. ASSUME NEW j \in (L \cup {n + 1}) \ {1}
      PROVE  \E m \in 1..n + 1 : \E i \in 1..Len(R2[m]) : R2[m][i] = j
    <2>1. CASE j = n + 1
        <3>1. k \in 1..n + 1 /\ Len(R[k]) + 1 \in 1..Len(R2[k])
            BY <1>0, <1>1, <1>2
        <3> QED
            BY <1>2, <2>1, <3>1
    <2>2. CASE j # n + 1
        <3>1. PICK m \in 1..n : \E i \in 1..Len(R[m]) : R[m][i] = j
            BY <1>7, <2>2 DEF Tree
        <3> QED
            BY <1>5, <3>1
    <2> QED
        BY <2>1, <2>2
<1>8. \A m \in 1..n + 1 : m \notin L \cup {n + 1} => R2[m] = <<>>
    <2>1. SUFFICES ASSUME NEW m \in 1..n + 1, m \notin L \cup {n + 1}
                   PROVE  R2[m] = <<>>
        OBVIOUS
    <2>2. m \in 1..n /\ m # k
        BY <1>3, <2>1
    <2> QED
        BY <2>1, <2>2 DEF Tree
<1>9. n + 1 \in Nat /\ 1 \in L \cup {n + 1} /\ L \cup {n + 1} \subseteq 1..n + 1
    <2>1. n + 1 \in Nat /\ n + 1 \in 1..n + 1 /\ 1..n \subseteq 1..n + 1
        BY <1>0
    <2> QED
        BY <1>0, <2>1
<1>10. R2 \in [1..n + 1 -> Seq(Int)]
    OBVIOUS
<1> QED
    BY <1>6, <1>7, <1>8, <1>9, <1>10, Zenon DEF Tree

\* A sequence without its last element.
LEMMA FrontIs ==
    ASSUME NEW s \in Seq(Int), s # <<>>
    PROVE  /\ Front(s) \in Seq(Int) /\ Len(s) \in Nat /\ Len(s) >= 1
           /\ Len(Front(s)) = Len(s) - 1
           /\ \A i \in 1..Len(s) - 1 : Front(s)[i] = s[i]
<1>1. Len(s) \in Nat /\ Len(s) >= 1
    <2>1. Len(s) \in Nat /\ Len(s) # 0
        BY EmptySeq, LenProperties
    <2> QED
        BY <2>1
<1>2. \A i \in 1..Len(s) - 1 : s[i] \in Int
    BY <1>1, LenProperties
<1> DEFINE m == Len(s) - 1
<1>3. Front(s) = SubSeq(s, 1, m) /\ m \in Nat
    BY <1>1 DEF Front
<1>4. /\ SubSeq(s, 1, m) \in Seq(Int)
      /\ Len(SubSeq(s, 1, m)) = IF 1 <= m THEN m - 1 + 1 ELSE 0
      /\ \A i \in 1..m - 1 + 1 : SubSeq(s, 1, m)[i] = s[1 + i - 1]
    BY <1>2, <1>3, SubSeqProperties
<1>5. Len(SubSeq(s, 1, m)) = m
    <2> HIDE DEF m
    <2> QED
        BY <1>3, <1>4
<1>6. ASSUME NEW i \in 1..m PROVE SubSeq(s, 1, m)[i] = s[i]
    BY <1>3, <1>4
<1> QED
    BY <1>1, <1>3, <1>4, <1>5, <1>6

\* An app that is there loses its last route, and the apps that go with it.
LEMMA TreeBack ==
    ASSUME NEW n, NEW R, NEW L, Tree(n, R, L), NEW k \in L, R[k] # <<>>,
           NEW f, Holds(f, n, R), NEW gone,
           gone = Goes(f, R[k]),
           NEW R2 \in [1..n -> Seq(Int)], LosesLast(n, k, gone, R, R2)
    PROVE  Tree(n, R2, L \ gone)
<1> USE DEF Goes, LosesLast
<1> DEFINE r == Last(R[k])
           e == Len(R[k])
<1>0. n \in Nat /\ L \subseteq 1..n /\ k \in 1..n /\ 1 \in L
      /\ R \in [1..n -> Seq(Int)]
    BY DEF Tree
<1>1. /\ R[k] \in Seq(Int) /\ e \in 1..e /\ e \in Nat /\ r = R[k][e] /\ r \in Int
      /\ r > 0 => r \in 1..n /\ k < r
    BY <1>0, LastRoute DEF Covers
<1>2. /\ Len(Front(R[k])) = e - 1
      /\ \A i \in 1..e - 1 : Front(R[k])[i] = R[k][i]
    BY <1>1, FrontIs
<1> DEFINE On(m, j) == \E i \in 1..Len(R[m]) : R[m][i] = j
<1>3. /\ gone \subseteq 1..n
      /\ \A j \in gone : k < j
      /\ \A m \in gone : \A j \in 1..n : On(m, j) => j \in gone
      /\ \A j \in gone : j = r \/ \E m \in gone : On(m, j)
    <2>1. CASE r > 0
        <3>1. /\ gone \subseteq 1..n
              /\ \A j \in gone : r <= j
              /\ \A m \in gone : \A j \in ToSet(R[m]) \cap 1..n : j \in gone
              /\ \A j \in gone : j # r =>
                     \E m \in gone : j \in ToSet(R[m]) \cap 1..n
            BY <1>1, <2>1, HoldsAll
        <3>2. \A m \in gone : \A j :
                  j \in ToSet(R[m]) \cap 1..n <=> j \in 1..n /\ On(m, j)
            BY <3>1, RoutesAre
        <3>3. \A j \in gone : k < j
            BY <1>0, <1>1, <2>1, <3>1
        <3> QED
            BY <3>1, <3>2, <3>3
    <2>2. CASE ~(r > 0)
        BY <2>2
    <2> QED
        BY <2>1, <2>2
<1>4. k \notin gone /\ 1 \notin gone /\ (r > 0 => r \in gone)
    <2>1. k \notin gone /\ 1 \notin gone
        BY <1>0, <1>3
    <2>2. r > 0 => r \in gone
        BY <1>1, HoldsAll
    <2> QED
        BY <2>1, <2>2
<1> HIDE DEF r, e
<1>5. ASSUME NEW m \in 1..n, NEW i \in 1..Len(R2[m])
      PROVE  /\ i \in 1..Len(R[m]) /\ R2[m][i] = R[m][i] /\ m \notin gone
             /\ ~(m = k /\ i = e)
    <2>1. m \notin gone
        BY <1>5
    <2>2. CASE m # k
        <3>1. R2[m] = R[m]
            BY <1>5, <2>1, <2>2
        <3> QED
            BY <1>5, <2>1, <2>2, <3>1
    <2>3. CASE m = k
        <3>1. R2[m] = Front(R[k])
            BY <1>5, <2>1, <2>3
        <3>2. i \in 1..e - 1
            BY <1>2, <1>5, <3>1
        <3>3. R2[m][i] = R[k][i]
            BY <1>2, <3>1, <3>2
        <3>4. i \in 1..e /\ i # e
            BY <1>1, <3>2
        <3> QED
            BY <2>1, <2>3, <3>3, <3>4 DEF e
    <2> QED
        BY <2>2, <2>3
<1>6. ASSUME NEW m \in 1..n, m \notin gone, NEW i \in 1..Len(R[m]),
             ~(m = k /\ i = e)
      PROVE  i \in 1..Len(R2[m]) /\ R2[m][i] = R[m][i]
    <2>1. CASE m # k
        <3>1. R2[m] = R[m]
            BY <1>6, <2>1
        <3> QED
            BY <1>6, <3>1
    <2>2. CASE m = k
        <3>1. R2[m] = Front(R[k]) /\ i \in 1..Len(R[k]) /\ i # e
            BY <1>6, <2>2
        <3>2. i \in 1..e - 1
            BY <1>1, <3>1 DEF e
        <3> QED
            BY <1>2, <2>2, <3>1, <3>2
    <2> QED
        BY <2>1, <2>2
<1>7. ASSUME NEW m \in 1..n, NEW i \in 1..Len(R2[m]), R2[m][i] > 0
      PROVE  /\ m \in L \ gone /\ R2[m][i] \in L \ gone /\ m < R2[m][i]
             /\ \A l \in 1..n : \A j \in 1..Len(R2[l]) :
                    R2[l][j] = R2[m][i] => l = m /\ j = i
    <2>1. /\ i \in 1..Len(R[m]) /\ R2[m][i] = R[m][i] /\ m \notin gone
          /\ ~(m = k /\ i = e)
        BY <1>5, <1>7
    <2>2. /\ m \in L /\ R[m][i] \in L /\ m < R[m][i]
          /\ \A l \in 1..n : \A j \in 1..Len(R[l]) :
                 R[l][j] = R[m][i] => l = m /\ j = i
        BY <1>7, <2>1 DEF Tree
    <2>3. R[m][i] \notin gone
        <3>1. SUFFICES ASSUME R[m][i] \in gone PROVE FALSE
            OBVIOUS
        <3>2. R[m][i] # r
            BY <1>0, <1>1, <2>1, <2>2 DEF e
        <3>3. PICK l \in gone : On(l, R[m][i])
            BY <1>3, <3>1, <3>2
        <3>4. l = m
            BY <1>3, <2>2, <3>3
        <3> QED
            BY <2>1, <3>4
    <2>4. ASSUME NEW l \in 1..n, NEW j \in 1..Len(R2[l]), R2[l][j] = R2[m][i]
          PROVE  l = m /\ j = i
        <3>1. j \in 1..Len(R[l]) /\ R2[l][j] = R[l][j]
            BY <1>5, <2>4
        <3> QED
            BY <2>1, <2>2, <2>4, <3>1
    <2> QED
        BY <2>1, <2>2, <2>3, <2>4
<1>8. ASSUME NEW j \in (L \ gone) \ {1}
      PROVE  \E m \in 1..n : \E i \in 1..Len(R2[m]) : R2[m][i] = j
    <2>1. PICK m \in 1..n : \E i \in 1..Len(R[m]) : R[m][i] = j
        BY <1>8 DEF Tree
    <2>2. PICK i \in 1..Len(R[m]) : R[m][i] = j
        BY <2>1
    <2>3. j \in 1..n /\ j > 0
        BY <1>0
    <2>4. m \notin gone
        BY <1>3, <1>8, <2>2, <2>3
    <2>5. ~(m = k /\ i = e)
        BY <1>1, <1>4, <1>8, <2>2, <2>3
    <2> QED
        BY <1>6, <2>2, <2>4, <2>5
<1>9. ASSUME NEW m \in 1..n, m \notin L \ gone PROVE R2[m] = <<>>
    <2>1. m \in gone \/ (m \notin L /\ m # k)
        BY <1>9
    <2> QED
        BY <2>1 DEF Tree
<1> QED
    BY <1>0, <1>4, <1>7, <1>8, <1>9 DEF Tree

\* The first app alone.
LEMMA TreeFirst ==
    ASSUME NEW R, R = [k \in 1..1 |-> <<>>]
    PROVE  Tree(1, R, {1})
<1>1. \A k \in 1..1 : R[k] = <<>>
    OBVIOUS
<1>2. R \in [1..1 -> Seq(Int)]
    OBVIOUS
<1>3. Len(<<>>) = 0
    OBVIOUS
<1> QED
    BY <1>1, <1>2, <1>3 DEF Tree

-----------------------------------------------------------------------------
(* The tree of a list of apps, and the app on the screen.                  *)

Routes(xs) == [k \in 1..Len(xs) |-> xs[k].routes]
There(xs) == {k \in 1..Len(xs) : xs[k].live}
IsTree(xs) == Tree(Len(xs), Routes(xs), There(xs))

\* Top and Covered, of any list of apps.
TopIn(xs) ==
    LET top[k \in DOMAIN xs] ==
            IF xs[k].routes # <<>> /\ Last(xs[k].routes) > 0
            THEN top[Last(xs[k].routes)] ELSE k
    IN  top[1]
CoveredIn(xs, r) ==
    LET on[k \in DOMAIN xs] ==
            {k} \cup UNION {on[j] : j \in ToSet(xs[k].routes) \cap DOMAIN xs}
    IN  IF r > 0 THEN on[r] ELSE {}

LEMMA OneLonger ==
    ASSUME NEW n \in Nat
    PROVE  1..n + 1 = 1..n \cup {n + 1}
<1>1. \A m : m \in 1..n + 1 <=> m \in 1..n \cup {n + 1}
    OBVIOUS
<1> QED
    BY <1>1

LEMMA TopOfApps == Top = TopIn(apps) /\ Top' = TopIn(apps')
BY DEF Top, TopIn

\* The equations that their functions solve.
TopStep(xs, f) ==
    [k \in DOMAIN xs |-> IF xs[k].routes # <<>> /\ Last(xs[k].routes) > 0
                         THEN f[Last(xs[k].routes)] ELSE k]
OnStep(xs, f) ==
    [k \in DOMAIN xs |->
        {k} \cup UNION {f[j] : j \in ToSet(xs[k].routes) \cap DOMAIN xs}]

LEMMA TopInIs ==
    ASSUME NEW xs
    PROVE  TopIn(xs) = (CHOOSE f : f = TopStep(xs, f))[1]
BY DEF TopIn, TopStep

LEMMA CoveredInIs ==
    ASSUME NEW xs, NEW r
    PROVE  CoveredIn(xs, r) =
               IF r > 0 THEN (CHOOSE f : f = OnStep(xs, f))[r] ELSE {}
BY DEF CoveredIn, OnStep

LEMMA CoveredOfApps == \A r : Covered(r) = CoveredIn(apps, r)
BY DEF Covered, CoveredIn

LEMMA ListOf ==
    ASSUME NEW xs \in Seq(App)
    PROVE  /\ Len(xs) \in Nat /\ DOMAIN xs = 1..Len(xs)
           /\ \A k \in 1..Len(xs) : /\ xs[k] \in App
                                    /\ xs[k].routes \in Seq(-1..MaxApps)
                                    /\ xs[k].routes \in Seq(Int)
                                    /\ Routes(xs)[k] = xs[k].routes
           /\ Routes(xs) \in [1..Len(xs) -> Seq(Int)]
<1>1. Len(xs) \in Nat /\ DOMAIN xs = 1..Len(xs)
    BY LenProperties
<1>2. ASSUME NEW k \in 1..Len(xs)
      PROVE  /\ xs[k] \in App /\ xs[k].routes \in Seq(-1..MaxApps)
             /\ xs[k].routes \in Seq(Int) /\ Routes(xs)[k] = xs[k].routes
    <2>1. xs[k] \in App
        BY <1>1, <1>2, LenProperties
    <2>2. xs[k].routes \in Seq(-1..MaxApps)
        BY <2>1 DEF App
    <2>3. -1..MaxApps \subseteq Int
        BY GateAssumption
    <2>4. xs[k].routes \in Seq(Int)
        <3> DEFINE s == xs[k].routes
        <3>1. /\ s \in Seq(-1..MaxApps) /\ Len(s) \in Nat
              /\ \A i \in 1..Len(s) : s[i] \in -1..MaxApps
            BY <2>2, LenProperties
        <3>2. s = [i \in 1..Len(s) |-> s[i]]
            BY <3>1
        <3>3. \A i \in 1..Len(s) : s[i] \in Int
            BY <2>3, <3>1
        <3> HIDE DEF s
        <3>4. s \in [1..Len(s) -> Int]
            BY <3>2, <3>3
        <3>5. s \in Seq(Int)
            BY <3>1, <3>4, SeqDef
        <3> QED
            BY <3>5 DEF s
    <2> QED
        BY <2>1, <2>2, <2>4 DEF Routes
<1>3. Routes(xs) \in [1..Len(xs) -> Seq(Int)]
    BY <1>2 DEF Routes
<1> QED
    BY <1>1, <1>2, <1>3

\* TopIn is what the routes lead to from the first app.
LEMMA TopLeads ==
    ASSUME NEW xs \in Seq(App), IsTree(xs)
    PROVE  \E f : Leads(f, Len(xs), Routes(xs)) /\ TopIn(xs) = f[1]
<1> DEFINE t == CHOOSE f : f = TopStep(xs, f)
<1>1. TopIn(xs) = t[1]
    BY TopInIs
<1>2. ASSUME NEW f PROVE f = TopStep(xs, f) <=> Leads(f, Len(xs), Routes(xs))
    <2> DEFINE R == Routes(xs)
               S == [k \in 1..Len(xs) |->
                        IF Covers(R[k]) THEN f[Last(R[k])] ELSE k]
    <2>1. DOMAIN xs = 1..Len(xs) /\ \A k \in 1..Len(xs) : R[k] = xs[k].routes
        BY ListOf
    <2> HIDE DEF R
    <2>2. TopStep(xs, f) = S
        BY <2>1 DEF Covers, TopStep
    <2> QED
        BY <2>2 DEF Leads, R
<1>3. \E f : f = TopStep(xs, f)
    BY <1>2, LeadsExists DEF IsTree
<1>4. t = TopStep(xs, t)
    BY <1>3
<1> QED
    BY <1>1, <1>2, <1>4

\* The app on the screen is there, and nothing covers it.
LEMMA TopThere ==
    ASSUME NEW xs \in Seq(App), IsTree(xs)
    PROVE  /\ TopIn(xs) \in There(xs) /\ TopIn(xs) \in 1..Len(xs)
           /\ xs[TopIn(xs)].live /\ ~Covers(xs[TopIn(xs)].routes)
           /\ 1 \in There(xs)
<1>1. PICK f : Leads(f, Len(xs), Routes(xs)) /\ TopIn(xs) = f[1]
    BY TopLeads
<1>2. 1 \in There(xs)
    BY DEF IsTree, Tree
<1>3. f[1] \in There(xs) /\ ~Covers(Routes(xs)[f[1]])
    BY <1>1, <1>2, LeadsTo DEF IsTree
<1>4. f[1] \in 1..Len(xs) /\ xs[f[1]].live
    BY <1>3 DEF There
<1> QED
    BY <1>1, <1>2, <1>3, <1>4, ListOf

\* Nothing that the tree is made of changes.
LEMMA SameTree ==
    ASSUME NEW xs \in Seq(App), IsTree(xs), NEW ys \in Seq(App),
           Len(ys) = Len(xs),
           \A k \in 1..Len(xs) : /\ ys[k].routes = xs[k].routes
                                 /\ ys[k].live = xs[k].live
    PROVE  /\ IsTree(ys) /\ TopIn(ys) = TopIn(xs)
           /\ ys[TopIn(ys)].routes = xs[TopIn(xs)].routes
<1>1. Routes(ys) = Routes(xs) /\ There(ys) = There(xs)
    BY DEF Routes, There
<1>2. IsTree(ys)
    BY <1>1 DEF IsTree
<1>3. PICK f : Leads(f, Len(xs), Routes(xs)) /\ TopIn(xs) = f[1]
    BY TopLeads
<1>4. PICK g : Leads(g, Len(xs), Routes(xs)) /\ TopIn(ys) = g[1]
    BY <1>1, <1>2, TopLeads
<1>5. g[1] = f[1]
    BY <1>3, <1>4, LeadsSame DEF IsTree
<1> QED
    BY <1>2, <1>3, <1>4, <1>5, TopThere

\* A page on top of the routes of an app that is there.
LEMMA PageTree ==
    ASSUME NEW xs \in Seq(App), IsTree(xs), NEW ys \in Seq(App),
           Len(ys) = Len(xs), NEW k \in There(xs), NEW p \in Int, p <= 0,
           ys[k].routes = Append(xs[k].routes, p),
           \A m \in 1..Len(xs) : /\ m # k => ys[m].routes = xs[m].routes
                                 /\ ys[m].live = xs[m].live
    PROVE  /\ IsTree(ys) /\ TopIn(ys) \in {TopIn(xs), k}
           /\ TopIn(ys) # k => ys[TopIn(ys)].routes = xs[TopIn(xs)].routes
           /\ ys[k].routes # <<>> /\ Last(ys[k].routes) = p
<1> DEFINE n == Len(xs)
<1>0. k \in 1..n /\ xs[k].routes \in Seq(Int) /\ There(ys) = There(xs)
    BY ListOf DEF There
<1>1. ys[k].routes # <<>> /\ Last(ys[k].routes) = p
    <2>1. /\ Len(ys[k].routes) = Len(xs[k].routes) + 1
          /\ ys[k].routes[Len(xs[k].routes) + 1] = p
          /\ ys[k].routes \in Seq(Int) /\ Len(xs[k].routes) \in Nat
        BY <1>0, AppendProperties, LenProperties
    <2>2. Len(ys[k].routes) # 0
        BY <2>1
    <2> QED
        BY <2>1, <2>2, EmptySeq DEF Last
<1>2. Routes(ys) = [Routes(xs) EXCEPT ![k] = Append(@, p)]
    <2> DEFINE R == Routes(xs)
               Q == Routes(ys)
    <2>1. /\ R = [m \in 1..n |-> R[m]] /\ Q = [m \in 1..n |-> Q[m]]
          /\ \A m \in 1..n : R[m] = xs[m].routes /\ Q[m] = ys[m].routes
        BY DEF Routes
    <2> HIDE DEF R, Q
    <2>2. \A m \in 1..n : Q[m] = [R EXCEPT ![k] = Append(R[k], p)][m]
        BY <1>0, <2>1
    <2>3. Q = [R EXCEPT ![k] = Append(R[k], p)]
        BY <2>1, <2>2
    <2> QED
        BY <2>3 DEF R, Q
<1>3. IsTree(ys)
    <2>1. Tree(n, Routes(xs), There(xs))
        BY DEF IsTree
    <2> HIDE DEF n
    <2>2. Tree(n, [Routes(xs) EXCEPT ![k] = Append(@, p)], There(xs))
        BY <2>1, TreePage
    <2> QED
        BY <1>0, <1>2, <2>2 DEF IsTree, n
<1>4. PICK f : Leads(f, n, Routes(xs)) /\ TopIn(xs) = f[1]
    BY TopLeads
<1>5. PICK g : Leads(g, n, Routes(ys)) /\ TopIn(ys) = g[1]
    BY <1>3, TopLeads
<1>6. g[1] \in {f[1], k}
    <2>1. ~Covers(Routes(ys)[k])
        <3>1. Routes(ys)[k] = ys[k].routes
            BY <1>0 DEF Routes
        <3>2. ~(p > 0)
            OBVIOUS
        <3>3. ~(Last(Routes(ys)[k]) > 0)
            BY <1>1, <3>1, <3>2
        <3> QED
            BY <3>3 DEF Covers
    <2>2. \A m \in 1..n : m # k => Routes(ys)[m] = Routes(xs)[m]
        BY ListOf
    <2> HIDE DEF n
    <2>3. Tree(n, Routes(xs), There(xs))
        BY DEF IsTree, n
    <2> QED
        BY <1>4, <1>5, <2>1, <2>2, <2>3, LeadsOn
<1>7. TopIn(xs) \in 1..n
    BY TopThere
<1> QED
    BY <1>1, <1>3, <1>4, <1>5, <1>6, <1>7

\* A new app on top of the routes of app k.
Pushes(xs, ys, k) ==
    /\ Len(ys) = Len(xs) + 1
    /\ ys[k].routes = Append(xs[k].routes, Len(xs) + 1)
    /\ \A m \in 1..Len(xs) : /\ m # k => ys[m].routes = xs[m].routes
                             /\ ys[m].live = xs[m].live
    /\ ys[Len(xs) + 1].routes = <<>>
    /\ ys[Len(xs) + 1].live

\* It is on the screen if it is pushed on the first app, or on the one that
\* was on the screen.
LEMMA PushTree ==
    ASSUME NEW xs \in Seq(App), IsTree(xs), NEW ys \in Seq(App),
           NEW k, k \in {1, TopIn(xs)}, Pushes(xs, ys, k)
    PROVE  IsTree(ys) /\ ys[TopIn(ys)].routes = <<>>
<1> USE DEF Pushes
<1> DEFINE n == Len(xs)
           R == Routes(xs)
           Q == Routes(ys)
<1>0. /\ n \in Nat /\ k \in There(xs) /\ k \in 1..n
      /\ n + 1 \in 1..n + 1 /\ 1..n \subseteq 1..n + 1
    <2>1. n \in Nat /\ k \in There(xs) /\ k \in 1..n
        BY ListOf, TopThere DEF There
    <2> QED
        BY <2>1
<1>1. /\ Q \in [1..n + 1 -> Seq(Int)] /\ R[k] \in Seq(Int)
      /\ \A m \in 1..n : m # k => Q[m] = R[m]
      /\ Q[k] = Append(R[k], n + 1) /\ Q[n + 1] = <<>>
    BY <1>0, ListOf
<1>2. There(ys) = There(xs) \cup {n + 1}
    <2>1. 1..n + 1 = 1..n \cup {n + 1}
        BY <1>0, OneLonger
    <2> QED
        BY <2>1 DEF There
<1>3. IsTree(ys)
    <2>1. Tree(n, R, There(xs))
        BY DEF IsTree
    <2> HIDE DEF n, R, Q
    <2>2. Tree(n + 1, Q, There(xs) \cup {n + 1})
        BY <1>0, <1>1, <2>1, TreePush
    <2> QED
        BY <1>2, <2>2 DEF IsTree, n, Q
<1>4. PICK f : Leads(f, n, R) /\ TopIn(xs) = f[1]
    BY TopLeads
<1>5. PICK g : Leads(g, n + 1, Q) /\ TopIn(ys) = g[1]
    BY <1>3, TopLeads
<1>6. g[1] = n + 1
    <2>1. Covers(Q[k]) /\ Last(Q[k]) = n + 1 /\ ~Covers(Q[n + 1])
        <3> HIDE DEF n, R, Q
        <3>1. /\ Len(Q[k]) = Len(R[k]) + 1 /\ Q[k][Len(R[k]) + 1] = n + 1
              /\ Len(R[k]) \in Nat
            BY <1>0, <1>1, AppendProperties, LenProperties
        <3>2. Q[k] # <<>>
            <4>1. Len(Q[k]) # 0 /\ Len(<<>>) = 0
                BY <3>1
            <4> QED
                BY <4>1
        <3>3. n + 1 > 0
            BY <1>0
        <3> QED
            BY <1>1, <3>1, <3>2, <3>3 DEF Covers, Last
    <2>2. Tree(n, R, There(xs)) /\ k \in {1, f[1]}
        BY <1>4 DEF IsTree
    <2> HIDE DEF n, R, Q
    <2>3. OnlyAt(n, k, R, Q)
        BY <1>1 DEF OnlyAt
    <2> QED
        BY <1>4, <1>5, <2>1, <2>2, <2>3, LeadsPushed
<1> QED
    BY <1>3, <1>5, <1>6

\* A list of one app without routes.
LEMMA FirstTree ==
    ASSUME NEW xs \in Seq(App), Len(xs) = 1, xs[1].routes = <<>>, xs[1].live
    PROVE  IsTree(xs) /\ xs[TopIn(xs)].routes = <<>>
<1>1. Routes(xs) = [k \in 1..1 |-> <<>>]
    <2>1. 1..1 = {1}
        OBVIOUS
    <2> QED
        BY <2>1 DEF Routes
<1>2. There(xs) = {1}
    BY DEF There
<1>3. IsTree(xs)
    BY <1>1, <1>2, TreeFirst DEF IsTree
<1>4. TopIn(xs) \in There(xs)
    BY <1>3, TopThere
<1> QED
    BY <1>2, <1>3, <1>4

\* The apps that are gone lose everything, app k its last route.
Cuts(xs, ys, k, gone) ==
    \A m \in 1..Len(xs) :
        /\ m \in gone => ys[m].routes = <<>> /\ ~ys[m].live
        /\ m \notin gone =>
               /\ ys[m].live = xs[m].live
               /\ ys[m].routes = IF m = k THEN Front(xs[m].routes)
                                 ELSE xs[m].routes

\* The last route of an app that is there goes, with all that is on it.
LEMMA BackTree ==
    ASSUME NEW xs \in Seq(App), IsTree(xs), NEW ys \in Seq(App),
           Len(ys) = Len(xs), NEW k \in There(xs), xs[k].routes # <<>>,
           NEW gone, gone = CoveredIn(xs, Last(xs[k].routes)),
           Cuts(xs, ys, k, gone)
    PROVE  IsTree(ys)
<1> DEFINE n == Len(xs)
           R == Routes(xs)
           Q == Routes(ys)
           h == CHOOSE f : f = OnStep(xs, f)
<1>0. /\ DOMAIN xs = 1..n /\ k \in 1..n /\ Tree(n, R, There(xs))
      /\ Q \in [1..n -> Seq(Int)]
      /\ \A m \in 1..n : R[m] = xs[m].routes /\ Q[m] = ys[m].routes
    BY ListOf DEF There, IsTree
<1>1. gone = Goes(h, R[k])
    <2>1. gone = IF Last(xs[k].routes) > 0 THEN h[Last(xs[k].routes)] ELSE {}
        BY CoveredInIs
    <2>2. R[k] = xs[k].routes
        BY <1>0
    <2> HIDE DEF h, R
    <2> QED
        BY <2>1, <2>2 DEF Goes
<1>2. ASSUME NEW f PROVE f = OnStep(xs, f) <=> Holds(f, n, R)
    <2> HIDE DEF R, n, Q
    <2>1. \A m \in 1..n : ToSet(xs[m].routes) \cap DOMAIN xs = ToSet(R[m]) \cap 1..n
        BY <1>0
    <2>2. OnStep(xs, f) = [m \in 1..n |->
                        {m} \cup UNION {f[j] : j \in ToSet(R[m]) \cap 1..n}]
        BY <1>0, <2>1 DEF OnStep
    <2> QED
        BY <2>2 DEF Holds
<1> HIDE DEF R, Q, n
<1>3. \E f : f = OnStep(xs, f)
    BY <1>0, <1>2, HoldsExists
<1>4. h = OnStep(xs, h)
    BY <1>3
<1>5. Holds(h, n, R)
    BY <1>2, <1>4
<1> HIDE DEF h
<1>6. R[k] # <<>>
    BY <1>0
<1>7. LosesLast(n, k, gone, R, Q)
    BY <1>0 DEF n, LosesLast, Cuts
<1>8. Tree(n, Q, There(xs) \ gone)
    BY <1>0, <1>1, <1>5, <1>6, <1>7, TreeBack
<1>9. There(ys) = There(xs) \ gone
    BY DEF There, Cuts
<1> QED
    BY <1>8, <1>9 DEF IsTree, Q, n

-----------------------------------------------------------------------------
(* The tree and the screen in every state.                                 *)

\* What is on the screen.  Unless the user went back or a page was opened at
\* the wrong moment, a page above the app on the screen means that somebody
\* is signed in and stays so, no reading was confirmed by nobody, and, if no
\* check missed a profile, the registration is on the screen only for
\* accounts without one.
Scene ==
    /\ ~back /\ ~raced =>
           /\ ~unsaved
           /\ apps[Top].routes # <<>> => user # NoUser /\ ~leaving
    /\ ~back /\ ~raced /\ ~overtaken /\ OnRoute(RegisterPage) =>
           user \notin registered

IInv == GateInv /\ IsTree(apps) /\ Scene

\* What the steps need of the list of apps.
LEMMA AppsAre ==
    ASSUME GateInv, IsTree(apps)
    PROVE  /\ apps \in Seq(App) /\ Len(apps) \in Nat /\ DOMAIN apps = 1..Len(apps)
           /\ Live = There(apps) /\ Top = TopIn(apps)
           /\ Top \in Live /\ Top \in DOMAIN apps /\ 1 \in Live
           /\ \A k \in DOMAIN apps : /\ apps[k] \in App
                                     /\ Knows(apps[k], user, Profiled)
           /\ user \in Account /\ Profiled \subseteq User
<1>1. apps \in Seq(App) /\ user \in Account /\ Profiled \subseteq User
    BY DEF GateInv, TypeOK, Profiled
<1>2. Len(apps) \in Nat /\ DOMAIN apps = 1..Len(apps)
      /\ \A k \in 1..Len(apps) : apps[k] \in App
    BY <1>1, ListOf
<1>3. Live = There(apps)
    BY <1>2 DEF Live, There
<1>4. Top = TopIn(apps)
    BY TopOfApps
<1>5. TopIn(apps) \in There(apps) /\ 1 \in There(apps) /\ TopIn(apps) \in 1..Len(apps)
    BY <1>1, TopThere
<1>6. \A k \in DOMAIN apps : Knows(apps[k], user, Profiled)
    BY DEF GateInv, Fits
<1> QED
    BY <1>1, <1>2, <1>3, <1>4, <1>5, <1>6

\* A step that changes no route and takes no app away.
SameRoutes ==
    /\ Len(apps') = Len(apps)
    /\ \A k \in 1..Len(apps) : /\ apps'[k].routes = apps[k].routes
                               /\ apps'[k].live = apps[k].live

LEMMA SameScreen ==
    ASSUME GateInv, IsTree(apps), GateInv', SameRoutes
    PROVE  /\ IsTree(apps') /\ Top' = Top
           /\ apps'[Top'].routes = apps[Top].routes
           /\ \A r : OnRoute(r)' <=> OnRoute(r)
<1>1. apps \in Seq(App) /\ apps' \in Seq(App)
    BY DEF GateInv, TypeOK
<1>2. /\ IsTree(apps') /\ TopIn(apps') = TopIn(apps)
      /\ apps'[TopIn(apps')].routes = apps[TopIn(apps)].routes
    BY <1>1, SameTree DEF SameRoutes
<1>3. Top = TopIn(apps) /\ Top' = TopIn(apps')
    BY TopOfApps
<1>4. apps'[Top'].routes = apps[Top].routes
    BY <1>2, <1>3
<1> QED
    BY <1>2, <1>3, <1>4 DEF OnRoute

\* One app is replaced by one with the same routes.
LEMMA OneSameRoutes ==
    ASSUME GateInv, IsTree(apps), NEW k \in DOMAIN apps, NEW b,
           apps' = [apps EXCEPT ![k] = b],
           b.routes = apps[k].routes, b.live = apps[k].live
    PROVE  SameRoutes
<1>1. apps \in Seq(App) /\ DOMAIN apps = 1..Len(apps) /\ Len(apps) \in Nat
    BY AppsAre
<1>2. Len(apps') = Len(apps)
    BY <1>1
<1>3. \A j \in 1..Len(apps) : apps'[j] = IF j = k THEN b ELSE apps[j]
    BY <1>1
<1> QED
    BY <1>2, <1>3 DEF SameRoutes

\* The scene after a step that changes no route, adds no profile, changes no
\* history, and no account unless nothing is above the app on the screen.
LEMMA SameScene ==
    ASSUME IInv, GateInv', SameRoutes, registered' \subseteq registered,
           back' = back, unsaved' = unsaved, overtaken' = overtaken,
           raced => raced',
           ~back /\ ~raced' =>
               \/ apps[Top].routes = <<>>
               \/ user' = user /\ leaving' = leaving
    PROVE  IInv'
<1>1. /\ IsTree(apps') /\ Top' = Top
      /\ apps'[Top'].routes = apps[Top].routes
      /\ \A r : OnRoute(r)' <=> OnRoute(r)
    BY SameScreen DEF IInv
<1>2. IsTree(apps)'
    BY <1>1 DEF IsTree, Routes, There
<1>3. OnRoute(RegisterPage) => apps[Top].routes # <<>>
    BY DEF OnRoute
<1>4. OnRoute(RegisterPage)' <=> OnRoute(RegisterPage)
    BY <1>1
<1>5. (~back /\ ~raced => /\ ~unsaved
                          /\ apps[Top].routes # <<>> => user # NoUser /\ ~leaving)'
    BY <1>1 DEF IInv, Scene
<1>6. (~back /\ ~raced /\ ~overtaken /\ OnRoute(RegisterPage) =>
           user \notin registered)'
    BY <1>3, <1>4 DEF IInv, Scene
<1>7. Scene'
    BY <1>5, <1>6 DEF Scene
<1> QED
    BY <1>2, <1>7 DEF IInv

\* The account changes: the routes stay.
LEMMA BecomesRoutes ==
    ASSUME GateInv, IsTree(apps), NEW u, Becomes(u)
    PROVE  SameRoutes /\ user' = u
<1>1. /\ apps \in Seq(App) /\ DOMAIN apps = 1..Len(apps) /\ Len(apps) \in Nat
      /\ \A k \in DOMAIN apps : apps[k] \in App
    BY AppsAre
<1>2. CASE u = user
    BY <1>2 DEF Becomes, SameRoutes
<1>3. CASE u # user
    <2>1. apps' = [k \in DOMAIN apps |->
                        IF apps[k].live
                        THEN [apps[k] EXCEPT !.events = Append(@, u)]
                        ELSE apps[k]]
        BY <1>3 DEF Becomes
    <2>2. Len(apps') = Len(apps)
        <3>1. DOMAIN apps' = 1..Len(apps)
            BY <1>1, <2>1
        <3>2. Len(apps') = Len(apps)
            <4>1. apps' \in [1..Len(apps) -> {apps'[k] : k \in 1..Len(apps)}]
                BY <2>1, <3>1
            <4>2. apps' \in Seq({apps'[k] : k \in 1..Len(apps)})
                BY <1>1, <4>1, SeqDef
            <4> QED
                BY <1>1, <3>1, <4>2, LenProperties
        <3> QED
            BY <3>2
    <2>3. ASSUME NEW k \in 1..Len(apps)
          PROVE  apps'[k].routes = apps[k].routes /\ apps'[k].live = apps[k].live
        <3>1. apps[k] \in App
            BY <1>1
        <3>2. apps'[k] = IF apps[k].live
                         THEN [apps[k] EXCEPT !.events = Append(apps[k].events, u)]
                         ELSE apps[k]
            BY <1>1, <2>1
        <3> QED
            BY <3>1, <3>2 DEF App
    <2> QED
        BY <2>2, <2>3 DEF SameRoutes, Becomes
<1> QED
    BY <1>2, <1>3 DEF Becomes

\* A page on top of the routes of an app.
LEMMA PageScreen ==
    ASSUME GateInv, IsTree(apps), GateInv', NEW k \in Live,
           NEW p \in {RecordPage, RegisterPage}, NEW b \in App,
           apps' = [apps EXCEPT ![k] = b],
           b.routes = Append(apps[k].routes, p), b.live
    PROVE  /\ IsTree(apps') /\ Top' \in {Top, k}
           /\ Top' # k => apps'[Top'].routes = apps[Top].routes
           /\ apps'[k].routes # <<>> /\ Last(apps'[k].routes) = p
<1>1. /\ apps \in Seq(App) /\ DOMAIN apps = 1..Len(apps) /\ Len(apps) \in Nat
      /\ Live = There(apps) /\ k \in 1..Len(apps) /\ apps[k].live
    BY AppsAre DEF Live
<1>2. /\ apps' \in Seq(App) /\ Len(apps') = Len(apps)
      /\ \A m \in 1..Len(apps) : apps'[m] = IF m = k THEN b ELSE apps[m]
    <2>1. apps' \in Seq(App)
        BY DEF GateInv, TypeOK
    <2> QED
        BY <1>1, <2>1
<1>3. /\ apps'[k].routes = Append(apps[k].routes, p)
      /\ \A m \in 1..Len(apps) : /\ m # k => apps'[m].routes = apps[m].routes
                                 /\ apps'[m].live = apps[m].live
    BY <1>1, <1>2 DEF App
<1>4. p \in Int /\ p <= 0
    BY DEF RecordPage, RegisterPage
<1> DEFINE ys == apps'
<1>5. /\ ys \in Seq(App) /\ Len(ys) = Len(apps) /\ k \in There(apps)
      /\ ys[k].routes = Append(apps[k].routes, p)
      /\ \A m \in 1..Len(apps) : /\ m # k => ys[m].routes = apps[m].routes
                                 /\ ys[m].live = apps[m].live
    BY <1>1, <1>2, <1>3
<1> HIDE DEF ys
<1>6. /\ IsTree(ys) /\ TopIn(ys) \in {TopIn(apps), k}
      /\ TopIn(ys) # k => ys[TopIn(ys)].routes = apps[TopIn(apps)].routes
      /\ ys[k].routes # <<>> /\ Last(ys[k].routes) = p
    BY <1>1, <1>4, <1>5, PageTree
<1>7. Top = TopIn(apps) /\ Top' = TopIn(apps')
    BY TopOfApps
<1> QED
    BY <1>6, <1>7 DEF ys

\* A new app on top of the first one, or of the one on the screen.
LEMMA PushScreen ==
    ASSUME GateInv, IsTree(apps), GateInv', NEW k \in {1, Top}, PushApp(k)
    PROVE  IsTree(apps') /\ apps'[Top'].routes = <<>>
<1>1. /\ apps \in Seq(App) /\ DOMAIN apps = 1..Len(apps) /\ Len(apps) \in Nat
      /\ k \in 1..Len(apps) /\ \A m \in 1..Len(apps) : apps[m] \in App
    BY AppsAre DEF Live
<1> DEFINE b == [apps[k] EXCEPT !.routes = Append(apps[k].routes, Len(apps) + 1)]
           zs == [apps EXCEPT ![k] = b]
           a == NewApp(user)
           ys == apps'
<1>2. ys = Append(zs, a)
    BY DEF PushApp
<1>3. \A m \in 1..Len(apps) : zs[m] = IF m = k THEN b ELSE apps[m]
    BY <1>1
<1>4. zs \in Seq(App) /\ Len(zs) = Len(apps) /\ a \in App
    <2> DEFINE r == Len(apps) + 1
    <2>1. Fits(apps, user, Profiled) /\ user \in Account
        BY DEF GateInv, TypeOK
    <2>2. r \in -1..MaxApps
        BY <1>1, GateAssumption DEF PushApp
    <2>3. zs = [apps EXCEPT ![k].routes = Append(@, r)]
        OBVIOUS
    <2> HIDE DEF r, zs
    <2>4. Fits([apps EXCEPT ![k].routes = Append(@, r)], user, Profiled)
        BY <2>1, <2>2, OneRouted
    <2>5. Len([apps EXCEPT ![k].routes = Append(@, r)]) = Len(apps)
        BY <2>1, <2>2, OneRouted
    <2>6. Fits(zs, user, Profiled) /\ Len(zs) = Len(apps)
        BY <2>3, <2>4, <2>5
    <2> QED
        BY <2>1, <2>6, NewAppKnows DEF Fits
<1>5. b.routes = Append(apps[k].routes, Len(apps) + 1) /\ b.live = apps[k].live
    BY <1>1 DEF App
<1>6. a.routes = <<>> /\ a.live
    BY DEF NewApp
<1> HIDE DEF b, zs, a, ys
<1>7. /\ Len(ys) = Len(apps) + 1 /\ ys[Len(apps) + 1] = a
      /\ \A m \in 1..Len(apps) : ys[m] = zs[m]
    BY <1>1, <1>2, <1>4, AppendProperties
<1>8. ys \in Seq(App) /\ Pushes(apps, ys, k)
    <2>1. ys \in Seq(App)
        BY DEF GateInv, TypeOK, ys
    <2> QED
        BY <1>1, <1>3, <1>5, <1>6, <1>7, <2>1 DEF Pushes
<1>9. k \in {1, TopIn(apps)} /\ Top' = TopIn(apps')
    BY TopOfApps
<1>10. IsTree(ys) /\ ys[TopIn(ys)].routes = <<>>
    BY <1>1, <1>8, <1>9, PushTree
<1> QED
    BY <1>9, <1>10 DEF ys

\* Back takes a route with all that is on it.
LEMMA BackScreen ==
    ASSUME GateInv, IsTree(apps), GateInv', NEW k \in DOMAIN apps, Back(k)
    PROVE  IsTree(apps')
<1>1. /\ apps \in Seq(App) /\ DOMAIN apps = 1..Len(apps) /\ Len(apps) \in Nat
      /\ Live = There(apps) /\ 1 \in Live /\ Top \in Live
      /\ \A m \in 1..Len(apps) : apps[m] \in App
    BY AppsAre
<1> DEFINE gone == Covered(Last(apps[k].routes))
           dead == [NewApp(NoUser) EXCEPT !.events = <<>>, !.live = FALSE]
           ys == apps'
<1>2. /\ apps[k].routes # <<>>
      /\ ys = [j \in DOMAIN apps |->
                  IF j \in gone THEN dead
                  ELSE IF j = k THEN [apps[j] EXCEPT !.routes = Front(@)]
                  ELSE apps[j]]
    BY <1>1 DEF Back
<1>10. k \in There(apps)
    <2>1. k \in 1..Len(apps) /\ Routes(apps)[k] = apps[k].routes
        BY <1>1, ListOf
    <2>2. Routes(apps)[k] # <<>>
        BY <1>2, <2>1
    <2> QED
        BY <2>1, <2>2 DEF IsTree, Tree
<1>3. gone = CoveredIn(apps, Last(apps[k].routes))
    BY CoveredOfApps
<1>4. dead.routes = <<>> /\ ~dead.live
    BY DEF NewApp
<1>5. ys \in Seq(App) /\ DOMAIN ys = 1..Len(apps)
    BY <1>1, <1>2 DEF GateInv, TypeOK
<1> HIDE DEF gone, dead, ys
<1>6. Len(ys) = Len(apps)
    BY <1>1, <1>5, LenProperties
<1>7. ASSUME NEW m \in 1..Len(apps)
      PROVE  /\ m \in gone => ys[m].routes = <<>> /\ ~ys[m].live
             /\ m \notin gone =>
                    /\ ys[m].live = apps[m].live
                    /\ ys[m].routes = IF m = k THEN Front(apps[m].routes)
                                      ELSE apps[m].routes
    <2>1. CASE m \in gone
        <3>1. ys[m] = dead
            BY <1>1, <1>2, <2>1
        <3> QED
            BY <1>4, <2>1, <3>1
    <2>2. CASE m \notin gone
        <3>1. ys[m] = IF m = k THEN [apps[m] EXCEPT !.routes = Front(apps[m].routes)]
                      ELSE apps[m]
            BY <1>1, <1>2, <2>2
        <3>2. apps[m] \in App
            BY <1>1
        <3> QED
            BY <2>2, <3>1, <3>2 DEF App
    <2> QED
        BY <2>1, <2>2
<1>8. Cuts(apps, ys, k, gone)
    BY <1>7 DEF Cuts
<1>9. IsTree(ys)
    BY <1>1, <1>2, <1>3, <1>5, <1>6, <1>8, <1>10, BackTree
<1> QED
    BY <1>9 DEF ys

\* One new app, and nothing on top of it.
LEMMA FirstScreen ==
    ASSUME NEW u \in Account
    PROVE  IsTree(<<NewApp(u)>>) /\ <<NewApp(u)>>[TopIn(<<NewApp(u)>>)].routes = <<>>
<1> DEFINE xs == <<NewApp(u)>>
<1>1. xs \in Seq(App) /\ Len(xs) = 1
    BY FirstFits DEF Fits
<1>2. xs[1].routes = <<>> /\ xs[1].live
    BY DEF NewApp
<1> HIDE DEF xs
<1>3. IsTree(xs) /\ xs[TopIn(xs)].routes = <<>>
    BY <1>1, <1>2, FirstTree
<1> QED
    BY <1>3 DEF xs

\* The first states.
LEMMA InitIInv == Init => IInv
<1> SUFFICES ASSUME Init PROVE IInv
    OBVIOUS
<1>1. GateInv /\ user \in Account /\ apps = <<NewApp(user)>>
    BY GateInit DEF Init
<1>2. IsTree(apps) /\ apps[TopIn(apps)].routes = <<>>
    BY <1>1, FirstScreen
<1>3. apps[Top].routes = <<>>
    BY <1>2, TopOfApps
<1> QED
    BY <1>1, <1>2, <1>3 DEF IInv, Scene, OnRoute, Init

\* Each action.
LEMMA StepAuthEvent ==
    ASSUME IInv, GateInv', NEW k \in DOMAIN apps, AuthEvent(k)
    PROVE  IInv'
<1> DEFINE b == [Shown(apps[k], Head(apps[k].events))
                    EXCEPT !.events = Tail(apps[k].events)]
<1>1. apps[k] \in App
    BY AppsAre DEF IInv
<1>2. apps' = [apps EXCEPT ![k] = b]
    BY DEF AuthEvent
<1>3. b.routes = apps[k].routes /\ b.live = apps[k].live
    BY <1>1 DEF Shown, Checking, App
<1> HIDE DEF b
<1>4. SameRoutes
    BY <1>2, <1>3, OneSameRoutes DEF IInv
<1> QED
    BY <1>4, SameScene DEF AuthEvent

LEMMA StepAnswer ==
    ASSUME IInv, GateInv', NEW k \in DOMAIN apps, CheckReads(k) \/ CheckFails(k)
    PROVE  IInv'
<1>1. PICK w : apps' = [apps EXCEPT ![k].answer = w]
    BY DEF CheckReads, CheckFails
<1> DEFINE b == [apps[k] EXCEPT !.answer = w]
<1>2. apps[k] \in App
    BY AppsAre DEF IInv
<1>3. apps' = [apps EXCEPT ![k] = b]
    BY <1>1
<1>4. b.routes = apps[k].routes /\ b.live = apps[k].live
    BY <1>2 DEF App
<1> HIDE DEF b
<1>5. SameRoutes
    BY <1>3, <1>4, OneSameRoutes DEF IInv
<1>6. /\ registered' = registered /\ back' = back /\ unsaved' = unsaved
      /\ overtaken' = overtaken /\ raced' = raced
      /\ user' = user /\ leaving' = leaving
    BY DEF CheckReads, CheckFails
<1> QED
    BY <1>5, <1>6, SameScene

\* No pushes the registration: if that is not raced, the account that is
\* signed in has no profile and is not signing out.
LEMMA StepCheckReturns ==
    ASSUME IInv, GateInv', NEW k \in DOMAIN apps, CheckReturns(k)
    PROVE  IInv'
<1>0. /\ apps[k] \in App /\ Knows(apps[k], user, Profiled)
      /\ k \in Live /\ apps[k].live /\ apps[k].page = "loading"
    BY AppsAre DEF IInv, CheckReturns, Live
<1>1. CASE apps[k].answer = "yes"
    <2> DEFINE b == [apps[k] EXCEPT !.page = "home"]
    <2>1. apps' = [apps EXCEPT ![k] = b] /\ UNCHANGED <<raced, overtaken>>
        BY <1>1 DEF CheckReturns
    <2>2. b.routes = apps[k].routes /\ b.live = apps[k].live
        BY <1>0 DEF App
    <2> HIDE DEF b
    <2>3. SameRoutes
        BY <2>1, <2>2, OneSameRoutes DEF IInv
    <2> QED
        BY <2>1, <2>3, SameScene DEF CheckReturns
<1>2. CASE apps[k].answer # "yes"
    <2> DEFINE b == [apps[k] EXCEPT !.page = "blank",
                                    !.routes = Append(@, RegisterPage)]
    <2>1. /\ apps' = [apps EXCEPT ![k] = b]
          /\ raced' = (raced \/ Behind(k) \/ apps[k].asked # user)
          /\ overtaken' = (overtaken \/ user \in registered)
        BY <1>0, <1>2 DEF CheckReturns, App
    <2>2. b.routes = Append(apps[k].routes, RegisterPage) /\ b.live
        BY <1>0 DEF App
    <2>3. b \in App
        <3>1. apps' \in Seq(App) /\ apps'[k] = b /\ k \in DOMAIN apps'
            <4>1. apps' \in Seq(App)
                BY DEF GateInv, TypeOK
            <4> HIDE DEF b
            <4> QED
                BY <2>1, <4>1
        <3> QED
            BY <3>1, LenProperties
    <2> HIDE DEF b
    <2>4. /\ IsTree(apps') /\ Top' \in {Top, k}
          /\ Top' # k => apps'[Top'].routes = apps[Top].routes
          /\ apps'[k].routes # <<>> /\ Last(apps'[k].routes) = RegisterPage
        BY <1>0, <2>1, <2>2, <2>3, PageScreen DEF IInv
    <2>5. UNCHANGED <<user, registered, leaving, back, unsaved>>
        BY DEF CheckReturns
    <2>6. ~raced' => ~raced /\ user # NoUser /\ ~leaving
        <3>1. SUFFICES ASSUME ~raced' PROVE ~raced /\ user # NoUser /\ ~leaving
            OBVIOUS
        <3>2. ~raced /\ ~leaving /\ apps[k].events = <<>>
            BY <2>1, <3>1 DEF Behind
        <3> QED
            BY <1>0, <3>2 DEF Knows
    <2>7. (~back /\ ~raced => /\ ~unsaved
                              /\ apps[Top].routes # <<>> => user # NoUser /\ ~leaving)'
        BY <2>5, <2>6 DEF IInv, Scene
    <2>8. (~back /\ ~raced /\ ~overtaken /\ OnRoute(RegisterPage) =>
               user \notin registered)'
        BY <2>1, <2>5
    <2> QED
        BY <2>4, <2>7, <2>8 DEF IInv, Scene, IsTree, Routes, There
<1> QED
    BY <1>1, <1>2

LEMMA StepBack ==
    ASSUME IInv, GateInv', NEW k \in DOMAIN apps, Back(k)
    PROVE  IInv'
<1>1. IsTree(apps')
    BY BackScreen DEF IInv
<1>2. back'
    BY DEF Back
<1> QED
    BY <1>1, <1>2 DEF IInv, Scene, IsTree, Routes, There

\* Steps that leave the apps alone.
LEMMA StepTaps ==
    ASSUME IInv, GateInv', TapSignIn \/ TapSignOut
    PROVE  IInv'
<1>1. SameRoutes
    BY DEF TapSignIn, TapSignOut, SameRoutes
<1>2. CASE TapSignIn
    BY <1>1, <1>2, SameScene DEF TapSignIn
<1>3. CASE TapSignOut
    <2>1. apps[Top].routes = <<>>
        BY <1>3 DEF TapSignOut, AtFirst
    <2> QED
        BY <1>1, <1>3, <2>1, SameScene DEF TapSignOut
<1> QED
    BY <1>2, <1>3

\* A sign-in that is not raced finds nobody signed in, or changes nothing.
LEMMA StepSignInEnds ==
    ASSUME IInv, GateInv', SignInEnds
    PROVE  IInv'
<1>1. CASE \E u \in User : Becomes(u) /\ raced' = (raced \/ user \notin {NoUser, user'})
    <2>1. PICK u \in User : Becomes(u)
        BY <1>1
    <2>2. SameRoutes /\ user' = u
        BY <2>1, BecomesRoutes DEF IInv
    <2>3. ASSUME ~back, ~raced', apps[Top].routes # <<>> PROVE user' = user
        <3>1. ~raced /\ user \in {NoUser, user'}
            BY <1>1, <2>3
        <3>2. user # NoUser
            BY <2>3, <3>1 DEF IInv, Scene
        <3> QED
            BY <3>1, <3>2
    <2>4. raced => raced'
        BY <1>1
    <2> QED
        BY <2>2, <2>3, <2>4, SameScene DEF SignInEnds
<1>2. CASE UNCHANGED <<user, apps, raced>>
    <2>1. SameRoutes
        BY <1>2 DEF SameRoutes
    <2> QED
        BY <1>2, <2>1, SameScene DEF SignInEnds
<1> QED
    BY <1>1, <1>2 DEF SignInEnds

LEMMA StepSignOutEnds ==
    ASSUME IInv, GateInv', SignOutEnds
    PROVE  IInv'
<1>1. SameRoutes
    BY BecomesRoutes DEF IInv, SignOutEnds
<1>2. ~back /\ ~raced => apps[Top].routes = <<>>
    BY DEF IInv, Scene, SignOutEnds
<1> QED
    BY <1>1, <1>2, SameScene DEF SignOutEnds

LEMMA StepTapTab ==
    ASSUME IInv, GateInv', TapTab
    PROVE  IInv'
<1> DEFINE b == Checking(apps[Top])
<1>1. Top \in DOMAIN apps /\ apps[Top] \in App
    BY AppsAre DEF IInv
<1>2. apps' = [apps EXCEPT ![Top] = b]
    BY DEF TapTab
<1>3. b.routes = apps[Top].routes /\ b.live = apps[Top].live
    BY <1>1 DEF Checking, App
<1> HIDE DEF b
<1>4. SameRoutes
    BY <1>1, <1>2, <1>3, OneSameRoutes DEF IInv
<1> QED
    BY <1>4, SameScene DEF TapTab

\* The record page, if it is not raced, is opened by an account with a
\* profile that is not signing out.
LEMMA StepOpenRecord ==
    ASSUME IInv, GateInv', OpenRecord
    PROVE  IInv'
<1> DEFINE t == Top
           b == [apps[t] EXCEPT !.routes = Append(@, RecordPage)]
<1>0. /\ t \in Live /\ t \in DOMAIN apps /\ apps[t] \in App /\ apps[t].live
      /\ Knows(apps[t], user, Profiled) /\ Profiled \subseteq User
    BY AppsAre DEF IInv, Live
<1>1. /\ apps' = [apps EXCEPT ![t].routes = Append(@, RecordPage)]
      /\ apps[t].page = "home"
      /\ raced' = (raced \/ Behind(t))
      /\ UNCHANGED <<user, registered, leaving, back, overtaken, unsaved>>
    BY DEF OpenRecord, AtFirst
<1>2. Top = t
    OBVIOUS
<1> HIDE DEF t
<1>3. apps' = [apps EXCEPT ![t] = b]
    BY <1>1
<1>4. b.routes = Append(apps[t].routes, RecordPage) /\ b.live
    BY <1>0 DEF App
<1>5. b \in App
    <2>1. apps' \in Seq(App) /\ apps'[t] = b /\ t \in DOMAIN apps'
        <3>1. apps' \in Seq(App)
            BY DEF GateInv, TypeOK
        <3> HIDE DEF b
        <3> QED
            BY <1>0, <1>3, <3>1
    <2> HIDE DEF b
    <2>2. \A k \in DOMAIN apps' : apps'[k] \in App
        BY <2>1, ListOf
    <2> QED
        BY <2>1, <2>2
<1> HIDE DEF b
<1>6. /\ IsTree(apps') /\ Top' = t
      /\ apps'[t].routes # <<>> /\ Last(apps'[t].routes) = RecordPage
    BY <1>0, <1>2, <1>3, <1>4, <1>5, PageScreen DEF IInv
<1>7. ~OnRoute(RegisterPage)'
    BY <1>6 DEF OnRoute, RecordPage, RegisterPage
<1>8. ~raced' => ~raced /\ user # NoUser /\ ~leaving
    <2>1. SUFFICES ASSUME ~raced' PROVE ~raced /\ user # NoUser /\ ~leaving
        OBVIOUS
    <2>2. ~raced /\ ~leaving /\ apps[t].events = <<>>
        BY <1>1, <2>1 DEF Behind
    <2>3. user \in Profiled
        BY <1>0, <1>1, <2>2 DEF Knows
    <2> QED
        BY <1>0, <2>2, <2>3, GateAssumption
<1> QED
    BY <1>1, <1>6, <1>7, <1>8 DEF IInv, Scene, IsTree, Routes, There

\* A reading is confirmed on the record page, so that somebody is signed in.
LEMMA StepPressRecord ==
    ASSUME IInv, GateInv', PressRecord
    PROVE  IInv'
<1>1. IsTree(apps') /\ apps'[Top'].routes = <<>>
    BY PushScreen DEF IInv, PressRecord
<1>2. ~OnRoute(RegisterPage)'
    BY <1>1 DEF OnRoute
<1>3. apps[Top].routes # <<>>
    BY DEF PressRecord, OnRoute
<1>4. UNCHANGED <<back, raced>> /\ unsaved' = (unsaved \/ user = NoUser)
    BY DEF PressRecord
<1>5. ~back' /\ ~raced' => ~unsaved'
    BY <1>3, <1>4 DEF IInv, Scene
<1> QED
    BY <1>1, <1>2, <1>5 DEF IInv, Scene, IsTree, Routes, There

LEMMA StepRegister ==
    ASSUME IInv, GateInv', Register
    PROVE  IInv'
<1>1. IsTree(apps') /\ apps'[Top'].routes = <<>>
    BY PushScreen DEF IInv, Register
<1>2. ~OnRoute(RegisterPage)'
    BY <1>1 DEF OnRoute
<1>3. UNCHANGED <<back, raced, unsaved>>
    BY DEF Register
<1> QED
    BY <1>1, <1>2, <1>3 DEF IInv, Scene, IsTree, Routes, There

\* A profile less, and the screen stays.
LEMMA StepRegistrationRefused ==
    ASSUME IInv, GateInv', RegistrationRefused
    PROVE  IInv'
<1>1. SameRoutes
    BY DEF RegistrationRefused, SameRoutes
<1> QED
    BY <1>1, SameScene DEF RegistrationRefused

LEMMA StepRestart ==
    ASSUME IInv, GateInv', Restart
    PROVE  IInv'
<1>1. user \in Account /\ apps' = <<NewApp(user)>> /\ ~unsaved'
    BY DEF IInv, GateInv, TypeOK, Restart
<1>2. IsTree(apps') /\ apps'[TopIn(apps')].routes = <<>>
    BY <1>1, FirstScreen
<1>3. apps'[Top'].routes = <<>>
    BY <1>2, TopOfApps
<1>4. ~OnRoute(RegisterPage)'
    BY <1>3 DEF OnRoute
<1> QED
    BY <1>1, <1>2, <1>3, <1>4 DEF IInv, Scene, IsTree, Routes, There

\* Every step keeps the tree and the scene.
LEMMA StepIInv == IInv /\ [Next]_vars => IInv'
<1> SUFFICES ASSUME IInv, [Next]_vars PROVE IInv'
    OBVIOUS
<1>1. GateInv'
    BY GateStep DEF IInv
<1>2. CASE UNCHANGED vars
    <2>1. SameRoutes
        BY <1>2 DEF vars, SameRoutes
    <2> QED
        BY <1>1, <1>2, <2>1, SameScene DEF vars
<1> QED
    BY <1>1, <1>2, StepAuthEvent, StepAnswer, StepCheckReturns, StepBack,
       StepTaps, StepSignInEnds, StepSignOutEnds, StepTapTab, StepOpenRecord,
       StepPressRecord, StepRegister, StepRegistrationRefused, StepRestart
       DEF Next

LEMMA SpecIInv == Spec => []IInv
<1> QED
    BY InitIInv, StepIInv, PTL DEF Spec

\* The tree as the invariant of the module states it.
LEMMA TreeInv ==
    ASSUME IInv
    PROVE  Inv
<1> DEFINE n == Len(apps)
           R == Routes(apps)
<1>1. /\ TypeOK /\ DOMAIN apps = 1..n /\ Live = There(apps)
      /\ 1 \in Live /\ apps[1].live
      /\ \A k \in 1..n : R[k] = apps[k].routes
                         /\ DOMAIN apps[k].routes = 1..Len(R[k])
    <2>1. TypeOK /\ apps \in Seq(App)
        BY DEF IInv, GateInv, TypeOK
    <2>2. DOMAIN apps = 1..n /\ Live = There(apps) /\ 1 \in Live
        BY AppsAre DEF IInv
    <2>3. \A k \in 1..n : R[k] = apps[k].routes /\ apps[k].routes \in Seq(Int)
        BY <2>1, ListOf
    <2>4. \A k \in 1..n : DOMAIN apps[k].routes = 1..Len(R[k])
        BY <2>3, LenProperties
    <2> QED
        BY <2>1, <2>2, <2>3, <2>4 DEF Live
<1>2. Tree(n, R, Live)
    BY <1>1 DEF IInv, IsTree
<1> HIDE DEF n, R
<1>3. ASSUME NEW j \in DOMAIN apps \ {1}, NEW on,
             on = UNION {{<<k, i>> : i \in {m \in DOMAIN apps[k].routes :
                                              apps[k].routes[m] = j}} : k \in Live}
      PROVE  /\ apps[j].live <=> on # {}
             /\ Cardinality(on) <= 1 /\ \A p \in on : p[1] < j
    <2>0. Live \subseteq 1..n /\ j \in 1..n /\ j # 1 /\ j > 0 /\ n \in Nat
          /\ (j \in Live <=> apps[j].live)
        BY <1>1, <1>2, <1>3 DEF Tree, Live
    <2>1. \A p : p \in on <=> \E k \in Live : \E i \in 1..Len(R[k]) :
                                  p = <<k, i>> /\ R[k][i] = j
        BY <1>1, <1>3, <2>0
    <2>2. ASSUME j \in Live PROVE on # {}
        <3>1. PICK k \in 1..n : \E i \in 1..Len(R[k]) : R[k][i] = j
            BY <1>2, <2>0, <2>2 DEF Tree
        <3>2. PICK i \in 1..Len(R[k]) : R[k][i] = j
            BY <3>1
        <3>3. k \in Live
            BY <1>2, <2>0, <3>2 DEF Tree
        <3> QED
            BY <2>1, <3>2, <3>3
    <2>3. ASSUME NEW p \in on PROVE j \in Live /\ p[1] < j
        <3>1. PICK k \in Live : \E i \in 1..Len(R[k]) : p = <<k, i>> /\ R[k][i] = j
            BY <2>1, <2>3
        <3>2. PICK i \in 1..Len(R[k]) : p = <<k, i>> /\ R[k][i] = j
            BY <3>1
        <3>3. R[k][i] \in Live /\ k < R[k][i]
            BY <1>2, <2>0, <3>2 DEF Tree
        <3> QED
            BY <3>2, <3>3
    <2>4. ASSUME NEW p \in on, NEW q \in on PROVE p = q
        <3>1. PICK k \in Live : \E i \in 1..Len(R[k]) : p = <<k, i>> /\ R[k][i] = j
            BY <2>1, <2>4
        <3>2. PICK i \in 1..Len(R[k]) : p = <<k, i>> /\ R[k][i] = j
            BY <3>1
        <3>3. PICK l \in Live : \E m \in 1..Len(R[l]) : q = <<l, m>> /\ R[l][m] = j
            BY <2>1, <2>4
        <3>4. PICK m \in 1..Len(R[l]) : q = <<l, m>> /\ R[l][m] = j
            BY <3>3
        <3>5. l = k /\ m = i
            <4>1. k \in 1..n /\ l \in 1..n /\ R[k][i] > 0 /\ R[l][m] = R[k][i]
                BY <2>0, <3>2, <3>4
            <4>2. \A x \in 1..n : \A y \in 1..Len(R[x]) :
                      R[x][y] = R[k][i] => x = k /\ y = i
                BY <1>2, <4>1 DEF Tree
            <4> QED
                BY <4>1, <4>2
        <3> QED
            BY <3>2, <3>4, <3>5
    <2>5. Cardinality(on) <= 1
        <3>1. CASE on = {}
            <4>1. Cardinality(on) = 0
                BY <3>1, FS_EmptySet
            <4> QED
                BY <4>1
        <3>2. CASE on # {}
            <4>1. PICK p : p \in on
                BY <3>2
            <4>2. on = {p}
                BY <2>4, <4>1
            <4>3. Cardinality(on) = 1
                BY <4>2, FS_Singleton
            <4> QED
                BY <4>3
        <3> QED
            BY <3>1, <3>2
    <2> QED
        BY <2>0, <2>2, <2>3, <2>5
<1> QED
    BY <1>1, <1>3 DEF Inv

\* Apps that push apps on themselves and on each other form a tree, over any
\* record pages, registrations and steps back (push.dart 423, userAdd.dart
\* 787): an app that is gone is on no route, one that is there on exactly one.
THEOREM GateInvariant == Spec => []Inv
<1>1. IInv => Inv
    BY TreeInv
<1> QED
    BY <1>1, SpecIInv, PTL

\* When nobody is signed in and the app on the screen has heard of it, the
\* login page is on the screen (main.dart 54), unless the user went back or a
\* page was opened while its app was behind.
THEOREM LoginShownHolds == Spec => []LoginShown
<1>1. ASSUME IInv PROVE LoginShown
    <2>1. SUFFICES ASSUME user = NoUser, ~Behind(Top), ~back, ~raced
                   PROVE  AtFirst("login")
        BY DEF LoginShown
    <2>2. Knows(apps[Top], user, Profiled) /\ apps[Top].live
        BY <1>1, AppsAre DEF IInv, Live
    <2>3. apps[Top].page = "login"
        BY <2>1, <2>2 DEF Behind, Knows
    <2>4. apps[Top].routes = <<>>
        BY <1>1, <2>1 DEF IInv, Scene
    <2> QED
        BY <2>3, <2>4 DEF AtFirst
<1>2. IInv => LoginShown
    BY <1>1
<1> QED
    BY <1>2, SpecIInv, PTL

\* The button of the record page (push.dart 412) is pressed by somebody who is
\* signed in, with the same exceptions.
THEOREM ReadingHasUserHolds == Spec => []ReadingHasUser
<1>1. IInv => ReadingHasUser
    BY DEF IInv, Scene, ReadingHasUser
<1> QED
    BY <1>1, SpecIInv, PTL

\* The registration (main.dart 267) is not on the screen for an account that
\* has a profile, unless a check missed the profile, or the same exceptions.
THEOREM NotAskedAgainHolds == Spec => []NotAskedAgain
<1>1. IInv => NotAskedAgain
    BY DEF IInv, Scene, NotAskedAgain
<1> QED
    BY <1>1, SpecIInv, PTL
=============================================================================
