---------------------------- MODULE Registration ----------------------------
(***************************************************************************)
(* Registration of a signed-in user: the check for a profile that guards   *)
(* the home page (MyHomePage, main.dart; userCheck, firebase/db.dart), the *)
(* three pages that collect the profile and their dialog (userAdd.dart),   *)
(* AuthAdd, which stores it, and the later edits of its fields (push.dart).*)
(*                                                                         *)
(* The pages share one list, userConf, which every tap of a button that    *)
(* moves on extends and nothing shortens; AuthAdd stores its first five    *)
(* entries.  Going back destroys the state of the page that is left and    *)
(* keeps the list.  OK pushes a whole new app on top of the dialog, which  *)
(* stays there.                                                            *)
(***************************************************************************)
EXTENDS Integers, Sequences

CONSTANTS
    Name,       \* nicknames
    Gender,     \* the three genders
    Number,     \* numbers of the last page; 0 stands for an empty field
    Blank,      \* the empty string
    NoProfile,  \* the document <uid>/profile does not exist
    MaxConf,    \* bound: entries of userConf
    MaxNest     \* bound: apps on top of each other

Limit == 200                            \* largest number Push4 accepts
MaxBacks == 2                           \* bound: backs counted per wizard
Field == {"nickname", "gender", "average", "target", "blPress"}
Entry == Name \cup Gender \cup Number
ProfileDoc == [nickname : Entry, gender : Entry, average : Entry,
               target : Entry, blPress : Entry]

ASSUME ConstantsAssumption ==
    /\ Number \subseteq Nat /\ 0 \in Number
    /\ Blank \notin Entry
    /\ NoProfile \notin ProfileDoc
    /\ MaxConf \in Nat /\ MaxNest \in Nat

VARIABLES
    wiz,        \* the app on top: its page and the state of its wizard
    under,      \* the apps below, each showing the dialog it was left in
    profile,    \* the document <uid>/profile
    odd         \* what has gone wrong so far (history variable)

vars == <<wiz, under, profile, odd>>

Page == {"check", "home", "blank", "name", "gender", "numbers", "dialog"}
WizardPage == {"name", "gender", "numbers", "dialog"}
Measure == {"average", "target", "blPress"}

Wizard == [page : Page, userConf : Seq(Entry),
           text : Name \cup {Blank}, gender : Gender \cup {Blank},
           average : Number, target : Number, blPress : Number,
           backs : 0..MaxBacks]

TypeOK ==
    /\ wiz \in Wizard
    /\ under \in Seq({w \in Wizard : w.page = "dialog"})
    /\ profile \in ProfileDoc \cup {NoProfile}
    /\ odd \subseteq {"threw", "returned"}

---------------------------------------------------------------------------

\* An app that has just started: its home page calls userCheck().
Fresh == [page |-> "check", userConf |-> <<>>, text |-> Blank,
          gender |-> Blank, average |-> 0, target |-> 0, blPress |-> 0,
          backs |-> 0]

\* Mutant of Saved: the index of the target is off by one.
SavedShifted(li) == [nickname |-> li[1], gender |-> li[2], average |-> li[3],
                     target |-> li[3], blPress |-> li[5]]

\* The fields AuthAdd stores: the first five entries of the list.
Saved(li) == [nickname |-> li[1], gender |-> li[2], average |-> li[3],
              target |-> li[4], blPress |-> li[5]]

\* The information the user has left in the pages.
Shown(w) == [nickname |-> w.text, gender |-> w.gender, average |-> w.average,
             target |-> w.target, blPress |-> w.blPress]

Init ==
    /\ wiz = Fresh
    /\ under = <<>>
    /\ profile = NoProfile
    /\ odd = {}

\* Mutant of CheckReturns: the answer is not looked at.
CheckIgnored ==
    /\ wiz.page = "check"
    /\ wiz' = [wiz EXCEPT !.page = "name"]
    /\ UNCHANGED <<under, profile, odd>>

\* userCheck() returns: the home page, or the first page of registration.
CheckReturns ==
    /\ wiz.page = "check"
    /\ wiz' = [wiz EXCEPT !.page =
                  IF profile = NoProfile THEN "name" ELSE "home"]
    /\ UNCHANGED <<under, profile, odd>>

\* The read fails: userCheck() returns false.
CheckThrows ==
    /\ wiz.page = "check"
    /\ wiz' = [wiz EXCEPT !.page = "name"]
    /\ odd' = odd \cup {"threw"}
    /\ UNCHANGED <<under, profile>>

\* A tap on a tab rebuilds the home page, which calls userCheck() again.
TapTab ==
    /\ wiz.page = "home"
    /\ wiz' = [wiz EXCEPT !.page = "check"]
    /\ UNCHANGED <<under, profile, odd>>

TypeName(n) ==
    /\ wiz.page = "name"
    /\ wiz' = [wiz EXCEPT !.text = n]
    /\ UNCHANGED <<under, profile, odd>>

\* The button of UserAddPage.
NextFromName ==
    /\ wiz.page = "name"
    /\ wiz.text # Blank
    /\ Len(wiz.userConf) < MaxConf
    /\ wiz' = [wiz EXCEPT !.page = "gender",
                          !.userConf = Append(@, wiz.text)]
    /\ UNCHANGED <<under, profile, odd>>

PickGender(g) ==
    /\ wiz.page = "gender"
    /\ wiz' = [wiz EXCEPT !.gender = g]
    /\ UNCHANGED <<under, profile, odd>>

\* Mutant of NextFromGender: no gender has to be chosen.
NextFromNoGender ==
    /\ wiz.page = "gender"
    /\ Len(wiz.userConf) < MaxConf
    /\ wiz' = [wiz EXCEPT !.page = "numbers",
                          !.userConf = Append(@, wiz.gender)]
    /\ UNCHANGED <<under, profile, odd>>

\* The button of UserAddPage2.
NextFromGender ==
    /\ wiz.page = "gender"
    /\ wiz.gender # Blank
    /\ Len(wiz.userConf) < MaxConf
    /\ wiz' = [wiz EXCEPT !.page = "numbers",
                          !.userConf = Append(@, wiz.gender)]
    /\ UNCHANGED <<under, profile, odd>>

TypeNumber(f, n) ==
    /\ wiz.page = "numbers"
    /\ wiz' = [wiz EXCEPT ![f] = n]
    /\ UNCHANGED <<under, profile, odd>>

\* Mutants of Register: the blood pressure is not added, and it is added in
\* the place of the target.
RegisterTwo ==
    /\ wiz.page = "numbers"
    /\ wiz.average # 0 \/ wiz.blPress # 0 \/ wiz.target # 0
    /\ Len(wiz.userConf) + 2 <= MaxConf
    /\ wiz' = [wiz EXCEPT !.page = "dialog",
                          !.userConf = @ \o <<wiz.average, wiz.target>>]
    /\ UNCHANGED <<under, profile, odd>>

RegisterSwapped ==
    /\ wiz.page = "numbers"
    /\ wiz.average # 0 \/ wiz.blPress # 0 \/ wiz.target # 0
    /\ Len(wiz.userConf) + 3 <= MaxConf
    /\ wiz' = [wiz EXCEPT !.page = "dialog",
                          !.userConf = @ \o <<wiz.average, wiz.blPress, wiz.target>>]
    /\ UNCHANGED <<under, profile, odd>>

\* The button of UserAddPage3: one number is enough to open the dialog.
Register ==
    /\ wiz.page = "numbers"
    /\ wiz.average # 0 \/ wiz.blPress # 0 \/ wiz.target # 0
    /\ Len(wiz.userConf) + 3 <= MaxConf
    /\ wiz' = [wiz EXCEPT !.page = "dialog",
                          !.userConf = @ \o <<wiz.average, wiz.target, wiz.blPress>>]
    /\ UNCHANGED <<under, profile, odd>>

\* OK: AuthAdd(userConf), which the server may refuse, and a new app.
Ok ==
    /\ wiz.page = "dialog"
    /\ Len(under) < MaxNest
    /\ \/ profile' = Saved(wiz.userConf)
       \/ UNCHANGED profile
    /\ under' = Append(under, wiz)
    /\ wiz' = Fresh
    /\ UNCHANGED odd

\* The page on top is popped, and its state is lost: the cancel button of the
\* dialog, a tap beside it, and going back from a page.
Popped(w) ==
    LET v == [w EXCEPT !.backs = IF @ < MaxBacks THEN @ + 1 ELSE @]
    IN  CASE w.page = "dialog"  -> [v EXCEPT !.page = "numbers"]
          [] w.page = "numbers" -> [v EXCEPT !.page = "gender", !.average = 0,
                                             !.target = 0, !.blPress = 0]
          [] w.page = "gender"  -> [v EXCEPT !.page = "name", !.gender = Blank]
          [] w.page = "name"    -> [Fresh EXCEPT !.page = "blank"]

Back ==
    /\ wiz.page \in WizardPage
    /\ wiz' = Popped(wiz)
    /\ UNCHANGED <<under, profile, odd>>

\* The app on top is popped, and the dialog below it is shown again.  The
\* back button of the system pops the outermost app (n = 1), a swipe on the
\* first page of an app pops that app (n = Len(under)).
PopApp(n) ==
    /\ n \in 1..Len(under)
    /\ n = 1 \/ (n = Len(under) /\ wiz.page \notin WizardPage)
    /\ wiz' = under[n]
    /\ under' = SubSeq(under, 1, n - 1)
    /\ odd' = IF profile = NoProfile THEN odd ELSE odd \cup {"returned"}
    /\ UNCHANGED profile

\* The app is killed and started again.
Restart ==
    /\ wiz' = Fresh
    /\ under' = <<>>
    /\ UNCHANGED <<profile, odd>>

\* The values the page of a field accepts (Push, Push2, Push4).
Accepted(f) ==
    CASE f = "nickname" -> Name
      [] f = "gender"   -> Gender
      [] f \in Measure  -> {n \in Number : n <= Limit}

\* An edit on the profile page: doc('profile').update({f: v}).
Edit(f, v) ==
    /\ wiz.page = "home"
    /\ profile # NoProfile
    /\ profile' = [profile EXCEPT ![f] = v]
    /\ UNCHANGED <<wiz, under, odd>>

Next ==
    \/ CheckReturns
    \/ CheckThrows
    \/ TapTab
    \/ \E n \in Name \cup {Blank} : TypeName(n)
    \/ NextFromName
    \/ \E g \in Gender : PickGender(g)
    \/ NextFromGender
    \/ \E f \in Measure, n \in Number : TypeNumber(f, n)
    \/ Register
    \/ Ok
    \/ Back
    \/ \E n \in 1..MaxNest : PopApp(n)
    \/ Restart
    \/ \E f \in Field : \E v \in Accepted(f) : Edit(f, v)

Spec == Init /\ [][Next]_vars

---------------------------------------------------------------------------
(* Properties.                                                             *)

\* The step stores what the dialog on top asks about.
Stores == wiz.page = "dialog" /\ profile' # profile

\* AuthAdd never reads past the end of the list (li[4] in db.dart).
NoRangeError == wiz.page = "dialog" => Len(wiz.userConf) >= 5

\* A user who never went back has the information on the pages stored,
\* although AuthAdd gets it through the list that all pages extend.
SavedAsShown ==
    [][Stores /\ wiz.backs = 0 => profile' = Shown(wiz)]_vars

\* The chart parses the stored target as a number: going back once before
\* registering shifts the list by at most one entry and leaves a number
\* there, although it may put a name in the place of the gender.
TargetIsNumber ==
    [][Stores /\ wiz.backs <= 1 => profile'.target \in Number]_vars

\* A stored profile, with the edits made since, is not replaced by a second
\* registration, unless userCheck() failed and sent a registered user to the
\* registration, or the user went back from the new app to the dialog.
ProfileKept ==
    [][~ (odd = {} /\ profile # NoProfile /\ Stores)]_vars

\* The dialog asks whether to register this information: what OK stores is
\* what the pages show.
RegistersThisInfo ==
    [][Stores => profile' = Shown(wiz)]_vars

---------------------------------------------------------------------------
(* The inductive invariant behind these properties.                        *)

\* How long the list is at least on each page.
LongEnough(w) ==
    /\ w.page = "gender"  => Len(w.userConf) >= 1
    /\ w.page = "numbers" => Len(w.userConf) >= 2
    /\ w.page = "dialog"  => Len(w.userConf) >= 5

\* What the list holds when the user has never gone back.
InStep(w) ==
    w.backs = 0 =>
        /\ w.page \in {"check", "home", "name"} => w.userConf = <<>>
        /\ w.page = "gender"  => w.userConf = <<w.text>>
        /\ w.page = "numbers" => w.userConf = <<w.text, w.gender>>
        /\ w.page = "dialog"  => w.userConf =
               <<w.text, w.gender, w.average, w.target, w.blPress>>

\* The fourth entry is a number, or the list has no number yet and at most
\* one entry too many.
Aligned(w) ==
    w.backs <= 1 =>
        \/ Len(w.userConf) >= 4 /\ w.userConf[4] \in Number
        \/ /\ w.page \in {"check", "home", "name"} => Len(w.userConf) <= w.backs
           /\ w.page = "gender" => Len(w.userConf) <= 1 + w.backs
           /\ w.page = "numbers" => Len(w.userConf) <= 2 + w.backs
           /\ w.page # "dialog"

GoodWizard(w) == LongEnough(w) /\ InStep(w) /\ Aligned(w)

\* A registered user is not in the registration.
NotAgain ==
    odd = {} /\ profile # NoProfile => wiz.page \in {"check", "home"}

\* The invariant that every step of the pages preserves, and from which the
\* properties above follow.
Inv ==
    /\ TypeOK
    /\ GoodWizard(wiz)
    /\ \A n \in 1..Len(under) : GoodWizard(under[n])
    /\ NotAgain
=============================================================================
