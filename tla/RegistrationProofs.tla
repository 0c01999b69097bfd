------------------------- MODULE RegistrationProofs -------------------------
(***************************************************************************)
(* Proofs about Registration, for all names, genders, numbers and bounds.  *)
(***************************************************************************)
EXTENDS Registration, SequenceTheorems, TLAPS

---------------------------------------------------------------------------
(* Lemmas about the state of an app.                                       *)

\* An app that has just started is well typed and in step.
LEMMA FreshGood == Fresh \in Wizard /\ GoodWizard(Fresh)
<1>1. <<>> \in Seq(Entry) /\ Len(<<>>) = 0
    OBVIOUS
<1> QED
    BY <1>1, ConstantsAssumption
    DEF Fresh, Wizard, Page, GoodWizard, LongEnough, InStep, Aligned, MaxBacks

\* The fields of a well typed app.
LEMMA WizardFields ==
    ASSUME NEW w \in Wizard
    PROVE  /\ w.userConf \in Seq(Entry) /\ Len(w.userConf) \in Nat
           /\ w.text \in Name \cup {Blank} /\ w.gender \in Gender \cup {Blank}
           /\ w.average \in Number /\ w.target \in Number /\ w.blPress \in Number
           /\ w.backs \in 0..2 /\ w.page \in Page
BY DEF Wizard, MaxBacks

\* Going back keeps an app well typed and in step.
LEMMA PoppedGood ==
    ASSUME NEW w \in Wizard, GoodWizard(w), w.page \in WizardPage
    PROVE  Popped(w) \in Wizard /\ GoodWizard(Popped(w))
<1> DEFINE b == IF w.backs < 2 THEN w.backs + 1 ELSE w.backs
           v == [w EXCEPT !.backs = b]
<1>0. v \in Wizard /\ b \in 1..2 /\ (b = 1 => w.backs = 0)
    BY WizardFields DEF Wizard, MaxBacks
<1>1. CASE w.page = "dialog"
    <2>1. Popped(w) = [v EXCEPT !.page = "numbers"]
        BY <1>1 DEF Popped, MaxBacks
    <2>2. /\ Popped(w) \in Wizard
          /\ Popped(w).userConf = w.userConf /\ Popped(w).page = "numbers"
          /\ Popped(w).backs = b
        <3>1. v.userConf = w.userConf /\ v.backs = b
            BY DEF Wizard
        <3> HIDE DEF b, v
        <3> QED
            BY <1>0, <2>1, <3>1 DEF Wizard, Page
    <2> QED
        BY <1>0, <1>1, <2>2, WizardFields
        DEF GoodWizard, LongEnough, InStep, Aligned
<1>2. CASE w.page = "numbers"
    <2>1. Popped(w) = [v EXCEPT !.page = "gender", !.average = 0,
                                !.target = 0, !.blPress = 0]
        BY <1>2 DEF Popped, MaxBacks
    <2> DEFINE x == Popped(w)
    <2>2. /\ x \in Wizard
          /\ x.userConf = w.userConf /\ x.page = "gender"
          /\ x.backs = b
        <3>1. v.userConf = w.userConf /\ v.backs = b /\ 0 \in Number
            BY ConstantsAssumption DEF Wizard
        <3> DEFINE y == [v EXCEPT !.page = "gender", !.average = 0]
        <3> HIDE DEF b, v
        <3>2. /\ y \in Wizard /\ y.page = "gender"
              /\ y.userConf = w.userConf /\ y.backs = b
            BY <1>0, <3>1 DEF Wizard, Page
        <3>3. x = [y EXCEPT !.target = 0, !.blPress = 0]
            BY <1>0, <2>1 DEF Wizard
        <3> HIDE DEF x, y
        <3> QED
            BY <3>1, <3>2, <3>3 DEF Wizard
    <2> HIDE DEF x, b, v
    <2>3. Len(w.userConf) \in Nat /\ w.backs \in 0..2
        BY WizardFields
    <2>4. LongEnough(x)
        BY <1>2, <2>2, <2>3 DEF GoodWizard, LongEnough
    <2>5. InStep(x)
        BY <1>0, <2>2 DEF InStep
    <2>6. Aligned(x)
        BY <1>0, <1>2, <2>2, <2>3 DEF GoodWizard, Aligned
    <2> QED
        BY <2>2, <2>4, <2>5, <2>6 DEF GoodWizard, x
<1>3. CASE w.page = "gender"
    <2>1. Popped(w) = [v EXCEPT !.page = "name", !.gender = Blank]
        BY <1>3 DEF Popped, MaxBacks
    <2>2. /\ Popped(w) \in Wizard
          /\ Popped(w).userConf = w.userConf /\ Popped(w).page = "name"
          /\ Popped(w).backs = b
        BY <1>0, <2>1 DEF Wizard, Page
    <2> QED
        BY <1>0, <1>3, <2>2, WizardFields
        DEF GoodWizard, LongEnough, InStep, Aligned
<1>4. CASE w.page = "name"
    <2>1. Popped(w) = [Fresh EXCEPT !.page = "blank"]
        BY <1>4 DEF Popped
    <2>2. /\ Popped(w) \in Wizard
          /\ Popped(w).userConf = <<>> /\ Popped(w).page = "blank"
          /\ Popped(w).backs = 0
        BY <2>1, FreshGood DEF Wizard, Page, Fresh
    <2>3. Len(<<>>) = 0
        OBVIOUS
    <2> QED
        BY <2>2, <2>3 DEF GoodWizard, LongEnough, InStep, Aligned
<1> QED
    BY <1>1, <1>2, <1>3, <1>4 DEF WizardPage

---------------------------------------------------------------------------
(* Every step keeps the invariant.                                         *)

\* A step of the app on top leaves the apps below alone.
LEMMA TopStep ==
    ASSUME Inv, wiz' \in Wizard, GoodWizard(wiz'), under' = under,
           profile' = profile, odd' \subseteq {"threw", "returned"}, NotAgain'
    PROVE  Inv'
BY DEF Inv, TypeOK

\* The pages before the registration.
LEMMA CheckStep ==
    ASSUME Inv, CheckReturns \/ CheckThrows \/ TapTab
    PROVE  Inv'
<1>0. wiz \in Wizard /\ GoodWizard(wiz)
    BY DEF Inv, TypeOK
<1>1. CASE CheckReturns
    <2>1. wiz' \in Wizard /\ GoodWizard(wiz')
        BY <1>0, <1>1, WizardFields
        DEF CheckReturns, Wizard, Page, GoodWizard, LongEnough, InStep, Aligned
    <2>2. NotAgain'
        BY <1>0, <1>1 DEF CheckReturns, NotAgain, Wizard
    <2> QED
        BY <1>1, <2>1, <2>2, TopStep DEF CheckReturns, Inv, TypeOK
<1>2. CASE CheckThrows
    <2>1. wiz' \in Wizard /\ GoodWizard(wiz')
        BY <1>0, <1>2, WizardFields
        DEF CheckThrows, Wizard, Page, GoodWizard, LongEnough, InStep, Aligned
    <2>2. NotAgain'
        BY <1>2 DEF CheckThrows, NotAgain
    <2> QED
        BY <1>2, <2>1, <2>2, TopStep DEF CheckThrows, Inv, TypeOK
<1>3. CASE TapTab
    <2>1. wiz' \in Wizard /\ GoodWizard(wiz')
        BY <1>0, <1>3, WizardFields
        DEF TapTab, Wizard, Page, GoodWizard, LongEnough, InStep, Aligned
    <2>2. NotAgain'
        BY <1>0, <1>3 DEF TapTab, NotAgain, Wizard
    <2> QED
        BY <1>3, <2>1, <2>2, TopStep DEF TapTab, Inv, TypeOK
<1> QED
    BY <1>1, <1>2, <1>3

\* Inside the registration no profile is stored, or something went wrong.
LEMMA NotAgainInside ==
    ASSUME Inv, wiz.page \in WizardPage, profile' = profile, odd' = odd
    PROVE  NotAgain'
BY DEF Inv, NotAgain, WizardPage

\* Filling in a page.
LEMMA FillStep ==
    ASSUME Inv,
           \/ \E n \in Name \cup {Blank} : TypeName(n)
           \/ \E g \in Gender : PickGender(g)
           \/ \E f \in Measure, n \in Number : TypeNumber(f, n)
    PROVE  Inv'
<1>0. wiz \in Wizard /\ GoodWizard(wiz)
    BY DEF Inv, TypeOK
<1>1. ASSUME NEW n \in Name \cup {Blank}, TypeName(n) PROVE Inv'
    <2>1. wiz' \in Wizard /\ GoodWizard(wiz')
        BY <1>0, <1>1, WizardFields
        DEF TypeName, Wizard, Page, GoodWizard, LongEnough, InStep, Aligned
    <2> QED
        BY <1>1, <2>1, TopStep, NotAgainInside
        DEF TypeName, Inv, TypeOK, WizardPage
<1>2. ASSUME NEW g \in Gender, PickGender(g) PROVE Inv'
    <2>1. wiz' \in Wizard /\ GoodWizard(wiz')
        BY <1>0, <1>2, WizardFields
        DEF PickGender, Wizard, Page, GoodWizard, LongEnough, InStep, Aligned
    <2> QED
        BY <1>2, <2>1, TopStep, NotAgainInside
        DEF PickGender, Inv, TypeOK, WizardPage
<1>3. ASSUME NEW f \in Measure, NEW n \in Number, TypeNumber(f, n) PROVE Inv'
    <2>1. /\ wiz' \in Wizard /\ wiz'.page = wiz.page
          /\ wiz'.userConf = wiz.userConf /\ wiz'.text = wiz.text
          /\ wiz'.gender = wiz.gender /\ wiz'.backs = wiz.backs
        <3>1. CASE f = "average"
            BY <1>0, <1>3, <3>1 DEF TypeNumber, Wizard
        <3>2. CASE f = "target"
            BY <1>0, <1>3, <3>2 DEF TypeNumber, Wizard
        <3>3. CASE f = "blPress"
            BY <1>0, <1>3, <3>3 DEF TypeNumber, Wizard
        <3> QED
            BY <3>1, <3>2, <3>3 DEF Measure
    <2>2. GoodWizard(wiz')
        BY <1>0, <1>3, <2>1 DEF TypeNumber, GoodWizard, LongEnough, InStep, Aligned
    <2> QED
        BY <1>3, <2>1, <2>2, TopStep, NotAgainInside
        DEF TypeNumber, Inv, TypeOK, WizardPage
<1> QED
    BY <1>1, <1>2, <1>3

\* Two short lists.
LEMMA AppendPair ==
    ASSUME NEW S, NEW a \in S, NEW b \in S
    PROVE  Append(<<a>>, b) = <<a, b>>
<1> DEFINE p == Append(<<a>>, b)
<1>1. p \in Seq(S) /\ <<a, b>> \in Seq(S) /\ Len(p) = 2 /\ Len(<<a, b>>) = 2
    OBVIOUS
<1>2. p[1] = a /\ p[2] = b
    OBVIOUS
<1>3. \A k \in 1..2 : p[k] = <<a, b>>[k]
    BY <1>2
<1> HIDE DEF p
<1> QED
    BY <1>1, <1>3, SeqEqual DEF p

LEMMA ConcatFive ==
    ASSUME NEW S, NEW a \in S, NEW b \in S, NEW c \in S, NEW d \in S, NEW e \in S
    PROVE  <<a, b>> \o <<c, d, e>> = <<a, b, c, d, e>>
<1> DEFINE p == <<a, b>> \o <<c, d, e>>
<1>1. p \in Seq(S) /\ Len(p) = 5
    OBVIOUS
<1>2. <<a, b, c, d, e>> \in Seq(S) /\ Len(<<a, b, c, d, e>>) = 5
    OBVIOUS
<1>3. p[1] = a /\ p[2] = b /\ p[3] = c /\ p[4] = d /\ p[5] = e
    OBVIOUS
<1>4. \A k \in 1..5 : p[k] = <<a, b, c, d, e>>[k]
    BY <1>3
<1> HIDE DEF p
<1> QED
    BY <1>1, <1>2, <1>4, SeqEqual DEF p

\* The buttons that extend the list.
LEMMA MoveOnStep ==
    ASSUME Inv, NextFromName \/ NextFromGender
    PROVE  Inv'
<1> DEFINE L == wiz.userConf
<1>0. wiz \in Wizard /\ GoodWizard(wiz) /\ L \in Seq(Entry) /\ Len(L) \in Nat
    BY WizardFields DEF Inv, TypeOK
<1>1. ASSUME NEW e \in Entry
      PROVE  /\ Append(L, e) \in Seq(Entry) /\ Len(Append(L, e)) = Len(L) + 1
             /\ Len(L) >= 4 => Append(L, e)[4] = L[4]
    BY <1>0
<1>2. CASE NextFromName
    <2>1. wiz.text \in Entry
        BY <1>0, <1>2, WizardFields DEF NextFromName, Entry
    <2>2. /\ wiz'.page = "gender" /\ wiz'.userConf = Append(L, wiz.text)
          /\ wiz'.text = wiz.text /\ wiz'.backs = wiz.backs /\ wiz' \in Wizard
        BY <1>0, <1>1, <1>2, <2>1 DEF NextFromName, Wizard, Page
    <2>3. LongEnough(wiz') /\ Aligned(wiz')
        BY <1>0, <1>1, <1>2, <2>1, <2>2, WizardFields
        DEF NextFromName, GoodWizard, LongEnough, Aligned
    <2>4. InStep(wiz')
        <3>1. wiz.backs = 0 => L = <<>>
            BY <1>0, <1>2 DEF NextFromName, GoodWizard, InStep
        <3>2. Append(<<>>, wiz.text) = <<wiz.text>>
            OBVIOUS
        <3> QED
            BY <2>2, <3>1, <3>2 DEF InStep
    <2> QED
        BY <1>2, <2>2, <2>3, <2>4, TopStep, NotAgainInside
        DEF NextFromName, GoodWizard, Inv, TypeOK, WizardPage
<1>3. CASE NextFromGender
    <2>1. wiz.gender \in Entry
        BY <1>0, <1>3, WizardFields DEF NextFromGender, Entry
    <2>2. /\ wiz'.page = "numbers" /\ wiz'.userConf = Append(L, wiz.gender)
          /\ wiz'.text = wiz.text /\ wiz'.gender = wiz.gender
          /\ wiz'.backs = wiz.backs /\ wiz' \in Wizard
        BY <1>0, <1>1, <1>3, <2>1 DEF NextFromGender, Wizard, Page
    <2>3. LongEnough(wiz') /\ Aligned(wiz')
        BY <1>0, <1>1, <1>3, <2>1, <2>2, WizardFields
        DEF NextFromGender, GoodWizard, LongEnough, Aligned
    <2>4. InStep(wiz')
        <3>1. wiz.backs = 0 => L = <<wiz.text>>
            BY <1>0, <1>3 DEF NextFromGender, GoodWizard, InStep
        <3>2. Append(<<wiz.text>>, wiz.gender) = <<wiz.text, wiz.gender>>
            <4> DEFINE S == {wiz.text, wiz.gender}
            <4> QED
                BY AppendPair, wiz.text \in S, wiz.gender \in S
        <3> QED
            BY <2>2, <3>1, <3>2 DEF InStep
    <2> QED
        BY <1>3, <2>2, <2>3, <2>4, TopStep, NotAgainInside
        DEF NextFromGender, GoodWizard, Inv, TypeOK, WizardPage
<1> QED
    BY <1>2, <1>3

\* The button of the last page adds three numbers.
LEMMA RegisterStep ==
    ASSUME Inv, Register
    PROVE  Inv'
<1> DEFINE L == wiz.userConf
           M == <<wiz.average, wiz.target, wiz.blPress>>
<1>0. wiz \in Wizard /\ GoodWizard(wiz) /\ L \in Seq(Entry) /\ Len(L) \in Nat
    BY WizardFields DEF Inv, TypeOK
<1>1. M \in Seq(Number) /\ M \in Seq(Entry) /\ Len(M) = 3
    BY <1>0, WizardFields DEF Entry
<1>2. /\ L \o M \in Seq(Entry) /\ Len(L \o M) = Len(L) + 3
      /\ \A k \in 1..(Len(L) + 3) :
             (L \o M)[k] = IF k <= Len(L) THEN L[k] ELSE M[k - Len(L)]
    BY <1>0, <1>1
<1>3. /\ wiz'.page = "dialog" /\ wiz'.userConf = L \o M
      /\ wiz'.text = wiz.text /\ wiz'.gender = wiz.gender
      /\ wiz'.average = wiz.average /\ wiz'.target = wiz.target
      /\ wiz'.blPress = wiz.blPress
      /\ wiz'.backs = wiz.backs /\ wiz' \in Wizard
    BY <1>0, <1>2 DEF Register, Wizard, Page
<1>4. wiz.page = "numbers" /\ Len(L) >= 2
    BY <1>0 DEF Register, GoodWizard, LongEnough
<1>5. LongEnough(wiz')
    BY <1>0, <1>2, <1>3, <1>4 DEF LongEnough
<1>6. Aligned(wiz')
    <2>1. SUFFICES ASSUME wiz.backs <= 1
                   PROVE  (L \o M)[4] \in Number
        BY <1>0, <1>2, <1>3, <1>4 DEF Aligned
    <2>2. CASE Len(L) >= 4 /\ L[4] \in Number
        BY <1>0, <1>2, <2>2
    <2>3. CASE Len(L) <= 2 + wiz.backs /\ ~ (Len(L) >= 4)
        <3>1. 4 \in 1..(Len(L) + 3) /\ ~ (4 <= Len(L)) /\ 4 - Len(L) \in 1..2
            BY <1>0, <1>4, <2>3
        <3>2. M[1] \in Number /\ M[2] \in Number
            BY <1>1
        <3>3. (L \o M)[4] = M[4 - Len(L)]
            BY <1>2, <3>1
        <3> QED
            BY <3>1, <3>2, <3>3
    <2> QED
        BY <1>0, <1>4, <2>1, <2>2, <2>3, WizardFields DEF GoodWizard, Aligned
<1>7. InStep(wiz')
    <2>1. wiz.backs = 0 => L = <<wiz.text, wiz.gender>>
        BY <1>0, <1>4 DEF GoodWizard, InStep
    <2>2. <<wiz.text, wiz.gender>> \o M =
              <<wiz.text, wiz.gender, wiz.average, wiz.target, wiz.blPress>>
        <3> DEFINE S == {wiz.text, wiz.gender, wiz.average, wiz.target, wiz.blPress}
        <3>1. /\ wiz.text \in S /\ wiz.gender \in S /\ wiz.average \in S
              /\ wiz.target \in S /\ wiz.blPress \in S
            OBVIOUS
        <3> HIDE DEF S
        <3> QED
            BY <3>1, ConcatFive
    <2> QED
        BY <1>3, <2>1, <2>2 DEF InStep
<1> QED
    BY <1>3, <1>4, <1>5, <1>6, <1>7, TopStep, NotAgainInside
    DEF Register, GoodWizard, Inv, TypeOK, WizardPage

\* OK leaves the dialog in place below a new app.
LEMMA OkStep ==
    ASSUME Inv, Ok
    PROVE  Inv'
<1> DEFINE D == {w \in Wizard : w.page = "dialog"}
<1>0. wiz \in D /\ GoodWizard(wiz) /\ under \in Seq(D)
    BY DEF Inv, TypeOK, Ok
<1>1. /\ under' \in Seq(D) /\ Len(under') = Len(under) + 1
      /\ \A n \in 1..Len(under) : under'[n] = under[n]
      /\ under'[Len(under) + 1] = wiz
    BY <1>0, AppendProperties DEF Ok
<1>2. \A n \in 1..Len(under') : GoodWizard(under'[n])
    <2>1. SUFFICES ASSUME NEW n \in 1..Len(under') PROVE GoodWizard(under'[n])
        OBVIOUS
    <2>2. Len(under) \in Nat
        BY <1>0
    <2>3. n \in 1..Len(under) \/ n = Len(under) + 1
        BY <1>1, <2>2
    <2>4. CASE n \in 1..Len(under)
        BY <1>1, <2>4 DEF Inv
    <2> QED
        BY <1>0, <1>1, <2>3, <2>4
<1>3. profile' \in ProfileDoc \cup {NoProfile}
    <2>1. wiz.userConf \in Seq(Entry) /\ Len(wiz.userConf) >= 5
        BY <1>0, WizardFields DEF GoodWizard, LongEnough
    <2>2. \A k \in 1..5 : wiz.userConf[k] \in Entry
        BY <2>1
    <2>3. Saved(wiz.userConf) \in ProfileDoc
        BY <2>2 DEF Saved, ProfileDoc
    <2> QED
        BY <2>3 DEF Ok, Inv, TypeOK
<1>4. wiz' \in Wizard /\ GoodWizard(wiz') /\ wiz'.page = "check"
    BY FreshGood DEF Ok, Fresh
<1> QED
    BY <1>1, <1>2, <1>3, <1>4 DEF Ok, Inv, TypeOK, NotAgain

\* Going back.
LEMMA BackStep ==
    ASSUME Inv, Back
    PROVE  Inv'
<1>1. wiz \in Wizard /\ GoodWizard(wiz) /\ wiz.page \in WizardPage
    BY DEF Inv, TypeOK, Back
<1>2. wiz' \in Wizard /\ GoodWizard(wiz')
    BY <1>1, PoppedGood DEF Back
<1> QED
    BY <1>1, <1>2, TopStep, NotAgainInside DEF Back, Inv, TypeOK

\* A dialog left below is shown again.
LEMMA PopAppStep ==
    ASSUME Inv, NEW n \in 1..MaxNest, PopApp(n)
    PROVE  Inv'
<1> DEFINE D == {w \in Wizard : w.page = "dialog"}
<1>0. under \in Seq(D) /\ n \in 1..Len(under) /\ Len(under) \in Nat
    BY DEF Inv, TypeOK, PopApp
<1>1. /\ under' \in Seq(D) /\ Len(under') = n - 1
      /\ \A k \in 1..(n - 1) : under'[k] = under[k]
    BY <1>0 DEF PopApp
<1>2. wiz' \in Wizard /\ GoodWizard(wiz')
    BY <1>0 DEF PopApp, Inv
<1>3. \A k \in 1..Len(under') : GoodWizard(under'[k])
    BY <1>0, <1>1 DEF Inv
<1>4. NotAgain' /\ odd' \subseteq {"threw", "returned"}
    BY DEF PopApp, NotAgain, Inv, TypeOK
<1> QED
    BY <1>1, <1>2, <1>3, <1>4 DEF PopApp, Inv, TypeOK

LEMMA RestartStep ==
    ASSUME Inv, Restart
    PROVE  Inv'
<1>1. wiz' \in Wizard /\ GoodWizard(wiz') /\ wiz'.page = "check"
    BY FreshGood DEF Restart, Fresh
<1>2. under' \in Seq({w \in Wizard : w.page = "dialog"}) /\ Len(under') = 0
    BY DEF Restart
<1> QED
    BY <1>1, <1>2 DEF Restart, Inv, TypeOK, NotAgain

\* An edit changes one field of a stored profile.
LEMMA EditStep ==
    ASSUME Inv, NEW f \in Field, NEW v \in Accepted(f), Edit(f, v)
    PROVE  Inv'
<1>1. v \in Entry
    BY DEF Accepted, Field, Measure, Entry
<1>2. profile \in ProfileDoc
    BY DEF Edit, Inv, TypeOK
<1>3. profile' \in ProfileDoc
    <2>1. CASE f = "nickname"
        BY <1>1, <1>2, <2>1 DEF Edit, ProfileDoc
    <2>2. CASE f = "gender"
        BY <1>1, <1>2, <2>2 DEF Edit, ProfileDoc
    <2>3. CASE f = "average"
        BY <1>1, <1>2, <2>3 DEF Edit, ProfileDoc
    <2>4. CASE f = "target"
        BY <1>1, <1>2, <2>4 DEF Edit, ProfileDoc
    <2>5. CASE f = "blPress"
        BY <1>1, <1>2, <2>5 DEF Edit, ProfileDoc
    <2> QED
        BY <2>1, <2>2, <2>3, <2>4, <2>5 DEF Field
<1> QED
    BY <1>3 DEF Edit, Inv, TypeOK, NotAgain

---------------------------------------------------------------------------
(* The theorems.                                                           *)

\* The first state satisfies the invariant, and every step keeps it.
LEMMA InitInv ==
    ASSUME Init
    PROVE  Inv
<1>1. under \in Seq({w \in Wizard : w.page = "dialog"}) /\ Len(under) = 0
    BY DEF Init
<1> QED
    BY <1>1, FreshGood DEF Init, Inv, TypeOK, NotAgain

LEMMA NextInv ==
    ASSUME Inv, [Next]_vars
    PROVE  Inv'
<1>1. CASE UNCHANGED vars
    BY <1>1 DEF vars, Inv, TypeOK, NotAgain
<1>2. CASE Next
    BY <1>2, CheckStep, FillStep, MoveOnStep, RegisterStep, OkStep, BackStep,
       PopAppStep, RestartStep, EditStep
    DEF Next
<1> QED
    BY <1>1, <1>2

\* The list is as long as its page needs, in step with the pages of a user
\* who never went back, and a registered user is not in the registration.
THEOREM InvariantHolds == Spec => []Inv
<1>1. Init => Inv
    BY InitInv
<1>2. Inv /\ [Next]_vars => Inv'
    BY NextInv
<1> QED
    BY <1>1, <1>2, PTL DEF Spec

\* AuthAdd(userConf) never reads past the end of the list, however often
\* the user goes back and on through the pages.
THEOREM NoRangeErrorHolds == Spec => []NoRangeError
<1>1. Inv => NoRangeError
    BY DEF Inv, NoRangeError, GoodWizard, LongEnough
<1> QED
    BY <1>1, InvariantHolds, PTL

\* Only OK stores a profile while a dialog is on top, and it stores the
\* first five entries of the list.
LEMMA StoresList ==
    ASSUME Inv, Next, Stores
    PROVE  profile' = Saved(wiz.userConf)
<1>1. CASE Ok
    BY <1>1 DEF Ok, Stores
<1>2. ASSUME NEW f \in Field, NEW v \in Accepted(f), Edit(f, v) PROVE FALSE
    BY <1>2 DEF Edit, Stores
<1>3. ASSUME profile' = profile PROVE FALSE
    BY <1>3 DEF Stores
<1> QED
    BY <1>1, <1>2, <1>3 DEF Next, CheckReturns, CheckThrows, TapTab, TypeName,
       NextFromName, PickGender, NextFromGender, TypeNumber, Register, Back,
       PopApp, Restart

\* A user who never went back has the information of the pages stored.
THEOREM SavedAsShownHolds == Spec => SavedAsShown
<1>1. Inv /\ [Next]_vars =>
          [Stores /\ wiz.backs = 0 => profile' = Shown(wiz)]_vars
    <2>1. SUFFICES ASSUME Inv, Next, Stores, wiz.backs = 0
                   PROVE  profile' = Shown(wiz)
        OBVIOUS
    <2>2. wiz.userConf = <<wiz.text, wiz.gender, wiz.average, wiz.target, wiz.blPress>>
        BY <2>1 DEF Inv, GoodWizard, InStep, Stores
    <2>3. profile' = Saved(wiz.userConf)
        BY <2>1, StoresList
    <2> QED
        BY <2>2, <2>3 DEF Saved, Shown
<1> QED
    BY <1>1, InvariantHolds, PTL DEF Spec, SavedAsShown

\* The stored target is a number even after going back once.
THEOREM TargetIsNumberHolds == Spec => TargetIsNumber
<1>1. Inv /\ [Next]_vars =>
          [Stores /\ wiz.backs <= 1 => profile'.target \in Number]_vars
    <2>1. SUFFICES ASSUME Inv, Next, Stores, wiz.backs <= 1
                   PROVE  profile'.target \in Number
        OBVIOUS
    <2>2. wiz.userConf[4] \in Number
        BY <2>1 DEF Inv, GoodWizard, Aligned, Stores
    <2>3. profile' = Saved(wiz.userConf)
        BY <2>1, StoresList
    <2> QED
        BY <2>2, <2>3 DEF Saved
<1> QED
    BY <1>1, InvariantHolds, PTL DEF Spec, TargetIsNumber

\* A stored profile is not replaced by a second registration, unless a check
\* failed or the user returned to an old dialog.
THEOREM ProfileKeptHolds == Spec => ProfileKept
<1>1. Inv /\ [Next]_vars =>
          [~ (odd = {} /\ profile # NoProfile /\ Stores)]_vars
    BY DEF Inv, NotAgain, Stores
<1> QED
    BY <1>1, InvariantHolds, PTL DEF Spec, ProfileKept
=============================================================================
