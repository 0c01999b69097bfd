--------------------------- MODULE PdfExportProofs ---------------------------
(***************************************************************************)
(* Proofs about PdfExport, for records of any length and all bounds.       *)
(***************************************************************************)
EXTENDS PdfExport, SequenceTheorems, TLAPS

---------------------------------------------------------------------------
(* Lemmas about preview pages.                                             *)

\* The newest readings as a list.
LEMMA NewestList ==
    ASSUME NEW n \in Nat, last \in Nat
    PROVE  /\ Newest(n) \in Seq(Int) /\ Len(Newest(n)) = n
           /\ \A k \in 1..n : Newest(n)[k] = last - k + 1
BY DEF Newest

\* Making a document keeps a page well typed, and fails only if the record
\* was replaced.
LEMMA CreatedGood ==
    ASSUME NEW p \in Preview, TypeOK, GoodPreview(p)
    PROVE  /\ Created(p) \in Preview /\ GoodPreview(Created(p))
           /\ Created(p).asked = p.asked /\ Created(p).had = p.had
<1>1. /\ p.week \in Nat /\ p.asked \in Week /\ p.had \in Nat
      /\ last \in Nat /\ first \in Nat
    BY DEF Preview, TypeOK
<1>2. p.week <= p.had
    BY <1>1 DEF GoodPreview, Week
<1>3. CASE p.week > Length
    <2>1. Created(p) = [p EXCEPT !.doc = "failed", !.list = <<>>]
        BY <1>3 DEF Created
    <2>2. replaced
        BY <1>1, <1>2, <1>3 DEF GoodPreview, Length
    <2>3. <<>> \in Seq(Int)
        OBVIOUS
    <2>4. /\ Created(p) \in Preview
          /\ Created(p).week = p.week
          /\ Created(p).asked = p.asked /\ Created(p).had = p.had
        BY <2>1, <2>3 DEF Preview, Doc
    <2> QED
        BY <2>2, <2>4 DEF GoodPreview
<1>4. CASE ~ (p.week > Length)
    <2>1. Created(p) = [p EXCEPT !.doc = "made", !.list = Newest(p.week)]
        BY <1>4 DEF Created
    <2> QED
        BY <1>1, <2>1, NewestList DEF Preview, Doc, GoodPreview
<1> QED
    BY <1>3, <1>4

\* A list without its last entry.
LEMMA PopLast ==
    ASSUME NEW S, NEW q \in Seq(S), q # <<>>
    PROVE  /\ SubSeq(q, 1, Len(q) - 1) \in Seq(S)
           /\ Len(SubSeq(q, 1, Len(q) - 1)) = Len(q) - 1
           /\ \A n \in 1..(Len(q) - 1) : SubSeq(q, 1, Len(q) - 1)[n] = q[n]
<1> DEFINE m == Len(q) - 1
<1>1. m \in Nat /\ Len(q) \in Nat
    BY EmptySeq
<1>2. \A n \in 1..m : q[n] \in S
    BY <1>1
<1> HIDE DEF m
<1>3. /\ SubSeq(q, 1, m) \in Seq(S)
      /\ Len(SubSeq(q, 1, m)) = IF 1 <= m THEN m - 1 + 1 ELSE 0
      /\ \A n \in 1..(m - 1 + 1) : SubSeq(q, 1, m)[n] = q[1 + n - 1]
    BY <1>1, <1>2, SubSeqProperties
<1>4. Len(SubSeq(q, 1, m)) = m
    BY <1>1, <1>3
<1>5. \A n \in 1..m : SubSeq(q, 1, m)[n] = q[n]
    <2>1. SUFFICES ASSUME NEW n \in 1..m PROVE SubSeq(q, 1, m)[n] = q[n]
        OBVIOUS
    <2>2. n \in 1..(m - 1 + 1) /\ 1 + n - 1 = n
        BY <1>1
    <2> QED
        BY <1>3, <2>2
<1> QED
    BY <1>3, <1>4, <1>5 DEF m

\* The weeks of the menu fit the form, and none has more readings than its
\* value.
LEMMA LabelledBound ==
    ASSUME NEW w \in Week
    PROVE  Labelled(w) \in Nat /\ Labelled(w) <= 28 /\ Labelled(w) <= w
<1>1. CASE w = 7
    BY <1>1 DEF Labelled
<1>2. CASE w = 14
    BY <1>2 DEF Labelled
<1>3. CASE w = 21
    BY <1>3 DEF Labelled
<1>4. CASE w = 31
    BY <1>4 DEF Labelled
<1> QED
    BY <1>1, <1>2, <1>3, <1>4 DEF Week

---------------------------------------------------------------------------
(* Every step keeps the invariant.                                         *)

LEMMA InitInv ==
    ASSUME Init
    PROVE  Inv
<1>1. pages \in Seq(Preview) /\ Len(pages) = 0
    BY DEF Init
<1>2. last \in Nat /\ first \in Nat /\ first >= 1
    BY BoundsAssumption DEF Init
<1>3. TypeOK
    BY <1>1, <1>2 DEF Init, TypeOK, Week
<1> QED
    BY <1>1, <1>2, <1>3 DEF Init, Inv

\* Readings that are recorded, and a record that is replaced.
LEMMA RecordStep ==
    ASSUME Inv, Record \/ Replace
    PROVE  Inv'
<1>0. TypeOK /\ last \in Nat /\ first \in Nat /\ pages \in Seq(Preview)
    BY DEF Inv, TypeOK
<1>1. CASE Record
    <2>1. \A n \in 1..Len(pages) : GoodPreview(pages[n])'
        <3>1. SUFFICES ASSUME NEW n \in 1..Len(pages) PROVE GoodPreview(pages[n])'
            OBVIOUS
        <3>2. pages[n] \in Preview /\ GoodPreview(pages[n])
            BY <1>0 DEF Inv
        <3>3. pages[n].had \in Nat
            BY <3>2 DEF Preview
        <3> QED
            BY <1>0, <1>1, <3>2, <3>3 DEF Record, GoodPreview, Length
    <2> QED
        BY <1>0, <1>1, <2>1 DEF Record, Inv, TypeOK, Length
<1>2. CASE Replace
    <2>1. \A n \in 1..Len(pages) : GoodPreview(pages[n])'
        BY <1>2 DEF Replace, Inv, GoodPreview
    <2> QED
        BY <1>0, <1>2, <2>1 DEF Replace, Inv, TypeOK, Length
<1> QED
    BY <1>1, <1>2

\* Steps that change neither the record nor the preview pages.
LEMMA FormStep ==
    ASSUME Inv,
           \/ OpenForm \/ EditTitle \/ Leave
           \/ \E w \in Week : Select(w)
           \/ \E b \in Button : Press(b) \/ ReadThrows(b)
    PROVE  Inv'
<1>1. first' = first /\ last' = last /\ replaced' = replaced /\ pages' = pages
    BY DEF OpenForm, EditTitle, Leave, Select, Press, ReadThrows
<1>2. \A n \in 1..Len(pages) : GoodPreview(pages[n])'
    BY <1>1 DEF Inv, GoodPreview, Length
<1>3. TypeOK'
    BY <1>1 DEF Inv, TypeOK, OpenForm, EditTitle, Leave, Select, Press,
                ReadThrows, Week
<1> QED
    BY <1>1, <1>2, <1>3 DEF Inv, Length, OpenForm, EditTitle, Leave, Select,
                            Press, ReadThrows, OnForm

\* A preview is opened with as many readings as the record has.
LEMMA ReadReturnsStep ==
    ASSUME Inv, NEW b \in Button, ReadReturns(b)
    PROVE  Inv'
<1> DEFINE p == [button |-> b, week |-> WeekFor, titled |-> titled,
                 asked |-> outWeek, had |-> Length, doc |-> "loading",
                 list |-> <<>>]
<1>0. /\ last \in Nat /\ first \in Nat /\ outWeek \in Week /\ outWeek \in Nat
      /\ pages \in Seq(Preview) /\ titled \in BOOLEAN
      /\ page = "form" /\ Length \in Nat
    BY DEF Inv, TypeOK, ReadReturns, Length, Week
<1>1. p \in Preview
    BY <1>0 DEF Preview, WeekFor, Doc
<1>2. GoodPreview(p)
    BY <1>0 DEF GoodPreview, WeekFor
<1> HIDE DEF p
<1>3. /\ pages' = Append(pages, p) /\ reads' \subseteq reads
      /\ UNCHANGED <<first, last, replaced, page, outWeek, titled>>
    BY DEF ReadReturns, p
<1>4. /\ pages' \in Seq(Preview) /\ Len(pages') = Len(pages) + 1
      /\ \A n \in 1..Len(pages) : pages'[n] = pages[n]
      /\ pages'[Len(pages) + 1] = p
    BY <1>0, <1>1, <1>3, AppendProperties
<1>5. \A n \in 1..Len(pages') : GoodPreview(pages'[n])
    <2>1. SUFFICES ASSUME NEW n \in 1..Len(pages') PROVE GoodPreview(pages'[n])
        OBVIOUS
    <2>2. n \in 1..Len(pages) \/ n = Len(pages) + 1
        BY <1>0, <1>4
    <2>3. CASE n \in 1..Len(pages)
        BY <1>4, <2>3 DEF Inv
    <2> QED
        BY <1>2, <1>4, <2>2, <2>3
<1>6. \A n \in 1..Len(pages') : GoodPreview(pages[n])'
    BY <1>3, <1>5 DEF GoodPreview, Length
<1> QED
    BY <1>0, <1>3, <1>4, <1>6 DEF Inv, TypeOK, Length

\* The page on top makes its document, or fails to read for it.
LEMMA CreateStep ==
    ASSUME Inv, Create \/ CreateThrows
    PROVE  Inv'
<1> DEFINE m == Len(pages)
<1>0. pages \in Seq(Preview) /\ TypeOK /\ m \in Nat /\ pages # <<>>
    BY DEF Inv, TypeOK, Create, CreateThrows
<1>1. m \in 1..m /\ pages[m] \in Preview /\ GoodPreview(pages[m])
    BY <1>0 DEF Inv
<1>2. PICK q \in Preview : GoodPreview(q) /\ pages' = [pages EXCEPT ![m] = q]
    <2>1. CASE Create
        BY <1>0, <1>1, <2>1, CreatedGood DEF Create
    <2>2. CASE CreateThrows
        <3> DEFINE q == [pages[m] EXCEPT !.doc = "offline", !.list = <<>>]
        <3>1. <<>> \in Seq(Int)
            OBVIOUS
        <3>2. q \in Preview /\ GoodPreview(q)
            BY <1>1, <3>1 DEF Preview, Doc, GoodPreview
        <3>3. pages' = [pages EXCEPT ![m] = q]
            BY <1>0, <1>1, <2>2 DEF CreateThrows
        <3> QED
            BY <3>2, <3>3
    <2> QED
        BY <2>1, <2>2
<1>3. /\ pages' \in Seq(Preview) /\ Len(pages') = m
      /\ \A n \in 1..m : pages'[n] = IF n = m THEN q ELSE pages[n]
    BY <1>0, <1>1, <1>2, ExceptSeq
<1>4. UNCHANGED <<first, last, replaced, page, outWeek, titled, reads>>
    BY DEF Create, CreateThrows
<1>5. \A n \in 1..Len(pages') : GoodPreview(pages'[n])
    BY <1>2, <1>3 DEF Inv
<1>6. \A n \in 1..Len(pages') : GoodPreview(pages[n])'
    BY <1>4, <1>5 DEF GoodPreview, Length
<1> QED
    BY <1>0, <1>3, <1>4, <1>6 DEF Inv, TypeOK, Length

\* A preview is left.
LEMMA BackStep ==
    ASSUME Inv, Back
    PROVE  Inv'
<1> DEFINE m == Len(pages)
<1>0. pages \in Seq(Preview) /\ m \in Nat /\ pages # <<>>
    BY DEF Inv, TypeOK, Back
<1>1. /\ pages' \in Seq(Preview) /\ Len(pages') = m - 1
      /\ \A n \in 1..(m - 1) : pages'[n] = pages[n]
    <2>1. pages' = SubSeq(pages, 1, m - 1)
        BY DEF Back
    <2> QED
        BY <1>0, <2>1, PopLast
<1>2. UNCHANGED <<first, last, replaced, page, outWeek, titled, reads>>
    BY DEF Back
<1>3. \A n \in 1..Len(pages') : GoodPreview(pages'[n])
    BY <1>0, <1>1 DEF Inv
<1>4. \A n \in 1..Len(pages') : GoodPreview(pages[n])'
    BY <1>2, <1>3 DEF GoodPreview, Length
<1> QED
    BY <1>0, <1>1, <1>2, <1>4 DEF Inv, TypeOK, Length

LEMMA NextInv ==
    ASSUME Inv, [Next]_vars
    PROVE  Inv'
<1>1. CASE UNCHANGED vars
    <2>1. \A n \in 1..Len(pages) : GoodPreview(pages[n])'
        BY <1>1 DEF vars, Inv, GoodPreview, Length
    <2> QED
        BY <1>1, <2>1 DEF vars, Inv, TypeOK, Length
<1>2. CASE Next
    BY <1>2, RecordStep, FormStep, ReadReturnsStep, CreateStep, BackStep DEF Next
<1> QED
    BY <1>1, <1>2

---------------------------------------------------------------------------
(* The theorems.                                                           *)

\* A preview's number of readings is the one asked for or the length the
\* record had, and a record that is not replaced has at least that many.
THEOREM InvariantHolds == Spec => []Inv
<1>1. Init => Inv
    BY InitInv
<1>2. Inv /\ [Next]_vars => Inv'
    BY NextInv
<1> QED
    BY <1>1, <1>2, PTL DEF Spec

\* create never has to make its list longer, unless the record was replaced.
THEOREM NoGrowErrorHolds == Spec => []NoGrowError
<1>1. Inv => NoGrowError
    BY DEF Inv, NoGrowError, GoodPreview
<1> QED
    BY <1>1, InvariantHolds, PTL

\* Only create makes a document, on the page on top.
LEMMA OnlyCreateMakes ==
    ASSUME Inv, Next, NEW n \in 1..Len(pages), Makes(n)
    PROVE  /\ pages'[n].list = Newest(pages[n].week)
           /\ pages[n].week <= Length
<1> DEFINE m == Len(pages)
<1>0. /\ pages \in Seq(Preview) /\ m \in Nat /\ pages[n] \in Preview
      /\ pages[n].week \in Nat /\ Length \in Int
    <2>1. pages \in Seq(Preview) /\ first \in Nat /\ last \in Nat
        BY DEF Inv, TypeOK
    <2>2. pages[n] \in Preview
        BY <2>1
    <2> QED
        BY <2>1, <2>2 DEF Preview, Length
<1>1. CASE Create
    <2>1. pages' = [pages EXCEPT ![m] = Created(pages[m])]
        BY <1>1 DEF Create
    <2>2. n = m /\ pages'[n] = Created(pages[n])
        <3>1. pages \in [1..m -> Preview]
            BY <1>0, LenProperties
        <3>2. pages'[n] = IF n = m THEN Created(pages[m]) ELSE pages[n]
            BY <2>1, <3>1
        <3> QED
            BY <3>2 DEF Makes
    <2>3. CASE pages[n].week > Length
        <3>1. Created(pages[n]) = [pages[n] EXCEPT !.doc = "failed", !.list = <<>>]
            BY <2>3 DEF Created
        <3> QED
            BY <1>0, <2>2, <3>1 DEF Makes, Preview
    <2>4. CASE ~ (pages[n].week > Length)
        <3>1. Created(pages[n]) =
                  [pages[n] EXCEPT !.doc = "made", !.list = Newest(pages[n].week)]
            BY <2>4 DEF Created
        <3> QED
            BY <1>0, <2>2, <2>4, <3>1 DEF Preview
    <2> QED
        BY <2>3, <2>4
<1>2. ASSUME CreateThrows PROVE FALSE
    <2> DEFINE q == [pages[m] EXCEPT !.doc = "offline", !.list = <<>>]
    <2>1. pages' = [pages EXCEPT ![m] = q]
        BY <1>0, <1>2 DEF CreateThrows
    <2>2. q.doc = "offline"
        BY <1>0 DEF Preview
    <2>3. pages \in [1..m -> Preview]
        BY <1>0, LenProperties
    <2>4. pages'[n] = IF n = m THEN q ELSE pages[n]
        BY <2>1, <2>3
    <2> QED
        BY <2>2, <2>4 DEF Makes
<1>3. ASSUME NEW b \in Button, ReadReturns(b) PROVE FALSE
    <2>1. PICK p : pages' = Append(pages, p)
        BY <1>3 DEF ReadReturns
    <2>2. pages \in Seq(Preview \cup {p})
        BY <1>0, SeqMonotonic
    <2>3. Len(pages') = m + 1
        BY <2>1, <2>2, AppendProperties
    <2> QED
        BY <1>0, <2>3 DEF Makes
<1>4. ASSUME Back PROVE FALSE
    <2>1. Len(pages') = m - 1
        BY <1>0, <1>4, PopLast DEF Back
    <2> QED
        BY <1>0, <2>1 DEF Makes
<1>5. ASSUME pages' = pages PROVE FALSE
    BY <1>5 DEF Makes
<1> QED
    BY <1>1, <1>2, <1>3, <1>4, <1>5 DEF Next, Record, Replace, OpenForm,
       EditTitle, Select, Press, ReadThrows, Leave

\* The form has a cell for each of the first thirty entries of a list.
LEMMA PrintedEntry ==
    ASSUME NEW list, Len(list) \in Nat, NEW k \in 1..30, k <= Len(list)
    PROVE  list[k] \in Printed(list)
<1>1. CASE k <= 15
    <2>1. k - 1 \in {j \in 0..(Rows - 1) : j < Len(list)} /\ (k - 1) + 1 = k
        BY <1>1 DEF Rows
    <2> QED
        BY <2>1 DEF Printed
<1>2. CASE k > 15
    <2>1. /\ k - 16 \in {j \in 0..(Rows - 1) : j + Rows < Len(list)}
          /\ (k - 16) + Rows + 1 = k
        BY <1>2 DEF Rows
    <2> QED
        BY <2>1 DEF Printed
<1> QED
    BY <1>1, <1>2

LEMMA NewestPrinted ==
    ASSUME last \in Nat, NEW w \in Nat, NEW k \in Nat, k >= 1, k <= 28, k <= w
    PROVE  last - k + 1 \in Printed(Newest(w))
<1>1. k \in 1..w /\ k \in 1..30
    OBVIOUS
<1>2. Len(Newest(w)) = w /\ Newest(w)[k] = last - k + 1
    BY <1>1, NewestList
<1>3. Newest(w)[k] \in Printed(Newest(w))
    BY <1>1, <1>2, PrintedEntry
<1> QED
    BY <1>2, <1>3

\* A document shows the newest readings of the weeks chosen, as far as the
\* record had them.
THEOREM WeeksShownHolds == Spec => WeeksShown
<1>1. ASSUME Inv, Next, NEW n \in 1..Len(pages), Makes(n),
             NEW k \in 1..Labelled(pages[n].asked), k <= pages[n].had
      PROVE  Shows(n, k)
    <2> DEFINE p == pages[n]
    <2>1. /\ p \in Preview /\ GoodPreview(p) /\ last \in Nat
          /\ p.asked \in Week /\ p.had \in Nat /\ p.week \in Nat
        <3>1. pages \in Seq(Preview) /\ last \in Nat
            BY <1>1 DEF Inv, TypeOK
        <3>2. p \in Preview
            BY <1>1, <3>1
        <3> QED
            BY <1>1, <3>1, <3>2 DEF Inv, Preview
    <2>2. /\ Labelled(p.asked) <= 28 /\ Labelled(p.asked) <= p.asked
          /\ Labelled(p.asked) \in Nat
        BY <2>1, LabelledBound
    <2>3. k \in Nat /\ k >= 1 /\ k <= 28 /\ k <= p.week
        BY <1>1, <2>1, <2>2 DEF GoodPreview, Week
    <2>4. pages'[n].list = Newest(p.week)
        BY <1>1, OnlyCreateMakes
    <2> QED
        BY <2>1, <2>3, <2>4, NewestPrinted DEF Shows
<1>2. Inv /\ [Next]_vars =>
          [\A n \in 1..Len(pages) : Makes(n) =>
              \A k \in 1..Labelled(pages[n].asked) :
                  k <= pages[n].had => Shows(n, k)]_vars
    BY <1>1
<1> QED
    BY <1>2, InvariantHolds, PTL DEF Spec, WeeksShown
=============================================================================
