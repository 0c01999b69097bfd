------------------------------ MODULE PdfExport ------------------------------
(***************************************************************************)
(* The PDF export: the tile of the profile page that opens it              *)
(* (profile.dart), the page on which a title and a number of weeks are     *)
(* chosen (outPDF, outputPDF.dart), the preview pages it opens             *)
(* (pdfPreview.dart) and the document they make (Pdfcreator.create,        *)
(* pdfcreator.dart).                                                       *)
(*                                                                         *)
(* The number of readings is settled by one read of the record, the        *)
(* document is made from another, and again whenever it is printed or      *)
(* shared.  Meanwhile readings are recorded, here or on another device,    *)
(* and the catch clause of updateUser may replace the record by one        *)
(* reading.  The readings of a record are numbered in the order of their   *)
(* days, so that a record is an interval first..last.                      *)
(***************************************************************************)
EXTENDS Integers, Sequences

CONSTANTS
    Start,      \* lengths of the record at the start
    MaxLast,    \* bound: readings ever recorded
    MaxPages    \* bound: preview pages on top of each other

ASSUME BoundsAssumption ==
    Start \subseteq 0..MaxLast /\ MaxLast \in Nat /\ MaxPages \in Nat

Week == {7, 14, 21, 31}                 \* values of the drop-down menu
Rows == 15                              \* rows of the printed form
Button == {"preview", "output"}
Doc == {"loading", "offline", "failed", "made"}

VARIABLES
    first, last,    \* the record; none when last < first
    replaced,       \* the record has been replaced (history variable)
    page,           \* the page below the previews
    outWeek,        \* readings to extract
    titled,         \* _name is not empty
    reads,          \* buttons pressed whose read has not returned
    pages           \* the preview pages, the last one on top

vars == <<first, last, replaced, page, outWeek, titled, reads, pages>>

\* week and titled are the page's own, doc and list its document; asked and
\* had are the choice and the length of the record from which week was made
\* (history).
Preview ==
    [button : Button, week : Nat, titled : BOOLEAN, asked : Week, had : Nat,
     doc : Doc, list : Seq(Int)]

TypeOK ==
    /\ first \in Nat /\ last \in Nat
    /\ replaced \in BOOLEAN
    /\ page \in {"profile", "form"}
    /\ outWeek \in Week
    /\ titled \in BOOLEAN
    /\ reads \subseteq Button
    /\ pages \in Seq(Preview)

Length == last - first + 1

\* The newest n readings, list..length = n.
Newest(n) == [k \in 1..n |-> last - k + 1]

\* Mutant of Printed: the second half starts one reading late.
PrintedShifted(list) ==
    {list[index + 1] : index \in {k \in 0..(Rows - 1) : k < Len(list)}}
        \cup
    {list[index + Rows + 2] :
        index \in {k \in 0..(Rows - 1) : k + Rows + 1 < Len(list)}}

\* The readings in the cells of the form: two halves of Rows rows each.
Printed(list) ==
    {list[index + 1] : index \in {k \in 0..(Rows - 1) : k < Len(list)}}
        \cup
    {list[index + Rows + 1] :
        index \in {k \in 0..(Rows - 1) : k + Rows < Len(list)}}

---------------------------------------------------------------------------

Init ==
    /\ first = 1
    /\ last \in Start
    /\ replaced = FALSE
    /\ page = "profile"
    /\ outWeek = 7
    /\ titled = FALSE
    /\ reads = {}
    /\ pages = <<>>

\* The first reading of a day is recorded.
Record ==
    /\ last < MaxLast
    /\ last' = last + 1
    /\ UNCHANGED <<first, replaced, page, outWeek, titled, reads, pages>>

\* updateUser replaces the record by one reading.
Replace ==
    /\ last < MaxLast
    /\ last' = last + 1
    /\ first' = last'
    /\ replaced' = TRUE
    /\ UNCHANGED <<page, outWeek, titled, reads, pages>>

\* The tile of the profile page opens the form if there is a record.
OpenForm ==
    /\ page = "profile"
    /\ Length > 0
    /\ page' = "form"
    /\ outWeek' = 7
    /\ titled' = FALSE
    /\ UNCHANGED <<first, last, replaced, reads, pages>>

OnForm == page = "form" /\ pages = <<>>

EditTitle ==
    /\ OnForm
    /\ titled' \in BOOLEAN
    /\ UNCHANGED <<first, last, replaced, page, outWeek, reads, pages>>

Select(w) ==
    /\ OnForm
    /\ outWeek' = w
    /\ UNCHANGED <<first, last, replaced, page, titled, reads, pages>>

\* A button starts to read the record; output asks for a title first.
Press(b) ==
    /\ OnForm
    /\ b = "output" => titled
    /\ reads' = reads \cup {b}
    /\ UNCHANGED <<first, last, replaced, page, outWeek, titled, pages>>

\* Mutant of WeekFor: the record may be shorter than what is asked for.
WeekAsked == outWeek

\* The number of readings a preview is opened with.
WeekFor == IF outWeek > Length THEN Length ELSE outWeek

\* The read returns, and a page is opened with what the form says now.
ReadReturns(b) ==
    /\ b \in reads
    /\ Len(pages) < MaxPages
    /\ reads' = reads \ {b}
    /\ pages' = Append(pages, [button |-> b, week |-> WeekFor,
                               titled |-> titled, asked |-> outWeek,
                               had |-> Length,
                               doc |-> "loading", list |-> <<>>])
    /\ UNCHANGED <<first, last, replaced, page, outWeek, titled>>

\* The read throws, and nothing happens.
ReadThrows(b) ==
    /\ b \in reads
    /\ reads' = reads \ {b}
    /\ UNCHANGED <<first, last, replaced, page, outWeek, titled, pages>>

\* Mutant of Leave: the reads go on.
LeaveReading ==
    /\ OnForm
    /\ page' = "profile"
    /\ UNCHANGED <<first, last, replaced, outWeek, titled, reads, pages>>

\* The form is left: a read that returns later finds no page to push on.
Leave ==
    /\ OnForm
    /\ page' = "profile"
    /\ reads' = {}
    /\ UNCHANGED <<first, last, replaced, outWeek, titled, pages>>

\* Pdfcreator.create(week) with the record it has read: a list of sets
\* cannot be made longer, and the assignment to its length throws.
Created(p) ==
    IF p.week > Length
    THEN [p EXCEPT !.doc = "failed", !.list = <<>>]
    ELSE [p EXCEPT !.doc = "made", !.list = Newest(p.week)]

\* The page on top makes its document: when it is laid out, printed, shared.
Create ==
    /\ pages # <<>>
    /\ pages' = [pages EXCEPT ![Len(pages)] = Created(@)]
    /\ UNCHANGED <<first, last, replaced, page, outWeek, titled, reads>>

\* A read of create throws.
CreateThrows ==
    /\ pages # <<>>
    /\ pages' = [pages EXCEPT ![Len(pages)] =
                    [@ EXCEPT !.doc = "offline", !.list = <<>>]]
    /\ UNCHANGED <<first, last, replaced, page, outWeek, titled, reads>>

Back ==
    /\ pages # <<>>
    /\ pages' = SubSeq(pages, 1, Len(pages) - 1)
    /\ UNCHANGED <<first, last, replaced, page, outWeek, titled, reads>>

Next ==
    \/ Record
    \/ Replace
    \/ OpenForm
    \/ EditTitle
    \/ \E w \in Week : Select(w)
    \/ \E b \in Button : Press(b)
    \/ \E b \in Button : ReadReturns(b)
    \/ \E b \in Button : ReadThrows(b)
    \/ Leave
    \/ Create
    \/ CreateThrows
    \/ Back

Spec == Init /\ [][Next]_vars

---------------------------------------------------------------------------
(* Properties.                                                             *)

\* create never has to make its list longer, although the number of readings
\* comes from an earlier read, unless the record was replaced.
NoGrowError ==
    ~ replaced => \A n \in 1..Len(pages) : pages[n].doc # "failed"

\* The readings that n weeks of the menu are.
Labelled(w) == 7 * (w \div 7)

\* The step makes a document on page n.
Makes(n) ==
    /\ Len(pages') = Len(pages)
    /\ pages'[n] # pages[n]
    /\ pages'[n].doc = "made"

\* The cells of page n show the k-th newest reading of the record.
Shows(n, k) == last - k + 1 \in Printed(pages'[n].list)

\* A document shows the newest readings of the weeks chosen, as far as the
\* record had them when the button's read returned, the readings recorded
\* since included, although the form has fewer cells than the menu's largest
\* number.
WeeksShown ==
    [][\A n \in 1..Len(pages) : Makes(n) =>
          \A k \in 1..Labelled(pages[n].asked) :
              k <= pages[n].had => Shows(n, k)]_vars

---------------------------------------------------------------------------
(* The inductive invariant behind these properties.                        *)

\* What a preview page was opened with.
GoodPreview(p) ==
    /\ p.week = IF p.asked > p.had THEN p.had ELSE p.asked
    /\ ~ replaced => p.had <= Length /\ p.doc # "failed"

\* The invariant that every step of the export and of the record preserves.
Inv ==
    /\ TypeOK
    /\ first >= 1
    /\ page = "form" => Length > 0
    /\ pages # <<>> => page = "form"
    /\ reads # {} => page = "form"
    /\ \A n \in 1..Len(pages) : GoodPreview(pages[n])
=============================================================================
