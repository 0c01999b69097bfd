--------------------------- MODULE MCRegistration ---------------------------
(* Instances of Registration for TLC.                                      *)
EXTENDS Registration

\* An empty field and a number.
MCNumber == {0, 120}

\* Bound: the run looks no further than the first OK.
UpToOk == under = <<>>

\* Bound: every way through the pages is followed up to the first OK; beyond
\* it only where no list is longer than the five entries AuthAdd needs.
ShortAfterOk ==
    under = <<>> \/ \A w \in {wiz} \cup {under[n] : n \in 1..Len(under)} :
                        Len(w.userConf) <= 5
=============================================================================
