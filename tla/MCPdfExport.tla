----------------------------- MODULE MCPdfExport -----------------------------
(* Instances of PdfExport for TLC.                                         *)
EXTENDS PdfExport

\* No record, and records around a week and around the size of the form.
MCStart == {0, 6, 29}

\* Bound: a record grows by two or three readings from there.
Few == last <= 2 \/ (6 <= last /\ last <= 8) \/ last >= 29
=============================================================================
