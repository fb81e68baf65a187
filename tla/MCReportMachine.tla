-------------------------- MODULE MCReportMachine --------------------------
(***************************************************************************)
(* Small instances of ReportMachine.                                       *)
(***************************************************************************)
EXTENDS ReportMachine

\* A commit adds nothing that is counted.
NoGrowth == {0}

\* A commit adds nothing that is counted, or the reserve of 1.
SomeGrowth == {0, 1}
=============================================================================
