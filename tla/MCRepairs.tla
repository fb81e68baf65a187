------------------------------ MODULE MCRepairs ------------------------------
(* A company with filings only and one worker of each script; there is       *)
(* everything to get.                                                        *)
EXTENDS Repairs

FilingsOnly == << {"filings"} >>
EveryKind == << {Kinds} >>
OneWorkerEach == [c1 |-> "catchup", s1 |-> "sweep", f1 |-> "finalizer", b1 |-> "backfill", r1 |-> "scores", p1 |-> "serial"]
=============================================================================
