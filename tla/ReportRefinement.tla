-------------------------- MODULE ReportRefinement --------------------------
(***************************************************************************)
(* The default mode implements Reports.  A report counts as delivered when *)
(* its last line is printed; what a failing name has printed of its own is *)
(* no report.  The header is left out: its note depends on measurements    *)
(* that may fail.                                                          *)
(***************************************************************************)
EXTENDS Report

(* Names before the current one, and the current one once all has ended    *)
(* well.                                                                   *)
Delivered == IF pc = "exit 0" THEN turn ELSE turn - 1

Collected(t) ==
  [kind \in Kinds \ {"header"} |-> Printed(kind, t)]

Promise ==
  INSTANCE Reports WITH
    reports <- [t \in 1 .. Delivered |-> Collected(t)],
    status  <- IF Ended THEN pc ELSE "running"

(***************************************************************************)
(* The tables sorted in place, the nested loops, the scan for the binding  *)
(* row and the early returns add up to whole reports, one per name and in  *)
(* order, each a function of its name and the flags: a step delivers the   *)
(* next report, refuses it, or shows nothing of either.                    *)
(***************************************************************************)
ImplementsReports == Promise!Safety

(***************************************************************************)
(* However large the grid and long the list, a program that is not done    *)
(* comes to deliver the last report or to refuse one.                      *)
(***************************************************************************)
EndsAsPromised == Promise!Ends
=============================================================================
