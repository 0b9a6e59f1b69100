--------------------------- MODULE MCDedupeIoctl ---------------------------
(***************************************************************************)
(* Instances of DedupeIoctl for TLC.                                       *)
(***************************************************************************)
EXTENDS DedupeIoctl

AllKernels == {"shortens", "reports_all", "refuses"}
=============================================================================
