------------------------- MODULE MCReportExportQueue -------------------------
(* Instances of ReportExportQueue small enough for TLC. *)
EXTENDS ReportExportQueue, TLC

Interchangeable == Permutations(Run)
=============================================================================
