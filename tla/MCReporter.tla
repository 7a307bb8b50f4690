---------------------------- MODULE MCReporter -----------------------------
(* Reporter with two outputs and all files of a few lines.                 *)
EXTENDS Reporter
=============================================================================
