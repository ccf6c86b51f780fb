------------------------------ MODULE MCExamples ------------------------------
(* Small instances of Examples for TLC.                                     *)
EXTENDS Examples

MCRuns == 1..5
MCClicks == 1..3
=============================================================================
