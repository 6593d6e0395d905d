---------------------------- MODULE MCJudyTables ----------------------------
(***************************************************************************)
(* Every table of the library, of both builds.                             *)
(***************************************************************************)
EXTENDS JudyTables

MCTables == JudyLTables \cup Judy1Tables

=============================================================================
