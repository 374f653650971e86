---------------------------- MODULE MCSyncSinks ----------------------------
(* A small instance of SyncSinks for TLC: the table is absent, of the right *)
(* types, of text, or lacks a column.                                      *)
EXTENDS SyncSinks

MCTables == {[value |-> "float", sequence |-> "int"],
             [value |-> "str",   sequence |-> "str"],
             [value |-> "float"]}
=============================================================================
