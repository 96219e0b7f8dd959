---------------------------- MODULE MCCutReader -----------------------------
(***************************************************************************)
(* A buffer of three units and files of six, with a header of one, so that *)
(* four records already fill three files: records that share the buffer,   *)
(* that go around it, and that have a file for themselves.  Pages of one   *)
(* cut, of two, or none.                                                   *)
(***************************************************************************)
EXTENDS CutReader

MCRecordSize == {1, 2, 4, 6}
MCPageSize == {0, 1, 2}
=============================================================================
