---------------------------- MODULE MCCutWriter -----------------------------
(***************************************************************************)
(* A buffer of four units and files of eight, with a header of one: small  *)
(* records, records of more than half the buffer, records that go around   *)
(* it, and records too large for any file.                                 *)
(***************************************************************************)
EXTENDS CutWriter

MCRecordSize == {2, 3, 5, 8}
=============================================================================
