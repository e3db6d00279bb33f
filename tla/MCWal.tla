------------------------------- MODULE MCWal -------------------------------
(***************************************************************************)
(* Model-checking instance of Wal.  Blocks of 16 bytes leave 9 payload    *)
(* bytes after a header.  A 2-byte record at a block start leaves exactly *)
(* a header's worth (7 bytes) behind it, so the next record starts with   *)
(* an empty First fragment; a 12-byte record spans two or three blocks    *)
(* (First/Last, or First/Middle/Last) and can leave a 6-byte trailer that *)
(* the next record pads.  Initial offsets cover the file start, a record  *)
(* interior, a block-tail record start (9), a block start (16) and a      *)
(* block interior.                                                         *)
(***************************************************************************)
EXTENDS Wal

MCBlockSize == 16
MCRecLens == {2, 12}
MCInitialOffsets == {0, 5, 9, 16, 20}
=============================================================================
