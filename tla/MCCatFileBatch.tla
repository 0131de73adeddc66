--------------------------- MODULE MCCatFileBatch ---------------------------
(***************************************************************************)
(* Model checking of CatFileBatch: an empty blob, one of the largest size   *)
(* that is read, one that is too large and a path that is missing.          *)
(***************************************************************************)
EXTENDS CatFileBatch

MCPath == {"empty.h", "full.h", "huge.h", "missing.h"}
MCSize == [p \in MCPath |-> CASE p = "empty.h" -> 0
                              [] p = "full.h" -> kMaxBlobSizeBytes
                              [] p = "huge.h" -> kMaxBlobSizeBytes + 1
                              [] p = "missing.h" -> Missing]
=============================================================================
