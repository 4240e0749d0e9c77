--------------------------- MODULE MCObjectHeader ---------------------------
(***************************************************************************)
(* Headers of 12 bits for every layout of up to five fields, and sizes up  *)
(* to the point where they wrap around a size_t of ten bits, with ints of  *)
(* eight.                                                                  *)
(***************************************************************************)
EXTENDS ObjectHeader

CONSTANTS MaxFields, Types

MCLayouts ==
  UNION {[1 .. n -> Types] : n \in 0 .. MaxFields}

MCRawSizes == 0 .. SIZE_LIMIT - 1

=============================================================================
