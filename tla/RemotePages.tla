---------------------------- MODULE RemotePages -----------------------------
(***************************************************************************)
(* The page numbers that the remote memory hands out, as a process or a    *)
(* server that has no part in their allocation sees them.                  *)
(***************************************************************************)

CONSTANTS Pages,      \* pages that the remote memory has left
          RMEM_NULL   \* the null page number

=============================================================================
