------------------------------- MODULE MCRMem -------------------------------
(***************************************************************************)
(* Instances of the remote memory service for model checking.              *)
(***************************************************************************)
EXTENDS RMem

\* Every page number but those of the null blocks.
AllocatablePages == {p \in Servers \X Blocks : p[2] # 0}

\* The null blocks of the servers other than server 0, whose page numbers
\* differ from RMEM_NULL, are included.
AllPages == Servers \X Blocks

NullBlocks == {p \in AllPages : p[2] = 0}

=============================================================================
