--------------------------- MODULE MCWasiFileSystem ---------------------------
(* Tables a host may provide: one with every function, one that ends in the      *)
(* middle of path_open, one of another version, one with a null function and one *)
(* too short to say that it has anything.                                        *)
EXTENDS WasiFileSystem

MCTables == {"whole", "short", "newer", "sparse", "empty"}
WholeSize == End("path_open")
MCContents ==
  [a \in MCTables |->
    [version |-> IF a = "newer" THEN 2 ELSE 1,
     size |-> CASE a = "short" -> WholeSize - 4
                [] a = "empty" -> Header
                [] OTHER -> WholeSize,
     has |-> CASE a = "sparse" -> Names \ {"fd_pread", "fd_write"}
               [] a = "empty" -> {}
               [] OTHER -> Names]]
=============================================================================
