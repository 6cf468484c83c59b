--------------------------- MODULE MCMkvParallel ---------------------------
(* Model-checking instance of MkvParallel.                                 *)
EXTENDS MkvParallel, MCMkvFiles

MCFiles == Illegible(CuedFiles(Layouts) \cup DamagedFiles)
MCActive == {{2}, {1, 2}}
MCWorkers == {1, 2, 3}
=============================================================================
