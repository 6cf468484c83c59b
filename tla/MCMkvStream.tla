---------------------------- MODULE MCMkvStream ----------------------------
(* Model-checking instance of MkvStream and of its refinement.             *)
EXTENDS MkvRefinement, MCMkvFiles

MCSoundFiles == CuedFiles(Layouts) \cup UncuedFiles(Layouts)
MCFiles == MCSoundFiles
             \cup Timed(CuedFiles(FewLayouts) \cup UncuedFiles(FewLayouts))
             \cup Illegible(DamagedFiles \cup CuedFiles(FewLayouts)
                             \cup UncuedFiles(FewLayouts))
MCActive == {{1}, {1, 2}}

(* Files with cues for one of the tracks only, or for all blocks.          *)
MCHalfOrFullyCued == HalfCuedFiles \cup CuedFiles(FewLayouts)
MCNoneOrFirst == {NoRange, UpToTheFirst}
=============================================================================
