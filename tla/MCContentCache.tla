--------------------------- MODULE MCContentCache ---------------------------
(* Instances of ContentCache for TLC: which calls the clients make.         *)
EXTENDS ContentCache, TLC

CONSTANTS p1, p2, g1, g2, a, b, d1, d2, s1, s2

Symmetry ==
  Permutations(Producers) \cup Permutations(GenerationNames) \cup Permutations(FileNames)
    \cup Permutations(Data) \cup Permutations(GeometryStatuses)

\* One geometry, as a whole, to which every message belongs.
OneGeometry == {<<1, 0>>}
NoGeometry == {}
EveryMessage == [m \in Messages |-> <<1, 1>>]

\* Files are registered with all their content, replaced and deleted in every
\* way that is announced.
WholeFiles == {
  "addProducerInfo", "deleteProducerInfoById", "addGenerationInfo",
  "setGenerationInfoStatusById", "deleteGenerationInfoById",
  "deleteGenerationInfoListByProducerId", "addGeometryInfo", "setGeometryInfo",
  "setGeometryInfoStatusById", "deleteGeometryInfoById",
  "deleteGeometryInfoListByGenerationId", "deleteGeometryInfoListByProducerId",
  "addFileInfo", "addFileInfoWithContentList", "deleteFileInfoById",
  "deleteFileInfoListByProducerId", "deleteFileInfoListByGenerationId",
  "setContentInfo", "deleteContentInfo", "deleteContentListByFileId",
  "deleteContentListByProducerId", "deleteContentListByGenerationId", "clear"}

\* Files that get their content one by one, and a storage that is cleared.
Increments == {
  "addGenerationInfo", "setGenerationInfoStatusById", "addFileInfo", "addContentList",
  "addFileInfoListWithContent", "setContentInfo", "deleteFileInfoById",
  "deleteGenerationInfoById", "clear"}

\* Content is deleted and comes again.
ContentAgain == {"deleteContentInfo", "addContentList"}
=============================================================================
