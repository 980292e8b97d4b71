-------------------------- MODULE MCContentStorage --------------------------
(* Instances of ContentStorage for TLC: which calls the clients make.       *)
EXTENDS ContentStorage, TLC

CONSTANTS p1, p2, g1, g2, a, b, d1, d2, s1, s2

Symmetry ==
  Permutations(Producers) \cup Permutations(GenerationNames) \cup Permutations(FileNames)
    \cup Permutations(Data) \cup Permutations(GeometryStatuses)

\* The messages are of one geometry, at different levels; it is registered as a
\* whole and, in one instance, also for one of the levels.
OneGeometry == {<<1, 0>>}
TwoGeometries == {<<1, 0>>, <<1, 2>>}
LevelsOfOneGeometry == [m \in Messages |-> <<1, m + 1>>]

\* The calls of the loaders that keep every record where it belongs.
LoaderCalls == {
  "addProducerInfo", "deleteProducerInfoById", "addGenerationInfo",
  "setGenerationInfoStatusById", "deleteGenerationInfoById",
  "deleteGenerationInfoListByProducerId", "addFileInfo",
  "addFileInfoWithContentList", "addFileInfoListWithContent",
  "addFileInfoListWithContent(replace)", "deleteFileInfoById", "deleteFileInfoByName",
  "deleteFileInfoListByGenerationId",
  "deleteFileInfoListByFileIdList", "setContentInfo", "addContentList",
  "deleteContentInfo", "deleteContentListByFileId",
  "deleteContentListByGenerationId", "clear",
  "deleteProducerInfoByName", "setGenerationInfoStatusByName",
  "deleteGenerationInfoByName", "deleteGenerationInfoListByIdList",
  "deleteGenerationInfoListByProducerName", "deleteFileInfoListByProducerId",
  "deleteFileInfoListByProducerName", "deleteFileInfoListByGenerationName",
  "deleteContentListByFileName", "deleteContentListByProducerId",
  "deleteContentListByProducerName", "deleteContentListByGenerationName",
  "addGeometryInfo", "setGeometryInfo", "setGeometryInfoStatusById",
  "deleteGeometryInfoById", "deleteGeometryInfoListByGenerationId",
  "deleteGeometryInfoListByProducerId"}

AllCalls == LoaderCalls \cup {
  "setProducerInfo", "setGenerationInfo", "setFileInfo", "addContentInfo",
  "deleteFileInfoListByGenerationIdAndForecastTime",
  "deleteFileInfoListByForecastTimeList"}
=============================================================================
