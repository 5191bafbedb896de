SPECIFICATION BundlerSpec
CONSTANTS
  v1 = v1  v2 = v2  emuA = emuA  emuB = emuB  data = data
  None = None  Torn = Torn
  Versions <- MCVersions
  Files <- MCFiles
  Contents <- MCContents
  Shipping <- MCShipping
  Candidates <- MCCandidates
  Chunks = 2
INVARIANTS BundlerTypeOK RecordMeansWhole BinaryOfRelease ReturnLeaves
