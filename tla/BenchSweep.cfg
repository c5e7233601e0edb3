SPECIFICATION Spec
CONSTANTS
  Process = {p1, p2}
  Node <- MCNode
  Tree <- MCTree
  Key = {"lexical", "cosine"}
  Model <- MCModel
  Doc <- MCDoc
  Text <- MCText
  Lexical <- MCLexical
  Cosine <- MCCosine
  Judged <- MCJudged
  FetchK = 3
  Dataset = {"nfcorpus", "programmers"}
  Corpora <- MCCorpora
  Pipeline <- MCPipeline
  Unknown = "gone"
  Sweeps <- MCSweeps
  MaxClock = 4
  Null = Null
SYMMETRY Symmetry
INVARIANTS
  VectorsAligned
  CachesAreTransparent
  DepthDelivered
  ReportIsLatest
