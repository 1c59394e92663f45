CONSTANTS
  MaxSizeT = 15
  Base = 3
  Host = "big"
  LowerOf <- MCLowerOf
  Uppers = {"A", "B"}
  Lowers = {"a", "b"}
  Separators = {"_"}
  Characters = {"a", "b", " "}
  Spaces = {" "}
  FileBytes <- MCFileBytes
  Inputs <- MCInputs
  PageSizes = {1, 2, 3}
  MaxLength = 5
  MaxCandidate = 4
  Dimensions = {0, 1, 2, 3}
  Nodes <- MCNodes
SPECIFICATION Spec
INVARIANTS
  PagesAreThoseOfBytes
  BatchesStayInFile
  MatchIsBest
  SplitAndJoinAgree
  StringsAreClean
  ArraysKeepTheirPoints
  TraversalsAreOrders
  BytesHaveTheirMeaning
  BatchIsAllOrNothing
