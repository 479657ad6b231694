SPECIFICATION Spec
CONSTANTS
  clusterCount_ = 3
  Slots = 2
  Layout = "partitioned"
  Paths <- AndDirectory
  Dirs = {"d"}
  Kinds = {"power", "error"}
  Backwards = FALSE
  MaxCells = 3
  MaxFaults = 1
INVARIANTS
  
  ClustersAccounted
PROPERTIES
  TablesAgree
