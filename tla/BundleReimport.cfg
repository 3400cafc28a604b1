SPECIFICATION BundleSpec
CONSTANTS
  Importers = {1,2}
  Upstream <- TheUpstream
  Words = {"a", "index", "A", "T", "one", "r", "x", "y", "z", "Document"}
  ReservedNames = {"index"}
  Titles = {"T"}
  Tags <- TheTags
  Resources = {"r"}
  Texts = {"one"}
  PageSize = 2
  MaxDocs = 4
  MaxEdits = 1
  MaxImports = 3
PROPERTY ReimportNeverGrows
CHECK_DEADLOCK FALSE
