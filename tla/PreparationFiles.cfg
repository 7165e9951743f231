\* One process that does anything, and one that registers or reports beside it.
SPECIFICATION PreparationSpec
CONSTANTS
  Cells <- MCCells
  Blank = ""
  Number <- MCNumber
  TextRank <- MCTextRank
  Spaces <- MCSpaces
  XmlText <- MCXmlText
  LongTexts = {"long"}
  MaxRows = 4
  MaxColumns = 2
  MaxCells = 7
  Heavy <- MCHeavy
  Letters <- MCLetters
  Paths <- MCPaths
  PathText <- MCPathText
  Excluded = {"key"}
  Managed = {"main", "util"}
  Selected = {"main", "out"}
  Databases = {"db"}
  DatabaseTerms <- MCDatabaseTerms
  ChunkSize = 2
  DetailLimit = 2
  FileLimit = 2
  Runs = {r1, r2}
  MayDo <- MCMayDo
  Recipes <- MCRecipes
  Sheets <- MCSheets
  Profiles <- MCProfiles
  Queries <- MCQueries
  Found <- MCFound
  Worlds <- MCWorlds
  Quoting <- MCQuoting
  MaxVersion = 2
  MaxEdits = 1
  Absent = Absent
  r1 = r1
  r2 = r2
INVARIANTS
  VerdictIsRight
  ReadyHasTheOnlyMatch
  FiledIsKept
CHECK_DEADLOCK FALSE
