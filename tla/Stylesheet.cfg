SPECIFICATION Spec
CONSTANTS
  NULL = NULL
  na = na
  nb = nb
  nc = nc
  Names = {na, nb, nc}
  Data = {d1, d2}
  Buckets = {0, 1}
  bucket_number <- MCBucket
  InitialSize = 1
  Growth = 2
  MaxUsed = 4
  Libraries = {l1}
  Groups = {g1, g2}
  Actions = {a1}
  Files = {f1}
  Words <- MCWords
  PlaceholderNames = {"x", "y"}
  Catalogs <- MCCatalogs
  Calls <- MCCalls
  MaxEdits = 1
  x = x
  y = y
  VariableNames = {x, y}
  Globals <- MCGlobals
  Literals = {1}
  MaxDepth = 2
  MaxLocals = 2
  MaxRuns = 2
  TemplateNames = {"x"}
  Modes = {NULL, "m"}
  Patterns <- MCPatterns
  Expression <- MCExpression
  Stylesheets <- MCStylesheets
  Document <- MCDocument
  root_node = 0
  StepNames = {"a"}
  MaxOperators = 2
  main_file = "main"
  Sheets <- MCSheets
  KeyNames = {"k", "l"}
  Readers = {t1, t2}
  Values = {v1, v2}
  Addresses = {m1, m2, m3, m4}
INVARIANTS
  SettingsHold
  BindingsAreCurrent
  FoundAsDefined
  CompiledAsWritten
  SheetLoaded
PROPERTIES
  IsMap
  IsQueue
CHECK_DEADLOCK FALSE
