SPECIFICATION Spec
CONSTANTS
  MechFile = main_mec
  WebPage = page_html
  Other = other
  Files = {main_mec, page_html, other}
  KindOf <- ImageKind
  IndexFiles <- IndexIsPage
  Codes = {}
  Absent = absent
  Blank = blank
  MaxVersion = 2
  Roots = {dir}
  FilesIn <- AllFiles
  CodeText <- ParsingCode
  MaxLoads = 2
  MaxEvents = 2
INVARIANTS StoreConsistent EditsReachStore
PROPERTIES NeverBackwards
CHECK_DEADLOCK FALSE
