SPECIFICATION Spec
CONSTANTS
  MechFile = main_mec
  WebPage = page_html
  Other = other
  Files = {main_mec, other}
  KindOf <- CsvKind
  IndexFiles <- NoIndex
  Codes = {code}
  Absent = absent
  Blank = blank
  MaxVersion = 2
  Roots = {dir}
  FilesIn <- AllFiles
  CodeText <- ParsingCode
  MaxLoads = 2
  MaxEvents = 3
PROPERTIES LockReleased EventsConsumed
CHECK_DEADLOCK FALSE
