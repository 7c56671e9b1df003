SPECIFICATION DocsSpec
CONSTANTS
  DocTexts = {1, 2}
  Indexers = {m1}
  NoDoc = NoDoc
  MaxDocEdits = 1
PROPERTIES SweepsStaleOnly
\* The document stays as it is.
CHECK_DEADLOCK FALSE
