SPECIFICATION Spec
CONSTANTS
  Root <- MCRoot
  Entry <- MCEntry
  Fixed <- MCFixed
  File <- MCFile
  Main <- MCMain
  Link <- MCLink
  Extensions <- MCExtensions
  Embedded <- MCEmbedded
  Stdlib <- MCStdlib
  Specifier <- MCSpecifier
  CacheCap = 1
  None = None
INVARIANTS
  RelativeToImporter
