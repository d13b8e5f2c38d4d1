\* Startup with up to two options, changes of options while serving, and the
\* codec on whole, short, long, malformed and cut messages.
SPECIFICATION MCSpec
CONSTANTS
  Versions = {0, 1, 2}
  Requests <- SomeRequests
  Formats <- SomeFormats
  Sizes = {0, 1, 2, 7, 8, 9, 10, 12, 13, 15, 20, 24, 26, 46, 47, 48, 49, 50, 53, 60, 61, 62, 63, 65}
  Lengths = {0, 1, 3, 14, 65535}
  Names = {0, 4}
  StreamEnds = {"eof", "error"}
  Sources <- AllSources
  StartupOptions <- AllOptions
  RuntimeOptions <- ChangeableOptions
  Numerals = {"7"}
  Addresses <- AddressLists
  Msizes = {23, 24}
  MaxOptions = 2
  MaxChanges = 1
INVARIANTS SourceParsed ReadyWhenAnnounced OptionsReproduce SizeAnnounced StaysFramed OutcomeRight NoOverrun TypesAgree
CHECK_DEADLOCK FALSE
