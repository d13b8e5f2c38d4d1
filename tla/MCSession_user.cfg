\* Users given by name or by number.
SPECIFICATION MCSpec
CONSTANTS
  Versions = {2}
  Requests = {}
  Formats = {}
  Sizes = {}
  Lengths = {}
  Names = {}
  StreamEnds = {}
  Sources <- UserSources
  StartupOptions = {}
  RuntimeOptions = {}
  Numerals = {"7"}
  Addresses <- AddressLists
  Msizes = {24}
  MaxOptions = 0
  MaxChanges = 0
INVARIANTS AttachesAsUser
CHECK_DEADLOCK FALSE
