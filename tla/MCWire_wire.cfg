CONSTANTS
    browser = browser  console = console
    M = M  X = X  BAR = BAR  NL = NL  SP = SP  JUNK = JUNK  STALE = STALE
    Workers <- Two
    Browsers <- OneBrowser
    Commands <- Known
    Script <- Dialog
    MAX_ARGS = 1
    ArgSize = 2
    BYTE = 2
    MAX7 = 1
    BufSize = 6
    MAX_CUTS = 1
SPECIFICATION Spec
INVARIANTS WireTypeOK ParsedRight HeardRight NothingLost LengthsAgree Base64Right
CHECK_DEADLOCK FALSE
