CONSTANTS
    IntWidth = 8
    AsciiLetters = {"a", "d", "e", "i", "n", "o", "r", "s", "v"}
    OsTokens <- MCOsTokens
    ParseIntErrorKind = "Fatal"
    MetaDomain <- MCMetaDomain
    ListedNames <- MCListedNames
    None = None
SPECIFICATION Spec
INVARIANTS RoundTrip
