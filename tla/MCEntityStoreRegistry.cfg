CONSTANTS
    Callers = {c1, c2}
    Urls = {"https://www.example.com", "https://app.example.com", "http://localhost:8080"}
    Identifiers = {"example.com", "https://www.example.com", "https://app.example.com", "http://localhost:8080"}
    Hashes = {"h_pic1"}
    RegistrableDomain <- MCRegistrableDomain
    Origin <- MCOrigin
    Profiles = {p1, p2}
    ImageNames = {"pic1"}
    ImageHash <- MCImageHash
    NoRow = NoRow
    None = None
    Err = Err
SYMMETRY MCSymmetry
SPECIFICATION Spec
INVARIANTS KeysReferenceDapps ListedIdentifiersUnique
