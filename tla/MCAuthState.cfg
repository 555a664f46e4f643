CONSTANTS
    r1 = r1
    r2 = r2
    t1 = t1
    t2 = t2
    basicHeader = basicHeader
    registryToken = registryToken
    None = None
    Kinds = {"read", "write"}
    Requests <- Two
    Credentials = {"empty", "secret", "identityOnly"}
    Issued <- Bearers
    Ids = {1, 2, 3, 4}
SYMMETRY Alike
SPECIFICATION Spec
INVARIANTS
    OneExchangePerScope
    DenialNamesItsCredential
PROPERTIES
    ExchangeIsJustified
    DenialAbsorbs
