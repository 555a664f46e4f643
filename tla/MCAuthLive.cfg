CONSTANTS
    r1 = r1
    r2 = r2
    t1 = t1
    t2 = t2
    basicHeader = basicHeader
    registryToken = registryToken
    None = None
    Kinds = {"write", "upload"}
    Requests <- Two
    Credentials = {"empty", "secret", "identityOnly", "registryToken"}
    Issued = {t1}
    Ids = {1, 2, 3}
SPECIFICATION FairSpec
INVARIANTS
    AtMostTwoSends
PROPERTIES
    RequestsEnd
