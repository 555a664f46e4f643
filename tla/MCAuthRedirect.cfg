CONSTANTS
    r1 = r1
    r2 = r2
    t1 = t1
    t2 = t2
    basicHeader = basicHeader
    registryToken = registryToken
    None = None
    Kinds = {"read"}
    Requests <- One
    Credentials = {"secret"}
    Issued = {t1}
    Ids = {1, 2}
SPECIFICATION FairSpec
PROPERTIES
    RequestsEnd
