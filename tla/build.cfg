SPECIFICATION FairSpec
CONSTANTS
    r1 = r1
    r2 = r2
    r3 = r3
    r4 = r4
    t1 = t1
    t2 = t2
    p1 = p1
    p2 = p2
    Catalog <- FullPages
    Tags = {t1, t2}
    Invalid = {r2}
    Suspects <- OneSuspect
    Notified <- OneNotified
    ListingMayFail = TRUE
    BatchMayFail = TRUE
    Parsers = {p1, p2}
    PageLen = 2
    RepoCap = 1
    ImageCap = 1
    TaskCap = 1
INVARIANTS TypeOK OnePlace NoSendAfterClose WholeCatalogBrowsed AllOrNothing
PROPERTY BuildEnds
CHECK_DEADLOCK FALSE
