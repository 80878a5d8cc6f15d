SPECIFICATION FairSpec
CONSTANTS
    t1 = t1
    t2 = t2
    t3 = t3
    t4 = t4
    t5 = t5
    w1 = w1
    w2 = w2
    w3 = w3
    Tags = {t1, t2, t3, t4, t5}
    Workers = {w1, w2, w3}
    TagCap = 1
    ImageCap = 1
    Unreadable = {t1, t2, t3}
    NoTag = NoTag
INVARIANTS TypeOK OnePlace NoSendAfterClose
PROPERTIES ImplementsStream WalkEnds
CHECK_DEADLOCK FALSE
