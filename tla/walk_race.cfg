SPECIFICATION Spec
CONSTANTS
    t1 = t1
    t2 = t2
    t3 = t3
    t4 = t4
    t5 = t5
    w1 = w1
    w2 = w2
    w3 = w3
    Tags = {t1, t2}
    Workers = {w1, w2}
    TagCap = 2
    ImageCap = 1
    Unreadable = {t1}
    NoTag = NoTag
INVARIANT OnlyImagesAreSent
CHECK_DEADLOCK FALSE
