SPECIFICATION FairSpec
CONSTANTS
    Senders = {u1, u2}
    Marks = {h1}
    Boxes = {b1, b2}
    ChanSize = 1
    None = None
INVARIANTS
    NothingStranded
    OneInbox
PROPERTIES
    MessageRuns
