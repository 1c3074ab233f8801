SPECIFICATION FairSpec
CONSTANTS
    ann = ann
    bob = bob
    eve = eve
    Users <- MCUsers
    Chats <- MCChats
    Messages <- MCMessages
    MaxFiles = 2
    Increment = 2
    MaxSize = 3
    Junk = Junk
    None = None
CHECK_DEADLOCK FALSE
INVARIANTS
    SkippedTold
    NotifiedOnce
    Intact
PROPERTIES
    EmptyMeansEmpty
    OnlyBrokenStreamsBlock
