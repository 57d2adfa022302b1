SPECIFICATION FairSpec
CONSTANTS
    Lines = 2
    MaxRetries = 3
    Flusher = Flusher
    Publisher = Publisher
    Completion = Completion
    NoNumber = NoNumber
INVARIANTS
    TypeOK
    EntryInOnePlace
    NumbersDense
PROPERTIES
    DeliverySpec
    EverythingSettles
CHECK_DEADLOCK FALSE
