\* testuser001, who has an address and a card.
CONSTANTS
    UIntMax = 1
    ULongMax = 3
    Users = {"testuser001"}
    SampleFiles <- Files
    TypedText <- Names
    TypedNumbers <- ShortNumbers
    TypedDates <- Dates
SPECIFICATION Spec
PROPERTIES
    RefusalHonoured
