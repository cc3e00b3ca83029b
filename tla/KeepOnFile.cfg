\* testuser003 enters a first address.
CONSTANTS
    UIntMax = 1
    ULongMax = 3
    Users = {"testuser003"}
    SampleFiles <- Files
    TypedText <- Names
    TypedNumbers <- ShortNumbers
    TypedDates <- Dates
SPECIFICATION Spec
PROPERTIES
    KeptWithConsent
