\* testuser003, who types an expiration date that begins with a letter.
CONSTANTS
    UIntMax = 1
    ULongMax = 3
    Users = {"testuser003"}
    SampleFiles <- Files
    TypedText <- Names
    TypedNumbers <- ShortNumbers
    TypedDates <- Months
SPECIFICATION Spec
INVARIANTS
    LoginWorks
