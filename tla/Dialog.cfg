\* Sessions that follow each other, of a user with address and card on file and
\* one without, and of two more who cannot log in.  They type whatever the
\* prompts accept: numbers that fit, that the cast to unsigned int cuts and that
\* are too long.  Expiration dates begin with a digit.
CONSTANTS
    UIntMax = 1
    ULongMax = 2
    Users = {"testuser001", "testuser002", "testuser003", "testuser004"}
    SampleFiles <- Files
    TypedText <- Anything
    TypedNumbers <- AnyNumbers
    TypedDates <- Dates
SPECIFICATION FairSpec
INVARIANTS
    TypeOK
    AddressWhole
    LoginWorks
    OrderComplete
    FileMatchesMemory
    OneOrderAfterEOF
PROPERTIES
    ImplementsStages
    SettlesAfterEOF
