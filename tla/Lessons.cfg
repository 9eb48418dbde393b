SPECIFICATION LessonsSpec
CONSTANT
    Tests <- AllTests
INVARIANTS
    OnlyDangerousGoWrong
    PostconditionsHold
    AssertionsHold
    NoDataRace
    OneInstance
PROPERTIES
    TestsEnd
