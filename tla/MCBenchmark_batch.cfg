SPECIFICATION BenchmarkSpec
CONSTANTS
    NTools = 4
    MaxHelpers = 0
    MaxId = 8
    Reprs <- MCReprs
    None = None
    Foreign = Foreign
    Replacers = {}
    NPrograms = 2
    TestCases = {"t1", "t2"}
INVARIANT
    FailedTranslationIsReported
