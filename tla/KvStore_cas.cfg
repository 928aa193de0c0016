SPECIFICATION Spec
CONSTANTS
    Threads = {t1, t2}
    Keys = {a}
    Journalled = FALSE
    MaxVersion = 3
    MaxCrashes = 0
PROPERTIES
    CasReplacesExpected
