SPECIFICATION MCSpec
CONSTANTS
    Calls = {"a", "b", "bad", "none"}
    Nameless = {"bad"}
    Pieces <- Fragments
    Plans <- Answers
    Capacity = 1
    Jobs = {1, 2}
    CommandPlans <- Made
    Dirs = {"d"}
    MaxLines <- Bounds
    Buffer = 1
INVARIANTS
    AnswerIsTrue
    CommandsAreTrue
PROPERTIES
    ExchangesEnd
