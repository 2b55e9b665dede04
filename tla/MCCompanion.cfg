CONSTANTS
    Keys = {k1, k2}
    Sources = {"touch", "keys", "card", "jacket"}
    Drivers = {"ce", "battery", "other"}
    MaxPlugs = 4
    BufLens = {0, 2, 3}
    MinBatch = 2
    Catchup = 4
    MaxBlocks = 5
    Window = 4
    CountRange = 10
    Timeout = 2
    MaxWakes = 1
    DigitRange = 3
    StepTime = 3
    Full = 3
    MaxElapsed = 11
    Width = 2
    Written = {1, 2}
    MaxTasks = 3
SPECIFICATION MCSpec
INVARIANTS ChangesKept LastContactTrue SoundInOrder ResetOnlyWhenDue ClocksKeepTime EepromAnswers
PROPERTIES LineFollowsSource HeldPenIsSampled
CHECK_DEADLOCK FALSE
