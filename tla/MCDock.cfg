CONSTANTS
    Codes = {"left", "right"}
    KbdCap = 2
    Keys = {"Home", "End"}
    KeyValue <- SomeKeys
    ValueOrder <- SomeOrder
    Modes <- SomeModes
    MaxTyped = 3
    MaxRx = 2
    MaxResets <- SomeResets
SPECIFICATION Spec
INVARIANTS DockLineCurrent FnNeverStuck InTypingOrder
PROPERTIES NewByteIsAnEdge StagedInsertion InsertedAgain
CHECK_DEADLOCK FALSE
