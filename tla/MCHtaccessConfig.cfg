\* Three configurations of one http, server and location block, one worker at a time. After
\* the third there is no reload left: MaxCycles is why it may stop.
CONSTANTS
    Texts <- SomeTexts
    Levels = 3
    Values = {"off", "on", ".htaccess", "10"}
    Sizes = {"0", "512", "1024"}
    MaxCycles = 3
    Workers = {w1}
    Unset = Unset
    Nil = Nil
SPECIFICATION Spec
INVARIANTS
    ConfigTypeOK
    NearestWins
PROPERTIES
    OnlyLateFailuresDangle
    
CHECK_DEADLOCK FALSE
