\* Files of up to four lines, nests of up to nine, with room for blocks two deep.
CONSTANTS
    Garbage = Garbage
    Broken = Broken
    Unclosed <- TheUnclosed
    Documents <- TheDocuments
    MaxDepth = 2
    AllocFails = TRUE
\* The function returns: nothing follows.
CHECK_DEADLOCK FALSE
SPECIFICATION Spec
INVARIANTS
    ParserTypeOK
    LinesAsWritten
    
    ConditionsBelong
PROPERTIES
    ReadsSections
    EachStepConsumes
    ParseEnds
