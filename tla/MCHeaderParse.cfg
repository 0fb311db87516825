\* Every message with up to two header lines, each with or without a
\* continuation line, whose names are From, Subject, Date or another one.
CONSTANTS
    Names <- MCNames
    Vals <- MCVals
    MaxHeaders = 2
    NoValue = NoValue
    Heap <- MCHeap
SPECIFICATION Spec
INVARIANT HeaderFieldsAsSpecified
\* The record is built once.
CHECK_DEADLOCK FALSE
