\* As MCHeaderParse.cfg, checking only the decoding of an encoded Subject
\* that is the second header.
CONSTANTS
    Names <- MCNames
    Vals <- MCVals
    MaxHeaders = 2
    NoValue = NoValue
    Heap <- MCHeap
SPECIFICATION Spec
INVARIANT MimeDecodedAsSpecified
\* The record is built once.
CHECK_DEADLOCK FALSE
