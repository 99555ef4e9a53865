SPECIFICATION FairSpec
INVARIANTS TreeWhole StringsHeld
PROPERTY FreeKeepsAndEnds
CHECK_DEADLOCK FALSE
