SPECIFICATION FairSpec
INVARIANTS TypeOK AllOrNothing FreedQuietly
PROPERTIES ReleaseEnds StatusHandled
\* The camera may be destroyed.
CHECK_DEADLOCK FALSE
