CONSTANTS
    NotInt = NotInt
    MaxLines = 3
    LineSet <- MCLineSet
SPECIFICATION FairSpec
PROPERTY
    RssAdapter
CHECK_DEADLOCK FALSE
