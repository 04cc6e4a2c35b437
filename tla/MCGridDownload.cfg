\* A grid of four rows in blocks of two, whose columns the page shows and hides.
SPECIFICATION GridSpec
CONSTANTS
    LastRow = 4
    GridBlock = 2
    GridLimit = 2
    MaxGridSteps = 3
CHECK_DEADLOCK FALSE
PROPERTY
    DownloadKeepsFilter
