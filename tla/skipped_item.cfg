SPECIFICATION PresentingSpec
CONSTANTS
  Shows <- MCShows
  MaxVersion = 10
CHECK_DEADLOCK FALSE
PROPERTY NoItemIsSkipped
