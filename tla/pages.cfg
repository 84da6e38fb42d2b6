SPECIFICATION Spec
CONSTANTS
  SlideIds = {"s1", "s2", "s3"}
  FirstSlides <- MCFirstSlides
  Texts = {"old", "mine", "theirs", "fresh"}
  Music = {"old", "mine", "theirs"}
  Deleters = {"here", "there"}
  Here = "here"
  There = "there"
  Budgets <- MCBudgets
  OptionNames = {"o1", "o2", "o3"}
  ApiItems <- MCApiItems
  MaxOptions = 3
  Efforts <- MCEfforts
  Shades = {9, 190, 1000}
  Tunes = {"old", "mine"}
  Names = {"old", "mine"}
  FirstRow <- MCFirstRow
  Foreign <- MCForeign
  SaveBudgets <- MCSaveBudgets
  Forms = {"choice", "text"}
  Choices = {"a", "b"}
  MaxRuns = 2
  MaxPosts = 2
  MaxTouches = 2
  Shows <- MCShows
  MaxVersion = 10
  Nicks = {"a", "b", "c"}
  HeldNicks = {"c"}
  MaxJoins = 3
  MaxVisits = 2
  MaxChanges = 3
  MaxFailures = 2
  Decks = {"d1", "d2", "d3"}
  MaxTitle = 3
  MaxOps = 2
  Talks = {"t1", "t2", "t3", "t4"}
  FirstTalks = {"t1", "t2", "t3"}
  Searches <- MCSearches
  BatchSize = 2
  Rooms <- MCRooms
  Definitions <- MCDefinitions
  Selections = {{1}, {1, 2}, {2, 3}}
  Marks = {2}
  Limit = 1
  Scenes <- MCScenes
  Emails = {"a", "b"}
  MaxAttempts = 1
  Ttl = 2
  Delay = 1
  MaxCodes = 2
  MaxTime = 2
  MaxSubmits = 2
CHECK_DEADLOCK FALSE
INVARIANTS
  TrustedViewIsCurrent
    OnlyCheckedImages
  
  SentMeansStored OneKeyPerAnswer 
  NextIsNeverRefused PodiumMeansEnded
  OneSeat
  StageIsCurrentWhenQuiet
  DeletedMeansGone
  ListsAreOneList ReportAddsUp
  AttemptsBounded ExpiredMeansExpired
PROPERTIES
  EditsActOnWhatWasSeen SavesKeepTheOrder AnsweredSlidesStand
  SavedAsShown
  StoredColoursAreDrawn
  RunIsNeverLost TypingIsKept
