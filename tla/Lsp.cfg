SPECIFICATION FairSpec
CONSTANTS
  MaxDocs = 2
  MaxEdits = 1
  MaxRequests = 1
  MaxTasks = 2
  InboxSize = 1
PROPERTIES ServerFollows AnswersMeetTheirText RequestsEnd ServerCatchesUp
