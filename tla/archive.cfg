SPECIFICATION FairSpec
CONSTANTS
  MaxSockets = 3
  Workers = {"w1", "w2"}
  Depth = 1
  Archive <- MCArchive
  MainPage = "near"
  MaxHops = 1
  FilePieces = 1
INVARIANTS OneOwner RightAnswer
PROPERTIES AnsweredOnce ServerStaysFree EveryRequestEnds
