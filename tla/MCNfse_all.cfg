SPECIFICATION FairSpec
CONSTANTS
  n1 = n1
  r1 = r1
  r2 = r2
  Notes <- OneNote
  Requests <- TwoRequests
  MaxRestarts = 1
INVARIANTS TypeOK StatusHasEvent
PROPERTIES NoRegression AnswerIsRecorded PdfFollows
CHECK_DEADLOCK FALSE
