CONSTANTS
  Calls <- TheCalls
  ChanCap = 1
  MaxTries = 3
SPECIFICATION FairSpec
INVARIANTS TypeOK OneReader AnswersAreOwn TransactionsEnd StatementsClosedFirst
           StatementsAsMeant
PROPERTIES ImplementsDelivery CallsReturn CallsAdvance
CHECK_DEADLOCK FALSE
