\* Two concurrent requests, one quiz, one question, two options.
CONSTANTS
  Tx = {t1, t2}
  Quizzes = {quiz1}
  Questions = {n1}
  Options = {o1, o2}
  NoTx = NoTx
  None = None
SPECIFICATION FairSpec
INVARIANTS
  PublishedIsPublishable
  OptionRulesHold
PROPERTIES
  ArchivedIsFrozen
  EveryTransactionEnds
