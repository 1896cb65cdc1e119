SPECIFICATION LearningFairSpec
CONSTANTS
  d1 = d1
  d2 = d2
  Published = {1, 2}
  Addable = {3}
  Removable = {}
  Quizzes = {2}
  Scores = {0, 80}
  PassScore = 70
  Devices = {d1, d2}
  MaxAttempts = 2
  MayCrashLearning = TRUE
INVARIANTS
  LearningTypeOK
  SequenceNeverSkipped
  CertificateIsEarned
  ToldOncePerCertificate
  QuizResultIsConsistent
PROPERTY FinishedIsRepaired
CHECK_DEADLOCK FALSE
