SPECIFICATION LearningSpec
CONSTANTS
  d1 = d1
  d2 = d2
  Published = {1, 2, 3}
  Addable = {}
  Removable = {1}
  Quizzes = {3}
  Scores = {0, 80}
  PassScore = 70
  Devices = {d1}
  MaxAttempts = 1
  MayCrashLearning = FALSE
INVARIANT CertificateCoversCourse
CHECK_DEADLOCK FALSE
