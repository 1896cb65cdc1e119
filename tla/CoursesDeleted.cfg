SPECIFICATION CourseSpec
CONSTANTS
  e1 = e1
  Editors = {e1}
  MaxLessons = 2
  MaxCopies = 2
  MaxDeletions = 1
PROPERTY ApprovedDeletionSparesLearners
CHECK_DEADLOCK FALSE
