------------------------------ MODULE Learning ------------------------------
(***************************************************************************)
(* One learner in one course: EnrollmentService (toggleLesson,             *)
(* markLessonComplete, recompute, manageCertificate), QuizService          *)
(* (submitAttempt) and the maintenance rollup that repairs completions,    *)
(* while approved revisions change the course.  The learner uses several   *)
(* devices; each request is cut at its awaits and may die at any of them.  *)
(* Lessons are numbered in course order.                                   *)
(***************************************************************************)
EXTENDS Integers, FiniteSetsExt

CONSTANTS
  Published,       \* the lessons the course is first published with
  Addable,         \* lessons a later revision may add
  Removable,       \* lessons a later revision may drop
  Quizzes,         \* the lessons that are quizzes
  Scores,          \* the scores an attempt may get
  PassScore,       \* the quizzes' passScore
  Devices,         \* requests that the learner may have in flight
  MaxAttempts,     \* bound: how many quiz attempts may be saved
  MayCrashLearning \* whether a handler may die between two awaits

Lessons == Published \cup Addable

ASSUME LearningAssumption ==
  /\ Lessons \subseteq Nat /\ IsFiniteSet(Lessons) /\ Published # {}
  /\ Published \cap Addable = {} /\ Removable \subseteq Published
  /\ Quizzes \subseteq Lessons
  /\ Scores \subseteq 0..100 /\ PassScore \in 1..100
  /\ MaxAttempts \in Nat
  /\ MayCrashLearning \in BOOLEAN

VARIABLES
  outline,     \* [live, archived]: the Lesson rows, by archivedAt
  progress,    \* lesson -> LessonProgress row
  status,      \* Enrollment.status
  certificate, \* whether the enrolment's Certificate row exists
  notices,     \* CERTIFICATE_ISSUED notifications
  result,      \* quiz -> QuizResult row
  attempts,    \* quiz -> how many QuizAttempt rows there are
  device,      \* Devices -> the request in flight
  rollup       \* the maintenance job: [at, completed]

rows == <<progress, status, certificate, notices, result, attempts>>
learnVars == <<outline, rows, device, rollup>>

Steps == {"idle", "toggle", "write", "unwrite", "count", "status", "certificate",
          "issue", "attempt", "save", "mark"}
NoResult == [attempts |-> 0, best |-> 0, passed |-> FALSE]
ResultRow == [attempts : Nat, best : 0..100, passed : BOOLEAN]
DeviceState == [pc : Steps, lesson : Lessons, done : BOOLEAN, score : 0..100, prev : ResultRow]
Resting == [pc |-> "idle", lesson |-> CHOOSE l \in Published : TRUE, done |-> FALSE,
            score |-> 0, prev |-> NoResult]

LearningTypeOK ==
  /\ outline \in [live : SUBSET Lessons, archived : SUBSET Lessons]
  /\ progress \in [Lessons -> {"none", "done", "undone"}]
  /\ status \in {"IN_PROGRESS", "COMPLETED"}
  /\ certificate \in BOOLEAN
  /\ notices \in Nat
  /\ result \in [Quizzes -> ResultRow]
  /\ attempts \in [Quizzes -> Nat]
  /\ device \in [Devices -> DeviceState]
  /\ rollup \in [at : {"idle", "counted", "complete"}, completed : Nat]

LearningInit ==
  /\ outline = [live |-> Published, archived |-> {}]
  /\ progress = [l \in Lessons |-> "none"]
  /\ status = "IN_PROGRESS"
  /\ certificate = FALSE
  /\ notices = 0
  /\ result = [q \in Quizzes |-> NoResult]
  /\ attempts = [q \in Quizzes |-> 0]
  /\ device = [d \in Devices |-> Resting]
  /\ rollup = [at |-> "idle", completed |-> 0]

-----------------------------------------------------------------------------
Present == outline.live \cup outline.archived
Done == {l \in Lessons : progress[l] = "done"}

\* isLessonSequentiallyAccessible, over an outline that keeps archived lessons.
\* The reads of assertLessonAccessible and the grants it checks are one step:
\* lessons are never removed from the outline, and access is not revoked here.
Accessible(l) == l \in Present /\ \A k \in Present : k < l => k \in Done

\* countLessonsAndCompleted, isCourseComplete.
CourseComplete == outline.live # {} /\ Cardinality(Done) >= Cardinality(outline.live)

To(d, pc) == device' = [device EXCEPT ![d].pc = pc]
Finish(d) == device' = [device EXCEPT ![d] = Resting]

-----------------------------------------------------------------------------
(* toggleLesson. *)

\* Mutant: no sequence check.
BeginToggleAnywhere(d, l) ==
  /\ device[d].pc = "idle"
  /\ l \in Present
  /\ device' = [device EXCEPT ![d] = [Resting EXCEPT !.pc = "toggle", !.lesson = l]]
  /\ UNCHANGED <<outline, rows, rollup>>

BeginToggle(d, l) ==
  /\ device[d].pc = "idle"
  /\ Accessible(l)
  /\ device' = [device EXCEPT ![d] = [Resting EXCEPT !.pc = "toggle", !.lesson = l]]
  /\ UNCHANGED <<outline, rows, rollup>>

ReadProgress(d) ==
  /\ device[d].pc = "toggle"
  /\ To(d, IF device[d].lesson \in Done THEN "unwrite" ELSE "write")
  /\ UNCHANGED <<outline, rows, rollup>>

\* The row stays, for the time learned.
UncompleteLesson(d) ==
  /\ device[d].pc = "unwrite"
  /\ progress' = [progress EXCEPT ![device[d].lesson] = "undone"]
  /\ To(d, "count")
  /\ UNCHANGED <<outline, status, certificate, notices, result, attempts, rollup>>

CompleteLesson(d) ==
  /\ device[d].pc = "write"
  /\ progress' = [progress EXCEPT ![device[d].lesson] = "done"]
  /\ To(d, "count")
  /\ UNCHANGED <<outline, status, certificate, notices, result, attempts, rollup>>

-----------------------------------------------------------------------------
(* recompute, one await at a time. *)

CountLessons(d) ==
  /\ device[d].pc = "count"
  /\ device' = [device EXCEPT ![d].pc = "status", ![d].done = CourseComplete]
  /\ UNCHANGED <<outline, rows, rollup>>

UpdateStatus(d) ==
  /\ device[d].pc = "status"
  /\ status' = IF device[d].done THEN "COMPLETED" ELSE "IN_PROGRESS"
  /\ To(d, "certificate")
  /\ UNCHANGED <<outline, progress, certificate, notices, result, attempts, rollup>>

\* Mutant: an enrolment that is not complete gets one too.
LookUpCertificateOnly(d) ==
  /\ device[d].pc = "certificate"
  /\ IF certificate THEN Finish(d) ELSE To(d, "issue")
  /\ UNCHANGED <<outline, rows, rollup>>

LookUpCertificate(d) ==
  /\ device[d].pc = "certificate"
  /\ IF certificate \/ ~ device[d].done THEN Finish(d) ELSE To(d, "issue")
  /\ UNCHANGED <<outline, rows, rollup>>

\* Mutant: the learner is told although the insert failed.
IssueAndNotify(d) ==
  /\ device[d].pc = "issue"
  /\ certificate' = TRUE
  /\ notices' = notices + 1
  /\ Finish(d)
  /\ UNCHANGED <<outline, progress, status, result, attempts, rollup>>

\* Row and notification in one transaction, which the unique enrollmentId rolls
\* back when another request was faster.
IssueCertificate(d) ==
  /\ device[d].pc = "issue"
  /\ certificate' = TRUE
  /\ notices' = IF certificate THEN notices ELSE notices + 1
  /\ Finish(d)
  /\ UNCHANGED <<outline, progress, status, result, attempts, rollup>>

-----------------------------------------------------------------------------
(* submitAttempt. *)

BeginAttempt(d, q, score) ==
  /\ device[d].pc = "idle"
  /\ Accessible(q)
  /\ attempts[q] < MaxAttempts
  /\ device' = [device EXCEPT ![d] = [Resting EXCEPT !.pc = "attempt", !.lesson = q,
                                                     !.score = score]]
  /\ UNCHANGED <<outline, rows, rollup>>

ReadResult(d) ==
  /\ device[d].pc = "attempt"
  /\ device' = [device EXCEPT ![d].pc = "save", ![d].prev = result[device[d].lesson]]
  /\ UNCHANGED <<outline, rows, rollup>>

Larger(x, y) == IF x >= y THEN x ELSE y
Passed(d) == device[d].score >= PassScore

\* Mutant: the last score replaces the best one.
AttemptScored(d) ==
  [attempts |-> device[d].prev.attempts + 1, best |-> device[d].score,
   passed |-> Passed(d) \/ device[d].prev.passed]

\* Mutant: the scores add up.
AttemptSummed(d) ==
  [attempts |-> device[d].prev.attempts + 1, best |-> device[d].prev.best + device[d].score,
   passed |-> Passed(d) \/ device[d].prev.passed]

\* What the upsert writes comes from the row as read, except that a row it has
\* to create starts with one attempt, which is what was read then.
AttemptCounted(d) ==
  [attempts |-> device[d].prev.attempts + 1,
   best |-> Larger(device[d].prev.best, device[d].score),
   passed |-> Passed(d) \/ device[d].prev.passed]

SaveAttempt(d) ==
  /\ device[d].pc = "save"
  /\ attempts[device[d].lesson] < MaxAttempts
  /\ result' = [result EXCEPT ![device[d].lesson] = AttemptCounted(d)]
  /\ attempts' = [attempts EXCEPT ![device[d].lesson] = @ + 1]
  /\ IF Passed(d) THEN To(d, "mark") ELSE Finish(d)
  /\ UNCHANGED <<outline, progress, status, certificate, notices, rollup>>

\* markLessonComplete checks the access again, and throws when it is gone.
MarkLesson(d) ==
  /\ device[d].pc = "mark"
  /\ IF Accessible(device[d].lesson) THEN To(d, "write") ELSE Finish(d)
  /\ UNCHANGED <<outline, rows, rollup>>

-----------------------------------------------------------------------------
(* The hourly rollup: the counts first, the write when they agree. *)

FindIncomplete ==
  /\ rollup.at = "idle" /\ status # "COMPLETED"
  /\ rollup' = [at |-> "counted", completed |-> Cardinality(Done)]
  /\ UNCHANGED <<outline, rows, device>>

\* countLessonsByCourse counts archived lessons too.
CompareTotal ==
  /\ rollup.at = "counted"
  /\ rollup' = [rollup EXCEPT !.at =
                  IF Present # {} /\ rollup.completed >= Cardinality(Present)
                  THEN "complete" ELSE "idle"]
  /\ UNCHANGED <<outline, rows, device>>

\* Mutant: the repair is never written.
MarkNothing ==
  /\ rollup.at = "complete"
  /\ rollup' = [at |-> "idle", completed |-> 0]
  /\ UNCHANGED <<outline, rows, device>>

MarkCompleted ==
  /\ rollup.at = "complete"
  /\ status' = "COMPLETED"
  /\ rollup' = [at |-> "idle", completed |-> 0]
  /\ UNCHANGED <<outline, progress, certificate, notices, result, attempts, device>>

-----------------------------------------------------------------------------
\* approveCourseRevision: lessons that the revision does not keep are archived,
\* with their progress; new ones are created.
Revise(added, removed) ==
  /\ added \subseteq Addable \ Present /\ removed \subseteq Removable \cap outline.live
  /\ added \cup removed # {}
  /\ (outline.live \cup added) \ removed # {}
  /\ outline' = [live |-> (outline.live \cup added) \ removed,
                 archived |-> outline.archived \cup removed]
  /\ UNCHANGED <<rows, device, rollup>>

Die(d) ==
  /\ MayCrashLearning /\ device[d].pc # "idle"
  /\ Finish(d)
  /\ UNCHANGED <<outline, rows, rollup>>

Continue(d) ==
  \/ ReadProgress(d) \/ UncompleteLesson(d) \/ CompleteLesson(d)
  \/ CountLessons(d) \/ UpdateStatus(d) \/ LookUpCertificate(d) \/ IssueCertificate(d)
  \/ ReadResult(d) \/ SaveAttempt(d) \/ MarkLesson(d)

Rollup == FindIncomplete \/ CompareTotal \/ MarkCompleted

LearningNext ==
  \/ \E d \in Devices :
       \/ \E l \in Lessons : BeginToggle(d, l)
       \/ \E q \in Quizzes, score \in Scores : BeginAttempt(d, q, score)
       \/ Continue(d) \/ Die(d)
  \/ Rollup
  \/ \E added \in SUBSET Addable, removed \in SUBSET Removable : Revise(added, removed)

LearningSpec == LearningInit /\ [][LearningNext]_learnVars

\* Handlers run on unless they die, and BullMQ repeats the rollup every hour.
LearningFairSpec ==
  LearningSpec /\ WF_learnVars(Rollup) /\ \A d \in Devices : WF_learnVars(Continue(d))

-----------------------------------------------------------------------------
(* Properties. *)

Touched == {l \in Lessons : progress[l] # "none"}

\* progress.ts: "A lesson is available only when every lesson before it in the
\* course has been completed".  Lessons may be unchecked again on another device
\* between the check and the write, but none is ever reached past a published
\* one that never was completed.
SequenceNeverSkipped ==
  \A l \in Touched, k \in Published : k < l => k \in Touched

\* README.md: "Certificates on 100% course completion".  While revisions only
\* append, whoever holds a certificate completed every lesson that the course was
\* published with, whatever was unchecked, counted late or appended meanwhile.
CertificateIsEarned == certificate => Published \subseteq Touched

\* The same, of the lessons that are still in the course when revisions drop some.
CertificateCoversCourse == certificate => outline.live \subseteq Touched

\* Two devices that finish the course at once issue one certificate, and the
\* learner is told once.
ToldOncePerCertificate == notices = (IF certificate THEN 1 ELSE 0)

\* QuizResult is written from a stale read, so attempts of two devices may be
\* lost, but it never claims an attempt that was not made, and its verdict is the
\* one of its best score.
QuizResultIsConsistent ==
  \A q \in Quizzes :
    /\ result[q].attempts <= attempts[q]
    /\ result[q].passed <=> result[q].best >= PassScore

\* maintenance.processor.ts: "Reconcile enrollment completion: mark COMPLETED when
\* every lesson is done".  Handlers that die before they write the status, or that
\* write one counted earlier, do not keep a finished enrolment open for good.
FinishedIsRepaired == <>[](Present \subseteq Done) => <>[](status = "COMPLETED")
=============================================================================
