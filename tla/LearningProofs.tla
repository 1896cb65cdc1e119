--------------------------- MODULE LearningProofs ---------------------------
(***************************************************************************)
(* Learning proved for every course, number of devices and attempts.       *)
(***************************************************************************)
EXTENDS Learning, FiniteSetTheorems, TLAPS

-----------------------------------------------------------------------------
(* What a request carries. *)

LEMMA Resting_Lemma == Resting \in DeviceState /\ Resting.pc = "idle" /\ Resting.done = FALSE
<1>1. (CHOOSE l \in Published : TRUE) \in Lessons
  BY LearningAssumption DEF Lessons
<1>2. NoResult \in ResultRow
  BY DEF NoResult, ResultRow
<1> QED
  BY <1>1, <1>2 DEF Resting, DeviceState, Steps

LEMMA Finish_Lemma ==
  ASSUME LearningTypeOK, NEW d \in Devices, Finish(d)
  PROVE  /\ device' \in [Devices -> DeviceState]
         /\ device'[d].pc = "idle" /\ device'[d].done = FALSE
         /\ \A e \in Devices : e # d => device'[e] = device[e]
  BY Resting_Lemma DEF Finish, LearningTypeOK

LEMMA To_Lemma ==
  ASSUME LearningTypeOK, NEW d \in Devices, NEW pc \in Steps, To(d, pc)
  PROVE  /\ device' \in [Devices -> DeviceState]
         /\ device'[d].pc = pc /\ device'[d].lesson = device[d].lesson
         /\ device'[d].done = device[d].done /\ device'[d].prev = device[d].prev
         /\ \A e \in Devices : e # d => device'[e] = device[e]
<1> DEFINE row == [device[d] EXCEPT !.pc = pc]
<1>1. device[d] \in DeviceState
  BY DEF LearningTypeOK
<1>2. /\ row \in DeviceState /\ row.pc = pc /\ row.lesson = device[d].lesson
      /\ row.done = device[d].done /\ row.prev = device[d].prev
  BY <1>1 DEF DeviceState
<1>3. device' = [device EXCEPT ![d] = row]
  BY DEF To
<1> HIDE DEF row
<1> QED
  BY <1>2, <1>3 DEF LearningTypeOK

\* A request on a lesson starts.
LEMMA BeginToggle_Lemma ==
  ASSUME LearningTypeOK, NEW d \in Devices, NEW l \in Lessons, BeginToggle(d, l)
  PROVE  /\ device' \in [Devices -> DeviceState]
         /\ device'[d].pc = "toggle" /\ device'[d].lesson = l /\ device'[d].done = FALSE
         /\ \A e \in Devices : e # d => device'[e] = device[e]
<1> DEFINE row == [Resting EXCEPT !.pc = "toggle", !.lesson = l]
<1>1. /\ row \in DeviceState /\ row.pc = "toggle" /\ row.lesson = l /\ row.done = FALSE
  BY Resting_Lemma DEF DeviceState, Steps
<1>2. device' = [device EXCEPT ![d] = row]
  BY DEF BeginToggle
<1> HIDE DEF row
<1> QED
  BY <1>1, <1>2 DEF LearningTypeOK

LEMMA BeginAttempt_Lemma ==
  ASSUME LearningTypeOK, NEW d \in Devices, NEW q \in Quizzes, NEW score \in Scores,
         BeginAttempt(d, q, score)
  PROVE  /\ device' \in [Devices -> DeviceState]
         /\ device'[d].pc = "attempt" /\ device'[d].lesson = q /\ device'[d].done = FALSE
         /\ \A e \in Devices : e # d => device'[e] = device[e]
<1> DEFINE row == [Resting EXCEPT !.pc = "attempt", !.lesson = q, !.score = score]
<1>0. q \in Lessons /\ score \in 0..100
  BY LearningAssumption
<1>1. /\ row \in DeviceState /\ row.pc = "attempt" /\ row.lesson = q /\ row.done = FALSE
  BY <1>0, Resting_Lemma DEF DeviceState, Steps
<1>2. device' = [device EXCEPT ![d] = row]
  BY DEF BeginAttempt
<1> HIDE DEF row
<1> QED
  BY <1>1, <1>2 DEF LearningTypeOK

LEMMA CountLessons_Lemma ==
  ASSUME LearningTypeOK, NEW d \in Devices, CountLessons(d)
  PROVE  /\ device' \in [Devices -> DeviceState]
         /\ device'[d].pc = "status" /\ device'[d].lesson = device[d].lesson
         /\ device'[d].done = CourseComplete
         /\ \A e \in Devices : e # d => device'[e] = device[e]
<1> DEFINE row == [device[d] EXCEPT !.pc = "status", !.done = CourseComplete]
<1>0. CourseComplete \in BOOLEAN
  BY DEF CourseComplete
<1>1. device[d] \in DeviceState /\ device \in [Devices -> DeviceState]
  BY DEF LearningTypeOK
<1>2. /\ row \in DeviceState /\ row.pc = "status" /\ row.lesson = device[d].lesson
      /\ row.done = CourseComplete
  BY <1>0, <1>1 DEF DeviceState, Steps
<1>3. device' = [device EXCEPT ![d] = row]
  BY <1>1 DEF CountLessons
<1> HIDE DEF row
<1> QED
  BY <1>1, <1>2, <1>3

LEMMA ReadResult_Lemma ==
  ASSUME LearningTypeOK, NEW d \in Devices, device[d].lesson \in Quizzes, ReadResult(d)
  PROVE  /\ device' \in [Devices -> DeviceState]
         /\ device'[d].pc = "save" /\ device'[d].lesson = device[d].lesson
         /\ device'[d].done = device[d].done
         /\ device'[d].prev = result[device[d].lesson]
         /\ \A e \in Devices : e # d => device'[e] = device[e]
<1> DEFINE prev == result[device[d].lesson]
           row == [device[d] EXCEPT !.pc = "save", !.prev = prev]
<1>1. device[d] \in DeviceState /\ device \in [Devices -> DeviceState] /\ prev \in ResultRow
  BY DEF LearningTypeOK
<1> HIDE DEF prev
<1>2. /\ row \in DeviceState /\ row.pc = "save" /\ row.lesson = device[d].lesson
      /\ row.done = device[d].done /\ row.prev = prev
  BY <1>1 DEF DeviceState, Steps
<1>3. device' = [device EXCEPT ![d] = row]
  BY <1>1 DEF ReadResult, prev
<1> HIDE DEF row
<1> QED
  BY <1>1, <1>2, <1>3 DEF prev

-----------------------------------------------------------------------------
(* The invariant. *)

\* A lesson that a request is about was reached in sequence.
Reached(l) == l \in Present /\ \A k \in Published : k < l => k \in Touched

\* What was read of a quiz's result is no more than what has been saved.
ReadWas(row, q) == row.attempts <= attempts[q] /\ (row.passed <=> row.best >= PassScore)

InSequence ==
  /\ Published \subseteq Present /\ Touched \subseteq Present
  /\ \A l \in Touched, k \in Published : k < l => k \in Touched
  /\ \A d \in Devices : device[d].pc # "idle" => Reached(device[d].lesson)

Results ==
  /\ \A q \in Quizzes : ReadWas(result[q], q)
  /\ \A d \in Devices :
       /\ device[d].pc \in {"attempt", "save"} => device[d].lesson \in Quizzes
       /\ device[d].pc = "save" => ReadWas(device[d].prev, device[d].lesson)

LearningInv == LearningTypeOK /\ ToldOncePerCertificate /\ InSequence /\ Results

LEMMA LearningInit_Inv == LearningInit => LearningInv
<1> SUFFICES ASSUME LearningInit PROVE LearningInv
  OBVIOUS
<1>0. NoResult \in ResultRow /\ NoResult.attempts = 0 /\ NoResult.best = 0 /\ ~ NoResult.passed
  BY DEF NoResult, ResultRow
<1>1. LearningTypeOK
  BY <1>0, Resting_Lemma DEF LearningInit, LearningTypeOK, Lessons
<1>2. ToldOncePerCertificate
  BY DEF LearningInit, ToldOncePerCertificate
<1>3. InSequence
  BY Resting_Lemma DEF LearningInit, InSequence, Present, Touched
<1>4. Results
  BY <1>0, Resting_Lemma, LearningAssumption DEF LearningInit, Results, ReadWas
<1> QED
  BY <1>1, <1>2, <1>3, <1>4 DEF LearningInv

-----------------------------------------------------------------------------
(* One lemma for each kind of step. *)

\* A request goes on, or ends, and no row changes but the status.
LEMMA Move_Inv ==
  ASSUME LearningInv, NEW d \in Devices, device' \in [Devices -> DeviceState],
         \A e \in Devices : e # d => device'[e] = device[e],
         device'[d].pc # "idle" => Reached(device'[d].lesson),
         device'[d].pc \in {"attempt", "save"} => device'[d].lesson \in Quizzes,
         device'[d].pc = "save" => ReadWas(device'[d].prev, device'[d].lesson),
         status' \in {"IN_PROGRESS", "COMPLETED"},
         UNCHANGED <<outline, progress, certificate, notices, result, attempts, rollup>>
  PROVE  LearningInv'
<1>1. LearningTypeOK' /\ ToldOncePerCertificate'
  BY DEF LearningInv, LearningTypeOK, ToldOncePerCertificate
<1>2. InSequence'
  BY DEF LearningInv, InSequence, Reached, Present, Touched
<1>3. Results'
  BY DEF LearningInv, Results, ReadWas
<1> QED
  BY <1>1, <1>2, <1>3 DEF LearningInv

LEMMA Begin_Inv ==
  ASSUME LearningInv, NEW d \in Devices,
         \/ \E l \in Lessons : BeginToggle(d, l)
         \/ \E q \in Quizzes, score \in Scores : BeginAttempt(d, q, score)
  PROVE  LearningInv'
<1>0. LearningTypeOK /\ Published \subseteq Present /\ Done \subseteq Touched
  BY DEF LearningInv, InSequence, Done, Touched
<1>1. ASSUME NEW l \in Lessons, BeginToggle(d, l) PROVE LearningInv'
  <2>1. Reached(l)
    BY <1>0, <1>1 DEF BeginToggle, Accessible, Reached
  <2>2. UNCHANGED <<outline, progress, status, certificate, notices, result, attempts, rollup>>
    BY <1>1 DEF BeginToggle, rows
  <2> QED
    BY <1>0, <1>1, <2>1, <2>2, BeginToggle_Lemma, Move_Inv DEF LearningTypeOK
<1>2. ASSUME NEW q \in Quizzes, NEW score \in Scores, BeginAttempt(d, q, score) PROVE LearningInv'
  <2>1. Reached(q)
    BY <1>0, <1>2 DEF BeginAttempt, Accessible, Reached
  <2>2. UNCHANGED <<outline, progress, status, certificate, notices, result, attempts, rollup>>
    BY <1>2 DEF BeginAttempt, rows
  <2>3. /\ device' \in [Devices -> DeviceState]
        /\ device'[d].pc = "attempt" /\ device'[d].lesson = q
        /\ \A e \in Devices : e # d => device'[e] = device[e]
    BY <1>0, <1>2, BeginAttempt_Lemma
  <2>4. status' \in {"IN_PROGRESS", "COMPLETED"}
    BY <1>0, <2>2 DEF LearningTypeOK
  <2> QED
    BY <2>1, <2>2, <2>3, <2>4, Move_Inv
<1> QED
  BY <1>1, <1>2

LEMMA Read_Inv ==
  ASSUME LearningInv, NEW d \in Devices,
         \/ ReadProgress(d) \/ CountLessons(d) \/ UpdateStatus(d) \/ LookUpCertificate(d)
         \/ MarkLesson(d) \/ Die(d)
  PROVE  LearningInv'
<1>0. LearningTypeOK /\ device[d].pc # "idle" /\ Reached(device[d].lesson)
  BY DEF LearningInv, InSequence, ReadProgress, CountLessons, UpdateStatus, LookUpCertificate,
     MarkLesson, Die
<1>1. /\ UNCHANGED <<outline, progress, certificate, notices, result, attempts, rollup>>
      /\ status' \in {"IN_PROGRESS", "COMPLETED"}
  BY <1>0 DEF ReadProgress, CountLessons, UpdateStatus, LookUpCertificate, MarkLesson, Die, rows,
     LearningTypeOK
<1>2. CASE Finish(d)
  BY <1>0, <1>1, <1>2, Finish_Lemma, Move_Inv
<1>3. ASSUME NEW pc \in {"unwrite", "write", "certificate", "issue"}, To(d, pc) PROVE LearningInv'
  <2>1. pc \in Steps
    BY DEF Steps
  <2> QED
    BY <1>0, <1>1, <1>3, <2>1, To_Lemma, Move_Inv
<1>4. CASE CountLessons(d)
  BY <1>0, <1>1, <1>4, CountLessons_Lemma, Move_Inv
<1> QED
  BY <1>2, <1>3, <1>4 DEF ReadProgress, UpdateStatus, LookUpCertificate, MarkLesson, Die

LEMMA ReadResult_Inv ==
  ASSUME LearningInv, NEW d \in Devices, ReadResult(d)
  PROVE  LearningInv'
<1>0. /\ LearningTypeOK /\ Reached(device[d].lesson) /\ device[d].lesson \in Quizzes
      /\ ReadWas(result[device[d].lesson], device[d].lesson)
  BY DEF LearningInv, InSequence, Results, ReadResult
<1>1. /\ UNCHANGED <<outline, progress, certificate, notices, result, attempts, rollup>>
      /\ status' \in {"IN_PROGRESS", "COMPLETED"}
  BY <1>0 DEF ReadResult, rows, LearningTypeOK
<1> QED
  BY <1>0, <1>1, ReadResult_Lemma, Move_Inv

\* Progress is written where the sequence allows it; a lesson once touched stays so.
LEMMA Write_Inv ==
  ASSUME LearningInv, NEW d \in Devices, UncompleteLesson(d) \/ CompleteLesson(d)
  PROVE  LearningInv'
<1> DEFINE l == device[d].lesson
<1>0. /\ LearningTypeOK /\ Reached(l) /\ l \in Lessons /\ "count" \in Steps
      /\ UNCHANGED <<outline, status, certificate, notices, result, attempts, rollup>>
  BY DEF LearningInv, InSequence, LearningTypeOK, DeviceState, UncompleteLesson, CompleteLesson,
     Steps
<1>1. /\ device' \in [Devices -> DeviceState]
      /\ device'[d].pc = "count" /\ device'[d].lesson = l
      /\ \A e \in Devices : e # d => device'[e] = device[e]
  BY <1>0, To_Lemma DEF UncompleteLesson, CompleteLesson
<1>2. /\ progress' \in [Lessons -> {"none", "done", "undone"}]
      /\ progress'[l] # "none" /\ \A k \in Lessons : k # l => progress'[k] = progress[k]
  BY <1>0 DEF UncompleteLesson, CompleteLesson, LearningTypeOK
<1> HIDE DEF l
<1>3. Touched' = Touched \cup {l}
  BY <1>0, <1>2 DEF Touched
<1>4. LearningTypeOK' /\ ToldOncePerCertificate'
  BY <1>0, <1>1, <1>2 DEF LearningInv, LearningTypeOK, ToldOncePerCertificate
<1>5. InSequence'
  BY <1>0, <1>1, <1>3 DEF LearningInv, InSequence, Reached, Present
<1>6. Results'
  BY <1>0, <1>1 DEF LearningInv, Results, ReadWas
<1> QED
  BY <1>4, <1>5, <1>6 DEF LearningInv

LEMMA IssueCertificate_Inv ==
  ASSUME LearningInv, NEW d \in Devices, IssueCertificate(d)
  PROVE  LearningInv'
<1>0. /\ LearningTypeOK
      /\ UNCHANGED <<outline, progress, status, result, attempts, rollup>>
  BY DEF LearningInv, IssueCertificate
<1>1. /\ device' \in [Devices -> DeviceState] /\ device'[d].pc = "idle"
      /\ \A e \in Devices : e # d => device'[e] = device[e]
  BY <1>0, Finish_Lemma DEF IssueCertificate
<1>2. LearningTypeOK' /\ ToldOncePerCertificate'
  BY <1>0, <1>1 DEF LearningInv, LearningTypeOK, ToldOncePerCertificate, IssueCertificate
<1>3. InSequence' /\ Results'
  BY <1>0, <1>1 DEF LearningInv, InSequence, Reached, Present, Touched, Results, ReadWas
<1> QED
  BY <1>2, <1>3 DEF LearningInv

\* The upsert of a quiz's result: as many attempts as were read and this one.
LEMMA AttemptCounted_Lemma ==
  ASSUME LearningInv, NEW d \in Devices, device[d].pc = "save"
  PROVE  /\ AttemptCounted(d) \in ResultRow
         /\ AttemptCounted(d).attempts <= attempts[device[d].lesson] + 1
         /\ AttemptCounted(d).passed <=> AttemptCounted(d).best >= PassScore
<1> DEFINE prev == device[d].prev
           score == device[d].score
<1>1. /\ prev \in ResultRow /\ score \in 0..100
      /\ device[d].lesson \in Quizzes /\ ReadWas(prev, device[d].lesson)
  BY DEF LearningInv, LearningTypeOK, Results, DeviceState
<1>2. attempts[device[d].lesson] \in Nat /\ PassScore \in 1..100
  BY <1>1, LearningAssumption DEF LearningInv, LearningTypeOK
<1> DEFINE new == [attempts |-> prev.attempts + 1, best |-> Larger(prev.best, score),
                   passed |-> score >= PassScore \/ prev.passed]
<1>3. AttemptCounted(d) = new
  BY DEF AttemptCounted, Passed
<1> HIDE DEF prev, score
<1>4. /\ prev.attempts \in Nat /\ prev.best \in 0..100 /\ prev.passed \in BOOLEAN
      /\ prev.attempts <= attempts[device[d].lesson]
      /\ prev.passed <=> prev.best >= PassScore
  BY <1>1 DEF ResultRow, ReadWas
<1>5. Larger(prev.best, score) \in 0..100
  BY <1>1, <1>4 DEF Larger
<1>6. new \in ResultRow
  BY <1>4, <1>5 DEF ResultRow
<1>7. new.attempts <= attempts[device[d].lesson] + 1
  BY <1>2, <1>4
<1>8. Larger(prev.best, score) >= PassScore <=> (score >= PassScore \/ prev.best >= PassScore)
  BY <1>1, <1>2, <1>4 DEF Larger
<1>9. new.passed <=> new.best >= PassScore
  BY <1>4, <1>8
<1> HIDE DEF new
<1> QED
  BY <1>3, <1>6, <1>7, <1>9

LEMMA SaveAttempt_Inv ==
  ASSUME LearningInv, NEW d \in Devices, SaveAttempt(d)
  PROVE  LearningInv'
<1> DEFINE q == device[d].lesson
           new == AttemptCounted(d)
<1>0. /\ LearningTypeOK /\ Reached(q) /\ q \in Quizzes
      /\ UNCHANGED <<outline, progress, status, certificate, notices, rollup>>
  BY DEF LearningInv, InSequence, Results, SaveAttempt
<1>1. /\ new \in ResultRow /\ new.attempts <= attempts[q] + 1
      /\ new.passed <=> new.best >= PassScore
  BY AttemptCounted_Lemma DEF SaveAttempt
<1>2. result' = [result EXCEPT ![q] = new] /\ attempts' = [attempts EXCEPT ![q] = @ + 1]
  BY DEF SaveAttempt
<1>3. /\ device' \in [Devices -> DeviceState]
      /\ device'[d].pc \in {"idle", "mark"} /\ (device'[d].pc # "idle" => device'[d].lesson = q)
      /\ \A e \in Devices : e # d => device'[e] = device[e]
  BY <1>0, Finish_Lemma, To_Lemma DEF SaveAttempt, Steps
<1> HIDE DEF q, new
<1>4. /\ result \in [Quizzes -> ResultRow] /\ attempts \in [Quizzes -> Nat]
      /\ device \in [Devices -> DeviceState]
  BY <1>0 DEF LearningTypeOK
<1>5. /\ result' \in [Quizzes -> ResultRow] /\ attempts' \in [Quizzes -> Nat]
      /\ result'[q] = new /\ attempts'[q] = attempts[q] + 1
      /\ \A p \in Quizzes : p # q => result'[p] = result[p] /\ attempts'[p] = attempts[p]
  BY <1>0, <1>1, <1>2, <1>4
<1>6. \A row \in ResultRow, p \in Quizzes : ReadWas(row, p) => ReadWas(row, p)'
  BY <1>0, <1>4, <1>5 DEF ReadWas, ResultRow
<1>7. LearningTypeOK' /\ ToldOncePerCertificate' /\ InSequence'
  BY <1>0, <1>3, <1>5 DEF LearningInv, LearningTypeOK, ToldOncePerCertificate, InSequence, Reached,
     Present, Touched
<1>8. \A p \in Quizzes : ReadWas(result[p], p)'
  <2> SUFFICES ASSUME NEW p \in Quizzes PROVE ReadWas(result[p], p)'
    OBVIOUS
  <2>1. CASE p = q
    BY <1>0, <1>1, <1>5, <2>1 DEF ReadWas
  <2>2. CASE p # q
    <3>1. ReadWas(result[p], p) /\ result'[p] = result[p] /\ attempts'[p] = attempts[p]
      BY <1>5, <2>2 DEF LearningInv, Results
    <3> QED
      BY <3>1 DEF ReadWas
  <2> QED
    BY <2>1, <2>2
<1>9. ASSUME NEW e \in Devices
      PROVE  /\ device'[e].pc \in {"attempt", "save"} => device'[e].lesson \in Quizzes
             /\ device'[e].pc = "save" => ReadWas(device[e].prev, device[e].lesson)'
  <2>1. CASE e = d
    BY <1>3, <2>1
  <2>2. CASE e # d /\ device[e].pc = "save"
    <3>1. /\ device'[e] = device[e] /\ device[e].lesson \in Quizzes
          /\ device[e].prev \in ResultRow /\ ReadWas(device[e].prev, device[e].lesson)
      BY <1>3, <1>4, <2>2 DEF LearningInv, Results, DeviceState
    <3>2. attempts[device[e].lesson] <= attempts'[device[e].lesson]
      BY <1>0, <1>4, <1>5, <3>1
    <3> QED
      BY <1>4, <1>5, <3>1, <3>2 DEF ReadWas, ResultRow
  <2>3. CASE e # d /\ device[e].pc # "save"
    BY <1>3, <2>3 DEF LearningInv, Results
  <2> QED
    BY <2>1, <2>2, <2>3
<1>10. Results'
  BY <1>8, <1>9 DEF Results
<1> QED
  BY <1>7, <1>10 DEF LearningInv

\* The rollup counts, and may complete the enrolment.
LEMMA Rollup_Inv ==
  ASSUME LearningInv, Rollup
  PROVE  LearningInv'
<1>0. /\ LearningTypeOK
      /\ UNCHANGED <<outline, progress, certificate, notices, result, attempts, device>>
  BY DEF LearningInv, Rollup, FindIncomplete, CompareTotal, MarkCompleted, rows
<1>1. Cardinality(Done) \in Nat
  BY LearningAssumption, FS_Subset, FS_CardinalityType DEF Done
<1>2. /\ rollup' \in [at : {"idle", "counted", "complete"}, completed : Nat]
      /\ status' \in {"IN_PROGRESS", "COMPLETED"}
  BY <1>0, <1>1 DEF Rollup, FindIncomplete, CompareTotal, MarkCompleted, LearningTypeOK, rows
<1>3. LearningTypeOK' /\ ToldOncePerCertificate'
  BY <1>0, <1>2 DEF LearningInv, LearningTypeOK, ToldOncePerCertificate
<1>4. InSequence'
  BY <1>0 DEF LearningInv, InSequence, Reached, Present, Touched
<1>5. Results'
  BY <1>0 DEF LearningInv, Results, ReadWas
<1> QED
  BY <1>3, <1>4, <1>5 DEF LearningInv

\* A revision archives lessons; it takes none out of the outline.
LEMMA Revise_Inv ==
  ASSUME LearningInv, NEW added \in SUBSET Addable, NEW removed \in SUBSET Removable,
         Revise(added, removed)
  PROVE  LearningInv'
<1>0. /\ UNCHANGED <<progress, status, certificate, notices, result, attempts, device, rollup>>
      /\ outline' = [live |-> (outline.live \cup added) \ removed,
                     archived |-> outline.archived \cup removed]
      /\ LearningTypeOK
  BY DEF LearningInv, Revise, rows
<1>1. outline' \in [live : SUBSET Lessons, archived : SUBSET Lessons] /\ Present \subseteq Present'
  BY <1>0, LearningAssumption DEF LearningTypeOK, Lessons, Present
<1>2. LearningTypeOK' /\ ToldOncePerCertificate'
  BY <1>0, <1>1 DEF LearningInv, LearningTypeOK, ToldOncePerCertificate
<1>3. Touched' = Touched
  BY <1>0 DEF Touched
<1>4. InSequence'
  BY <1>0, <1>1, <1>3 DEF LearningInv, InSequence, Reached
<1>5. Results'
  BY <1>0 DEF LearningInv, Results, ReadWas
<1> QED
  BY <1>2, <1>4, <1>5 DEF LearningInv

LEMMA LearningNext_Inv == LearningInv /\ [LearningNext]_learnVars => LearningInv'
<1> SUFFICES ASSUME LearningInv, [LearningNext]_learnVars PROVE LearningInv'
  OBVIOUS
<1>1. ASSUME NEW d \in Devices,
             \/ \E l \in Lessons : BeginToggle(d, l)
             \/ \E q \in Quizzes, score \in Scores : BeginAttempt(d, q, score)
      PROVE  LearningInv'
  BY <1>1, Begin_Inv
<1>2. ASSUME NEW d \in Devices, Continue(d) \/ Die(d) PROVE LearningInv'
  BY <1>2, Read_Inv, ReadResult_Inv, Write_Inv, IssueCertificate_Inv, SaveAttempt_Inv DEF Continue
<1>3. CASE Rollup
  BY <1>3, Rollup_Inv
<1>4. ASSUME NEW added \in SUBSET Addable, NEW removed \in SUBSET Removable, Revise(added, removed)
      PROVE  LearningInv'
  BY <1>4, Revise_Inv
<1>5. CASE UNCHANGED learnVars
  BY <1>5 DEF learnVars, rows, LearningInv, LearningTypeOK, ToldOncePerCertificate, InSequence,
     Reached, Present, Touched, Results, ReadWas
<1> QED
  BY <1>1, <1>2, <1>3, <1>4, <1>5 DEF LearningNext

\* The inductive invariant: types, one notice for the certificate, lessons reached
\* in sequence by every request in flight, and quiz results within their attempts.
THEOREM LearningInvAlways == LearningSpec => []LearningInv
<1> QED
  BY LearningInit_Inv, LearningNext_Inv, PTL DEF LearningSpec

\* Every reachable state of the learning rows and requests has its type.
THEOREM LearningTypeCorrect == LearningSpec => []LearningTypeOK
<1>1. LearningInv => LearningTypeOK
  BY DEF LearningInv
<1> QED
  BY <1>1, LearningInvAlways, PTL

\* However many devices finish a course at once, one certificate is issued and
\* the learner told once (manageCertificate's unique index).
THEOREM OneNoticePerCertificate == LearningSpec => []ToldOncePerCertificate
<1>1. LearningInv => ToldOncePerCertificate
  BY DEF LearningInv
<1> QED
  BY <1>1, LearningInvAlways, PTL

\* No lesson is reached past a published one that never was completed, whatever
\* is unchecked, retried or revised meanwhile (assertLessonAccessible).
THEOREM LessonsAreReachedInOrder == LearningSpec => []SequenceNeverSkipped
<1>1. LearningInv => SequenceNeverSkipped
  BY DEF LearningInv, InSequence, SequenceNeverSkipped
<1> QED
  BY <1>1, LearningInvAlways, PTL

\* A quiz result never claims more attempts than were made, and has the verdict
\* of its best score, however stale the row it was computed from (submitAttempt).
THEOREM ResultsStayWithinAttempts == LearningSpec => []QuizResultIsConsistent
<1>1. LearningInv => QuizResultIsConsistent
  BY DEF LearningInv, Results, ReadWas, QuizResultIsConsistent
<1> QED
  BY <1>1, LearningInvAlways, PTL

-----------------------------------------------------------------------------
(* Certificates, of courses whose revisions only append. *)

AppendOnly == Removable = {}

\* A completion that was counted covers the published lessons, which stay touched.
Earned ==
  /\ outline.archived = {} /\ Published \subseteq outline.live
  /\ \A d \in Devices :
       /\ device[d].done => Published \subseteq Touched
       /\ device[d].pc = "issue" => device[d].done
  /\ CertificateIsEarned

\* As many completed lessons as there are live ones are all of them.
LEMMA Complete_Lemma ==
  ASSUME LearningInv, Earned, CourseComplete
  PROVE  Published \subseteq Touched
<1> DEFINE live == outline.live
<1>1. IsFiniteSet(live) /\ Published \subseteq live
  BY LearningAssumption, FS_Subset DEF LearningInv, LearningTypeOK, Earned
<1>2. Done \subseteq live
  BY DEF LearningInv, InSequence, Earned, Present, Done, Touched
<1>3. Cardinality(Done) \in Nat /\ Cardinality(live) \in Nat /\ Cardinality(Done) <= Cardinality(live)
      /\ (Cardinality(Done) = Cardinality(live) => Done = live)
  BY <1>1, <1>2, FS_Subset, FS_CardinalityType
<1>4. Cardinality(Done) >= Cardinality(live)
  BY DEF CourseComplete
<1>5. Done = live
  BY <1>3, <1>4
<1> QED
  BY <1>1, <1>5 DEF Done, Touched

LEMMA Earned_Kept ==
  ASSUME Earned, NEW d \in Devices, UNCHANGED outline, Touched \subseteq Touched',
         \A e \in Devices : e # d => device'[e] = device[e],
         device'[d].done => Published \subseteq Touched,
         device'[d].pc = "issue" => device'[d].done,
         certificate' => certificate \/ device[d].pc = "issue"
  PROVE  Earned'
  BY DEF Earned, CertificateIsEarned

LEMMA EarnedStep ==
  ASSUME AppendOnly, LearningInv, Earned, NEW d \in Devices,
         \/ \E l \in Lessons : BeginToggle(d, l)
         \/ \E q \in Quizzes, score \in Scores : BeginAttempt(d, q, score)
         \/ Continue(d) \/ Die(d)
  PROVE  Earned'
<1>0. /\ LearningTypeOK /\ UNCHANGED outline
      /\ device[d].done => Published \subseteq Touched
  BY DEF LearningInv, Earned, BeginToggle, BeginAttempt, Continue, Die, ReadProgress, UncompleteLesson,
     CompleteLesson, CountLessons, UpdateStatus, LookUpCertificate, IssueCertificate, ReadResult,
     SaveAttempt, MarkLesson
<1>1. Touched \subseteq Touched'
  <2>1. CASE UncompleteLesson(d) \/ CompleteLesson(d)
    BY <1>0, <2>1 DEF UncompleteLesson, CompleteLesson, Touched, LearningTypeOK
  <2>2. CASE UNCHANGED progress
    BY <2>2 DEF Touched
  <2> QED
    BY <2>1, <2>2 DEF BeginToggle, BeginAttempt, Continue, Die, ReadProgress, CountLessons,
       UpdateStatus, LookUpCertificate, IssueCertificate, ReadResult, SaveAttempt, MarkLesson, rows
<1>2. certificate' => certificate \/ device[d].pc = "issue"
  BY DEF BeginToggle, BeginAttempt, Continue, Die, ReadProgress, UncompleteLesson, CompleteLesson,
     CountLessons, UpdateStatus, LookUpCertificate, IssueCertificate, ReadResult, SaveAttempt,
     MarkLesson, rows
<1>3. CASE Finish(d)
  BY <1>0, <1>1, <1>2, <1>3, Finish_Lemma, Earned_Kept
<1>4. ASSUME NEW pc \in Steps \ {"issue"}, To(d, pc) PROVE Earned'
  BY <1>0, <1>1, <1>2, <1>4, To_Lemma, Earned_Kept
<1>5. CASE device[d].done /\ To(d, "issue")
  <2>1. "issue" \in Steps
    BY DEF Steps
  <2> QED
    BY <1>0, <1>1, <1>2, <1>5, <2>1, To_Lemma, Earned_Kept
<1>6. CASE CountLessons(d)
  BY <1>0, <1>1, <1>2, <1>6, CountLessons_Lemma, Complete_Lemma, Earned_Kept
<1>7. CASE ReadResult(d)
  <2>1. device[d].lesson \in Quizzes
    BY <1>7 DEF LearningInv, Results, ReadResult
  <2> QED
    BY <1>0, <1>1, <1>2, <1>7, <2>1, ReadResult_Lemma, Earned_Kept
<1>8. ASSUME NEW l \in Lessons, BeginToggle(d, l) PROVE Earned'
  BY <1>0, <1>1, <1>2, <1>8, BeginToggle_Lemma, Earned_Kept
<1>9. ASSUME NEW q \in Quizzes, NEW score \in Scores, BeginAttempt(d, q, score) PROVE Earned'
  BY <1>0, <1>1, <1>2, <1>9, BeginAttempt_Lemma, Earned_Kept
<1> QED
  BY <1>3, <1>4, <1>5, <1>6, <1>7, <1>8, <1>9
  DEF Continue, Die, ReadProgress, UncompleteLesson, CompleteLesson, UpdateStatus, LookUpCertificate,
      IssueCertificate, SaveAttempt, MarkLesson, Steps

LEMMA EarnedNext == AppendOnly /\ LearningInv /\ Earned /\ [LearningNext]_learnVars => Earned'
<1> SUFFICES ASSUME AppendOnly, LearningInv, Earned, [LearningNext]_learnVars PROVE Earned'
  OBVIOUS
<1>1. CASE Rollup
  BY <1>1 DEF Rollup, FindIncomplete, CompareTotal, MarkCompleted, rows, Earned, Touched,
     CertificateIsEarned
<1>2. ASSUME NEW added \in SUBSET Addable, NEW removed \in SUBSET Removable, Revise(added, removed)
      PROVE  Earned'
  BY <1>2 DEF Revise, rows, AppendOnly, Earned, Touched, CertificateIsEarned
<1>3. CASE UNCHANGED learnVars
  BY <1>3 DEF learnVars, rows, Earned, Touched, CertificateIsEarned
<1> QED
  BY <1>1, <1>2, <1>3, EarnedStep DEF LearningNext

LEMMA EarnedInit == LearningInit => Earned
  BY Resting_Lemma DEF LearningInit, Earned, CertificateIsEarned

\* Whoever holds a certificate completed every lesson the course was published
\* with, as long as revisions only append (recompute, manageCertificate).
THEOREM CertificatesAreEarned ==
  ASSUME AppendOnly PROVE LearningSpec => []CertificateIsEarned
<1>1. Earned => CertificateIsEarned
  BY DEF Earned
<1>2. LearningInv /\ Earned /\ [LearningNext]_learnVars => Earned'
  BY EarnedNext
<1> QED
  BY <1>1, <1>2, EarnedInit, LearningInvAlways, PTL DEF LearningSpec
=============================================================================
