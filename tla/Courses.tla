------------------------------ MODULE Courses ------------------------------
(***************************************************************************)
(* AuthoringService over one course of an instructor: its status, its      *)
(* curriculum, the revisions (copies of the course that an administrator   *)
(* merges back) and the requests to delete it, while learners enrol and    *)
(* buy.  The instructor works in several tabs, one administrator reviews;  *)
(* each request is cut between what it checks and what it writes.  A       *)
(* request that is refused changes nothing and is left out, incomplete     *)
(* lessons and a lapsed category are such refusals; the course is assigned *)
(* to no organization or partner.                                          *)
(***************************************************************************)
EXTENDS Integers, FiniteSetsExt

CONSTANTS
  Editors,      \* requests that the instructor may have in flight
  MaxLessons,   \* bound: lesson rows ever created in the course
  MaxCopies,    \* bound: revisions ever cloned
  MaxDeletions  \* bound: deletion requests ever made

LessonIds == 1..MaxLessons
Copies == 1..MaxCopies
Deletions == 1..MaxDeletions

ASSUME CourseAssumption ==
  /\ MaxLessons \in Nat \ {0} /\ MaxCopies \in Nat /\ MaxDeletions \in Nat

VARIABLES
  course,    \* Course.status, "gone" once the row is deleted
  lessons,   \* [live, archived]: the course's Lesson rows, by archivedAt
  created,   \* how many lesson rows the course has had
  copies,    \* Copies -> a revision with its CourseRevisionRequest
  deletions, \* Deletions -> status of a CourseDeletionRequest
  learning,  \* whether an enrolment of the course is not COMPLETED
  ordered,   \* whether an OrderItem refers to the course
  tab,       \* Editors -> the instructor's request in flight
  admin      \* the administrator's request in flight

courseVars == <<course, lessons, created, copies, deletions, learning, ordered, tab, admin>>

Reviews == {"none", "PENDING", "APPROVED", "REJECTED"}
CopyRow == [status : {"none", "DRAFT", "REVIEW"}, kept : SUBSET LessonIds, fresh : Nat,
            review : Reviews]
NoCopy == [status |-> "none", kept |-> {}, fresh |-> 0, review |-> "none"]
TabState == [at : {"none", "edit", "status", "find", "clone", "submit", "request"},
             copy : 0..MaxCopies, to : {"none", "DRAFT", "REVIEW", "PUBLISHED"}]
IdleTab == [at |-> "none", copy |-> 0, to |-> "none"]
AdminState == [at : {"none", "merge", "approve", "remove"}, copy : 0..MaxCopies,
               kept : SUBSET LessonIds, fresh : Nat, deletion : 0..MaxDeletions]
IdleAdmin == [at |-> "none", copy |-> 0, kept |-> {}, fresh |-> 0, deletion |-> 0]

CourseTypeOK ==
  /\ course \in {"DRAFT", "REVIEW", "PUBLISHED", "gone"}
  /\ lessons \in [live : SUBSET LessonIds, archived : SUBSET LessonIds]
  /\ created \in 0..MaxLessons
  /\ copies \in [Copies -> CopyRow]
  /\ deletions \in [Deletions -> Reviews]
  /\ learning \in BOOLEAN
  /\ ordered \in BOOLEAN
  /\ tab \in [Editors -> TabState]
  /\ admin \in AdminState

CourseInit ==
  /\ course = "DRAFT"
  /\ lessons = [live |-> {1}, archived |-> {}]
  /\ created = 1
  /\ copies = [c \in Copies |-> NoCopy]
  /\ deletions = [d \in Deletions |-> "none"]
  /\ learning = FALSE /\ ordered = FALSE
  /\ tab = [t \in Editors |-> IdleTab] /\ admin = IdleAdmin

-----------------------------------------------------------------------------
Exists(c) == copies[c].status # "none"
PendingRevision == {c \in Copies : copies[c].review = "PENDING"}
PendingDeletion == {d \in Deletions : deletions[d] = "PENDING"}
LessonRows == lessons.live \cup lessons.archived
Sort(live, archived) == lessons' = [live |-> live, archived |-> archived]

Start(t, at, c, to) ==
  tab[t] = IdleTab /\ tab' = [tab EXCEPT ![t] = [at |-> at, copy |-> c, to |-> to]]
Return(t) == tab' = [tab EXCEPT ![t] = IdleTab]
curriculum == <<lessons, created>>
world == <<learning, ordered>>

\* assertCourseWritable for the instructor; copy 0 is the course itself.
Writable(c) ==
  IF c = 0 THEN course \in {"DRAFT", "REVIEW"}
  ELSE Exists(c) /\ copies[c].review # "PENDING"

\* Mutant: a revision under review is not frozen.
BeginEditUnfrozen(t, c) ==
  /\ IF c = 0 THEN course \in {"DRAFT", "REVIEW"} ELSE Exists(c)
  /\ Start(t, "edit", c, "none")
  /\ UNCHANGED <<course, curriculum, copies, deletions, world, admin>>

BeginEdit(t, c) ==
  /\ Writable(c)
  /\ Start(t, "edit", c, "none")
  /\ UNCHANGED <<course, curriculum, copies, deletions, world, admin>>

\* addLesson, removeLesson (and removeSection, of its lessons).
EditCourse ==
  \/ /\ created < MaxLessons
     /\ created' = created + 1
     /\ Sort(lessons.live \cup {created + 1}, lessons.archived)
  \/ \E l \in lessons.live : Sort(lessons.live \ {l}, lessons.archived) /\ UNCHANGED created

EditCopy(c) ==
  \/ /\ created + copies[c].fresh < MaxLessons
     /\ copies' = [copies EXCEPT ![c].fresh = @ + 1]
  \/ copies[c].fresh > 0 /\ copies' = [copies EXCEPT ![c].fresh = @ - 1]
  \/ \E l \in copies[c].kept : copies' = [copies EXCEPT ![c].kept = @ \ {l}]

\* What was deleted meanwhile is not found.
WriteEdit(t) ==
  /\ tab[t].at = "edit" /\ Return(t)
  /\ LET c == tab[t].copy IN
     \/ c = 0 /\ course # "gone" /\ EditCourse /\ UNCHANGED copies
     \/ c # 0 /\ Exists(c) /\ EditCopy(c) /\ UNCHANGED curriculum
     \/ (IF c = 0 THEN course = "gone" ELSE ~ Exists(c)) /\ UNCHANGED <<curriculum, copies>>
  /\ UNCHANGED <<course, deletions, world, admin>>

-----------------------------------------------------------------------------
(* setStatus and validateStatusChange. *)

HasLessons(c) == IF c = 0 THEN LessonRows # {} ELSE copies[c].kept # {} \/ copies[c].fresh > 0
StatusOf(c) == IF c = 0 THEN course ELSE copies[c].status

\* The instructor publishes only what was submitted, never a revision.
BeginStatus(t, c, to) ==
  /\ Writable(c)
  /\ to # "DRAFT" => HasLessons(c)
  /\ to = "PUBLISHED" => c = 0 /\ course = "REVIEW"
  /\ Start(t, "status", c, to)
  /\ UNCHANGED <<course, curriculum, copies, deletions, world, admin>>

SetStatus(c, to) ==
  \/ c = 0 /\ course # "gone" /\ course' = to /\ UNCHANGED copies
  \/ c # 0 /\ Exists(c) /\ copies' = [copies EXCEPT ![c].status = to] /\ UNCHANGED course
  \/ StatusOf(c) \in {"gone", "none"} /\ UNCHANGED <<course, copies>>

WriteStatus(t) ==
  /\ tab[t].at = "status" /\ Return(t)
  /\ SetStatus(tab[t].copy, tab[t].to)
  /\ UNCHANGED <<curriculum, deletions, world, admin>>

-----------------------------------------------------------------------------
(* ensureCourseRevision and submitCourseRevision. *)

\* A pending revision is returned as it is.
OpenRevision(t) ==
  /\ course = "PUBLISHED" /\ PendingRevision = {}
  /\ Start(t, "find", 0, "none")
  /\ UNCHANGED <<course, curriculum, copies, deletions, world, admin>>

\* Mutant: only a revision that still is a draft is found.
FindDraftByStatus(t) ==
  /\ tab[t].at = "find"
  /\ IF \E c \in Copies : copies[c].status = "DRAFT" /\ copies[c].review = "none"
     THEN Return(t) ELSE tab' = [tab EXCEPT ![t].at = "clone"]
  /\ UNCHANGED <<course, curriculum, copies, deletions, world, admin>>

FindDraft(t) ==
  /\ tab[t].at = "find"
  /\ IF \E c \in Copies : Exists(c) /\ copies[c].review = "none"
     THEN Return(t) ELSE tab' = [tab EXCEPT ![t].at = "clone"]
  /\ UNCHANGED <<course, curriculum, copies, deletions, world, admin>>

\* Mutant: the copy takes over the status of its source.
CloneAsPublished(t) ==
  /\ tab[t].at = "clone" /\ Return(t)
  /\ LET unused == {c \in Copies : ~ Exists(c)} IN
     IF course = "gone" \/ unused = {} THEN UNCHANGED copies
     ELSE copies' = [copies EXCEPT ![Min(unused)] =
            [status |-> course, kept |-> lessons.live, fresh |-> 0, review |-> "none"]]
  /\ UNCHANGED <<course, curriculum, deletions, world, admin>>

\* cloneCourseForRevision: the source is read and copied in one step.
Clone(t) ==
  /\ tab[t].at = "clone" /\ Return(t)
  /\ LET unused == {c \in Copies : ~ Exists(c)} IN
     IF course = "gone" \/ unused = {} THEN UNCHANGED copies
     ELSE copies' = [copies EXCEPT ![Min(unused)] =
            [status |-> "DRAFT", kept |-> lessons.live, fresh |-> 0, review |-> "none"]]
  /\ UNCHANGED <<course, curriculum, deletions, world, admin>>

BeginSubmit(t, c) ==
  /\ Exists(c) /\ copies[c].review # "PENDING" /\ HasLessons(c)
  /\ Start(t, "submit", c, "none")
  /\ UNCHANGED <<course, curriculum, copies, deletions, world, admin>>

\* revisionCourseId is unique: a revision is reviewed once, and submitting it
\* again rolls back.
SubmitRevision(t) ==
  /\ tab[t].at = "submit" /\ Return(t)
  /\ LET c == tab[t].copy IN
     copies' = IF Exists(c) /\ copies[c].review = "none"
               THEN [copies EXCEPT ![c].status = "REVIEW", ![c].review = "PENDING"]
               ELSE copies
  /\ UNCHANGED <<course, curriculum, deletions, world, admin>>

-----------------------------------------------------------------------------
(* The administrator, who may write everywhere. *)

Review(row) == admin = IdleAdmin /\ admin' = row

\* Of a published course, and of a revision that is under review, too.
AdminEdits(c) ==
  /\ admin = IdleAdmin
  /\ \/ c = 0 /\ course # "gone" /\ EditCourse /\ UNCHANGED copies
     \/ c # 0 /\ Exists(c) /\ EditCopy(c) /\ UNCHANGED curriculum
  /\ UNCHANGED <<course, deletions, world, tab, admin>>

\* Drafts are the instructor's to submit, and a revision is not published itself.
AdminSetsStatus(c, to) ==
  /\ admin = IdleAdmin
  /\ StatusOf(c) \in {"REVIEW", "PUBLISHED"}
  /\ to # "DRAFT" => HasLessons(c)
  /\ to = "PUBLISHED" => c = 0
  /\ SetStatus(c, to)
  /\ UNCHANGED <<curriculum, deletions, world, tab, admin>>

\* approveCourseRevision: the revision is read first, with its lessons.
BeginApproval(c) ==
  /\ copies[c].review = "PENDING" /\ copies[c].status = "REVIEW" /\ HasLessons(c)
  /\ Review([at |-> "merge", copy |-> c, kept |-> copies[c].kept, fresh |-> copies[c].fresh,
             deletion |-> 0])
  /\ UNCHANGED <<course, curriculum, copies, deletions, world, tab>>

\* The lessons whose source still is in the course are updated, the others are
\* created; every other lesson of the course is archived with its progress.
Merged(kept, new) == [live |-> kept \cup new, archived |-> LessonRows \ kept]

MergeRevision ==
  /\ admin.at = "merge" /\ admin' = IdleAdmin
  /\ LET c == admin.copy
         kept == admin.kept \cap LessonRows
         added == admin.fresh + Cardinality(admin.kept \ LessonRows)
     IN
     IF Exists(c) /\ created + added <= MaxLessons
     THEN /\ lessons' = Merged(kept, (created + 1)..(created + added))
          /\ created' = created + added
          /\ course' = "PUBLISHED"
          /\ copies' = [copies EXCEPT ![c].review = "APPROVED"]
     ELSE UNCHANGED <<course, curriculum, copies>>
  /\ UNCHANGED <<deletions, world, tab>>

RejectRevision(c) ==
  /\ admin = IdleAdmin /\ copies[c].review = "PENDING"
  /\ copies' = [copies EXCEPT ![c].review = "REJECTED"]
  /\ UNCHANGED <<course, curriculum, deletions, world, tab, admin>>

-----------------------------------------------------------------------------
(* Deletion. *)

\* assertCourseDeletable.
Deletable == ~ learning /\ ~ ordered

BeginDeletionRequest(t) ==
  /\ course # "gone" /\ PendingDeletion = {} /\ Deletable
  /\ Start(t, "request", 0, "none")
  /\ UNCHANGED <<course, curriculum, copies, deletions, world, admin>>

RequestDeletion(t) ==
  /\ tab[t].at = "request" /\ Return(t)
  /\ LET unused == {d \in Deletions : deletions[d] = "none"} IN
     deletions' = IF course = "gone" \/ unused = {} THEN deletions
                  ELSE [deletions EXCEPT ![Min(unused)] = "PENDING"]
  /\ UNCHANGED <<course, curriculum, copies, world, admin>>

BeginDeletionApproval(d) ==
  /\ deletions[d] = "PENDING" /\ course # "gone" /\ Deletable
  /\ Review([at |-> "approve", copy |-> 0, kept |-> {}, fresh |-> 0, deletion |-> d])
  /\ UNCHANGED <<course, curriculum, copies, deletions, world, tab>>

\* remove looks for a request that it settles too.
BeginCourseRemoval ==
  /\ course # "gone"
  /\ \E d \in IF PendingDeletion = {} THEN {0} ELSE PendingDeletion :
       Review([at |-> "remove", copy |-> 0, kept |-> {}, fresh |-> 0, deletion |-> d])
  /\ UNCHANGED <<course, curriculum, copies, deletions, world, tab>>

\* One transaction, which the foreign key of OrderItem rolls back; the course's
\* lessons, revisions and enrolments go with it.
DeleteCourse ==
  /\ admin.at \in {"approve", "remove"} /\ admin' = IdleAdmin
  /\ IF course = "gone" \/ ordered
     THEN UNCHANGED <<course, curriculum, copies, deletions, learning>>
     ELSE /\ course' = "gone" /\ learning' = FALSE
          /\ Sort({}, {}) /\ copies' = [c \in Copies |-> NoCopy] /\ UNCHANGED created
          /\ deletions' = [d \in Deletions |->
                             IF d = admin.deletion THEN "APPROVED" ELSE deletions[d]]
  /\ UNCHANGED <<ordered, tab>>

RejectDeletion(d) ==
  /\ admin = IdleAdmin /\ deletions[d] = "PENDING"
  /\ deletions' = [deletions EXCEPT ![d] = "REJECTED"]
  /\ UNCHANGED <<course, curriculum, copies, world, tab, admin>>

-----------------------------------------------------------------------------
(* Learners. *)

Enrol ==
  /\ course = "PUBLISHED" /\ learning' = TRUE
  /\ UNCHANGED <<course, curriculum, copies, deletions, ordered, tab, admin>>

FinishCourse ==
  /\ learning /\ learning' = FALSE
  /\ UNCHANGED <<course, curriculum, copies, deletions, ordered, tab, admin>>

Order ==
  /\ course = "PUBLISHED" /\ ~ ordered /\ ordered' = TRUE
  /\ UNCHANGED <<course, curriculum, copies, deletions, learning, tab, admin>>

\* What the course builder opens: the course, or the revision that
\* ensureCourseRevision returns; one that was reviewed is never shown again.
Shown == {0} \cup {c \in Copies : copies[c].review \in {"none", "PENDING"}}

Instructor(t) ==
  \/ \E c \in Shown : BeginEdit(t, c)
  \/ \E c \in Shown, to \in {"DRAFT", "REVIEW", "PUBLISHED"} : BeginStatus(t, c, to)
  \/ \E c \in Shown \ {0} : BeginSubmit(t, c)
  \/ WriteEdit(t) \/ WriteStatus(t) \/ OpenRevision(t) \/ FindDraft(t) \/ Clone(t)
  \/ SubmitRevision(t) \/ BeginDeletionRequest(t) \/ RequestDeletion(t)

Administrator ==
  \/ \E c \in Shown : AdminEdits(c)
  \/ \E c \in Shown, to \in {"DRAFT", "REVIEW", "PUBLISHED"} : AdminSetsStatus(c, to)
  \/ \E c \in Copies : BeginApproval(c) \/ RejectRevision(c)
  \/ MergeRevision
  \/ \E d \in Deletions : BeginDeletionApproval(d) \/ RejectDeletion(d)
  \/ BeginCourseRemoval \/ DeleteCourse

CourseNext == (\E t \in Editors : Instructor(t)) \/ Administrator \/ Enrol \/ FinishCourse \/ Order

CourseSpec == CourseInit /\ [][CourseNext]_courseVars

-----------------------------------------------------------------------------
(* Properties. *)

\* An instructor with one tab has one revision of the course at a time, through
\* submissions, rejections, approvals and changes of status.
OneOpenRevision ==
  Cardinality({c \in Copies : Exists(c) /\ copies[c].review \in {"none", "PENDING"}}) <= 1

\* Approving a revision publishes the revision as it then stands: what it kept and
\* what it added, the rest archived and no lesson row lost.
ApprovalPublishesRevision ==
  [][\A c \in Copies : copies[c].review = "PENDING" /\ copies'[c].review = "APPROVED" =>
       /\ course' = "PUBLISHED"
       /\ copies[c].kept \cap LessonRows \subseteq lessons'.live
       /\ lessons'.live \cap LessonRows \subseteq copies[c].kept
       /\ Cardinality(lessons'.live) = Cardinality(copies[c].kept) + copies[c].fresh
       /\ LessonRows \subseteq LessonRows']_courseVars

\* authoring.service.ts: a race after assertCourseDeletable is one "which the
\* transaction in approveDeletionRequest still catches".
ApprovedDeletionSparesLearners ==
  [][admin.at = "approve" /\ learning => course' = course]_courseVars
=============================================================================
