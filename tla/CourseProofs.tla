---------------------------- MODULE CourseProofs ----------------------------
(***************************************************************************)
(* Courses proved for every number of lessons, revisions and deletion      *)
(* requests, and, where it says so, for an instructor with one tab;        *)
(* Applications for a person with one tab.  At the end the services are    *)
(* put side by side, as MCServices does, and keep what each was proved of. *)
(***************************************************************************)
EXTENDS MCServices, AccountProofs

-----------------------------------------------------------------------------
(* Rows and requests. *)

LEMMA Start_Lemma ==
  ASSUME CourseTypeOK, NEW t \in Editors,
         NEW at \in {"edit", "status", "find", "submit", "request"}, NEW c \in 0..MaxCopies,
         NEW to \in {"none", "DRAFT", "REVIEW", "PUBLISHED"}, Start(t, at, c, to)
  PROVE  /\ tab' \in [Editors -> TabState]
         /\ tab'[t].at = at /\ tab'[t].copy = c /\ tab'[t].to = to
         /\ \A s \in Editors : s # t => tab'[s] = tab[s]
<1>1. [at |-> at, copy |-> c, to |-> to] \in TabState
  BY DEF TabState
<1> QED
  BY <1>1 DEF Start, CourseTypeOK

LEMMA Return_Lemma ==
  ASSUME CourseTypeOK, NEW t \in Editors, Return(t)
  PROVE  /\ tab' \in [Editors -> TabState] /\ tab'[t].at = "none"
         /\ \A s \in Editors : s # t => tab'[s] = tab[s]
<1>1. IdleTab \in TabState /\ IdleTab.at = "none"
  BY CourseAssumption DEF IdleTab, TabState
<1> QED
  BY <1>1 DEF Return, CourseTypeOK

LEMMA Copy_Lemma ==
  ASSUME CourseTypeOK, NEW c \in Copies, NEW row \in CopyRow,
         copies' = [copies EXCEPT ![c] = row]
  PROVE  /\ copies' \in [Copies -> CopyRow] /\ copies'[c] = row
         /\ \A d \in Copies : d # c => copies'[d] = copies[d]
  BY DEF CourseTypeOK

\* A new status, or a new verdict, is all that changes of a revision's row.
LEMMA Status_Lemma ==
  ASSUME CourseTypeOK, NEW c \in Copies, NEW to \in {"DRAFT", "REVIEW"},
         copies' = [copies EXCEPT ![c].status = to]
  PROVE  /\ copies' \in [Copies -> CopyRow]
         /\ copies'[c].status = to /\ copies'[c].review = copies[c].review
         /\ copies'[c].kept = copies[c].kept /\ copies'[c].fresh = copies[c].fresh
         /\ \A d \in Copies : d # c => copies'[d] = copies[d]
<1> DEFINE row == [copies[c] EXCEPT !.status = to]
<1>1. copies[c] \in CopyRow
  BY DEF CourseTypeOK
<1>2. /\ row \in CopyRow /\ row.status = to /\ row.review = copies[c].review
      /\ row.kept = copies[c].kept /\ row.fresh = copies[c].fresh
  BY <1>1 DEF CopyRow
<1>3. copies' = [copies EXCEPT ![c] = row]
  OBVIOUS
<1> HIDE DEF row
<1> QED
  BY <1>2, <1>3, Copy_Lemma

LEMMA Review_Lemma ==
  ASSUME CourseTypeOK, NEW c \in Copies, NEW v \in Reviews,
         copies' = [copies EXCEPT ![c].review = v]
  PROVE  /\ copies' \in [Copies -> CopyRow]
         /\ copies'[c].status = copies[c].status /\ copies'[c].review = v
         /\ copies'[c].kept = copies[c].kept /\ copies'[c].fresh = copies[c].fresh
         /\ \A d \in Copies : d # c => copies'[d] = copies[d]
<1> DEFINE row == [copies[c] EXCEPT !.review = v]
<1>1. copies[c] \in CopyRow
  BY DEF CourseTypeOK
<1>2. /\ row \in CopyRow /\ row.status = copies[c].status /\ row.review = v
      /\ row.kept = copies[c].kept /\ row.fresh = copies[c].fresh
  BY <1>1 DEF CopyRow
<1>3. copies' = [copies EXCEPT ![c] = row]
  OBVIOUS
<1> HIDE DEF row
<1> QED
  BY <1>2, <1>3, Copy_Lemma

\* An edit changes the lessons of a revision, nothing else of it.
LEMMA EditCopy_Lemma ==
  ASSUME CourseTypeOK, NEW c \in Copies, EditCopy(c)
  PROVE  /\ copies' \in [Copies -> CopyRow]
         /\ copies'[c].status = copies[c].status /\ copies'[c].review = copies[c].review
         /\ \A d \in Copies : d # c => copies'[d] = copies[d]
<1>1. copies[c] \in CopyRow
  BY DEF CourseTypeOK
<1>2. ASSUME NEW n \in Nat, copies' = [copies EXCEPT ![c].fresh = n]
      PROVE  /\ copies' \in [Copies -> CopyRow]
             /\ copies'[c].status = copies[c].status /\ copies'[c].review = copies[c].review
             /\ \A d \in Copies : d # c => copies'[d] = copies[d]
  <2> DEFINE row == [copies[c] EXCEPT !.fresh = n]
  <2>1. row \in CopyRow /\ row.status = copies[c].status /\ row.review = copies[c].review
    BY <1>1 DEF CopyRow
  <2>2. copies' = [copies EXCEPT ![c] = row]
    BY <1>2
  <2> HIDE DEF row
  <2> QED
    BY <2>1, <2>2, Copy_Lemma
<1>3. ASSUME NEW k \in SUBSET LessonIds, copies' = [copies EXCEPT ![c].kept = k]
      PROVE  /\ copies' \in [Copies -> CopyRow]
             /\ copies'[c].status = copies[c].status /\ copies'[c].review = copies[c].review
             /\ \A d \in Copies : d # c => copies'[d] = copies[d]
  <2> DEFINE row == [copies[c] EXCEPT !.kept = k]
  <2>1. row \in CopyRow /\ row.status = copies[c].status /\ row.review = copies[c].review
    BY <1>1 DEF CopyRow
  <2>2. copies' = [copies EXCEPT ![c] = row]
    BY <1>3
  <2> HIDE DEF row
  <2> QED
    BY <2>1, <2>2, Copy_Lemma
<1>4. copies[c].fresh \in Nat /\ copies[c].kept \in SUBSET LessonIds
  BY <1>1 DEF CopyRow
<1>5. CASE copies' = [copies EXCEPT ![c].fresh = @ + 1]
  <2>1. /\ copies[c].fresh + 1 \in Nat
        /\ copies' = [copies EXCEPT ![c].fresh = copies[c].fresh + 1]
    BY <1>4, <1>5
  <2> QED
    BY <1>2, <2>1
<1>6. CASE copies[c].fresh > 0 /\ copies' = [copies EXCEPT ![c].fresh = @ - 1]
  <2>1. /\ copies[c].fresh - 1 \in Nat
        /\ copies' = [copies EXCEPT ![c].fresh = copies[c].fresh - 1]
    BY <1>4, <1>6
  <2> QED
    BY <1>2, <2>1
<1>7. ASSUME NEW l \in copies[c].kept, copies' = [copies EXCEPT ![c].kept = @ \ {l}]
      PROVE  /\ copies' \in [Copies -> CopyRow]
             /\ copies'[c].status = copies[c].status /\ copies'[c].review = copies[c].review
             /\ \A d \in Copies : d # c => copies'[d] = copies[d]
  <2>1. copies[c].kept \ {l} \in SUBSET LessonIds
    BY <1>4
  <2> QED
    BY <1>3, <1>7, <2>1
<1> QED
  BY <1>5, <1>6, <1>7 DEF EditCopy

-----------------------------------------------------------------------------
(* The invariant. *)

\* Rows are numbered as they are created; nothing of a course outlives it; what a
\* request carries makes sense.
Numbered == LessonRows \subseteq 1..created
GoneIsGone == course = "gone" => \A c \in Copies : ~ Exists(c)
Carried ==
  /\ \A t \in Editors :
       /\ tab[t].at = "status" => tab[t].to # "none" /\ (tab[t].to = "PUBLISHED" => tab[t].copy = 0)
       /\ tab[t].at = "submit" => tab[t].copy \in Copies
  /\ admin.at = "merge" => admin.copy \in Copies

CourseInv == CourseTypeOK /\ Numbered /\ GoneIsGone /\ Carried

LEMMA CourseInit_Inv == CourseInit => CourseInv
<1> SUFFICES ASSUME CourseInit PROVE CourseInv
  OBVIOUS
<1>1. CourseTypeOK
  <2>1. NoCopy \in CopyRow /\ IdleTab \in TabState /\ IdleAdmin \in AdminState
    BY CourseAssumption DEF NoCopy, CopyRow, Reviews, IdleTab, TabState, IdleAdmin, AdminState
  <2>2. lessons \in [live : SUBSET LessonIds, archived : SUBSET LessonIds] /\ created \in 0..MaxLessons
    BY CourseAssumption DEF CourseInit, LessonIds
  <2> QED
    BY <2>1, <2>2 DEF CourseInit, CourseTypeOK, Reviews
<1>2. Numbered /\ GoneIsGone /\ Carried
  BY DEF CourseInit, Numbered, LessonRows, GoneIsGone, Carried, IdleTab, IdleAdmin
<1> QED
  BY <1>1, <1>2 DEF CourseInv

\* A request that starts, or ends without writing.
LEMMA Tab_Inv ==
  ASSUME CourseInv, NEW t \in Editors, tab' \in [Editors -> TabState],
         \A s \in Editors : s # t => tab'[s] = tab[s],
         tab'[t].at = "status" =>
           tab'[t].to # "none" /\ (tab'[t].to = "PUBLISHED" => tab'[t].copy = 0),
         tab'[t].at = "submit" => tab'[t].copy \in Copies,
         UNCHANGED <<course, lessons, created, copies, deletions, learning, ordered, admin>>
  PROVE  CourseInv'
<1>1. CourseTypeOK'
  BY DEF CourseInv, CourseTypeOK
<1>2. Numbered' /\ GoneIsGone'
  BY DEF CourseInv, Numbered, LessonRows, GoneIsGone, Exists
<1>3. Carried'
  BY DEF CourseInv, Carried
<1> QED
  BY <1>1, <1>2, <1>3 DEF CourseInv

LEMMA Begin_Inv ==
  ASSUME CourseInv, NEW t \in Editors,
         \/ \E c \in Shown : BeginEdit(t, c)
         \/ \E c \in Shown, to \in {"DRAFT", "REVIEW", "PUBLISHED"} : BeginStatus(t, c, to)
         \/ \E c \in Shown \ {0} : BeginSubmit(t, c)
         \/ OpenRevision(t) \/ FindDraft(t) \/ BeginDeletionRequest(t)
  PROVE  CourseInv'
<1>0. CourseTypeOK /\ \A c \in Shown : c \in 0..MaxCopies /\ (c # 0 => c \in Copies)
  BY CourseAssumption DEF CourseInv, Shown, Copies
<1>a. ASSUME NEW at \in {"edit", "status", "find", "submit", "request"}, NEW c \in 0..MaxCopies,
             NEW to \in {"none", "DRAFT", "REVIEW", "PUBLISHED"}, Start(t, at, c, to),
             at = "status" => to # "none" /\ (to = "PUBLISHED" => c = 0),
             at = "submit" => c \in Copies,
             UNCHANGED <<course, curriculum, copies, deletions, world, admin>>
      PROVE  CourseInv'
  <2>1. UNCHANGED <<course, lessons, created, copies, deletions, learning, ordered, admin>>
    BY <1>a DEF curriculum, world
  <2>2. /\ tab' \in [Editors -> TabState]
        /\ tab'[t].at = at /\ tab'[t].copy = c /\ tab'[t].to = to
        /\ \A s \in Editors : s # t => tab'[s] = tab[s]
    BY <1>0, <1>a, Start_Lemma
  <2> QED
    BY <1>a, <2>1, <2>2, Tab_Inv
<1>1. ASSUME NEW c \in Shown, BeginEdit(t, c) PROVE CourseInv'
  BY <1>0, <1>1, <1>a DEF BeginEdit
<1>2. ASSUME NEW c \in Shown, NEW to \in {"DRAFT", "REVIEW", "PUBLISHED"}, BeginStatus(t, c, to)
      PROVE  CourseInv'
  BY <1>0, <1>2, <1>a DEF BeginStatus
<1>3. ASSUME NEW c \in Shown \ {0}, BeginSubmit(t, c) PROVE CourseInv'
  BY <1>0, <1>3, <1>a DEF BeginSubmit
<1>4. CASE OpenRevision(t) \/ BeginDeletionRequest(t)
  <2>1. 0 \in 0..MaxCopies
    BY CourseAssumption
  <2> QED
    BY <1>4, <2>1, <1>a DEF OpenRevision, BeginDeletionRequest
<1>5. CASE FindDraft(t) /\ Return(t)
  BY <1>0, <1>5, Return_Lemma, Tab_Inv DEF FindDraft, curriculum, world
<1>6. CASE FindDraft(t) /\ tab' = [tab EXCEPT ![t].at = "clone"]
  <2> DEFINE row == [tab[t] EXCEPT !.at = "clone"]
  <2>1. tab[t] \in TabState
    BY <1>0 DEF CourseTypeOK
  <2>2. row \in [at : {"clone"}, copy : 0..MaxCopies, to : {"none", "DRAFT", "REVIEW", "PUBLISHED"}]
    BY <2>1 DEF TabState
  <2>3. tab' = [tab EXCEPT ![t] = row]
    BY <1>6
  <2>4. row \in TabState /\ row.at = "clone"
    BY <2>2 DEF TabState
  <2> HIDE DEF row
  <2>5. /\ tab' \in [Editors -> TabState] /\ tab'[t].at = "clone"
        /\ \A s \in Editors : s # t => tab'[s] = tab[s]
    BY <1>0, <2>3, <2>4 DEF CourseTypeOK
  <2> QED
    BY <1>0, <1>6, <2>5, Tab_Inv DEF FindDraft, curriculum, world
<1> QED
  BY <1>1, <1>2, <1>3, <1>4, <1>5, <1>6 DEF FindDraft

-----------------------------------------------------------------------------
(* What is written. *)

LEMMA EditCourse_Lemma ==
  ASSUME CourseTypeOK, Numbered, EditCourse
  PROVE  /\ lessons' \in [live : SUBSET LessonIds, archived : SUBSET LessonIds]
         /\ created' \in 0..MaxLessons /\ Numbered'
<1>0. /\ lessons.live \subseteq LessonIds /\ lessons.archived \subseteq LessonIds
      /\ created \in 0..MaxLessons /\ MaxLessons \in Nat
  BY CourseAssumption DEF CourseTypeOK
<1>1. CASE /\ created < MaxLessons /\ created' = created + 1
           /\ Sort(lessons.live \cup {created + 1}, lessons.archived)
  <2>1. created + 1 \in LessonIds /\ created' \in 0..MaxLessons
    BY <1>0, <1>1 DEF LessonIds
  <2>2. lessons' \in [live : SUBSET LessonIds, archived : SUBSET LessonIds]
    BY <1>0, <1>1, <2>1 DEF Sort
  <2>3. LessonRows' = LessonRows \cup {created + 1}
    BY <1>1 DEF Sort, LessonRows
  <2>4. LessonRows \subseteq 1..created /\ created' = created + 1
    BY <1>1 DEF Numbered
  <2>5. 1..created \subseteq 1..created' /\ created + 1 \in 1..created'
    BY <1>0, <2>4
  <2>6. Numbered'
    BY <2>3, <2>4, <2>5 DEF Numbered
  <2> QED
    BY <2>1, <2>2, <2>6
<1>2. ASSUME NEW l \in lessons.live, Sort(lessons.live \ {l}, lessons.archived), UNCHANGED created
      PROVE  /\ lessons' \in [live : SUBSET LessonIds, archived : SUBSET LessonIds]
             /\ created' \in 0..MaxLessons /\ Numbered'
  <2>1. lessons' \in [live : SUBSET LessonIds, archived : SUBSET LessonIds]
    BY <1>0, <1>2 DEF Sort
  <2>2. LessonRows' \subseteq LessonRows
    BY <1>2 DEF Sort, LessonRows
  <2> QED
    BY <1>0, <1>2, <2>1, <2>2 DEF Numbered
<1> QED
  BY <1>1, <1>2 DEF EditCourse

\* Whatever is written keeps the invariant if it brings nothing of a deleted course back.
LEMMA Write_Inv ==
  ASSUME CourseInv, CourseTypeOK', Numbered', Carried', UNCHANGED deletions,
         course = "gone" => course' = "gone",
         course' = "gone" => course = "gone",
         \A c \in Copies : copies'[c].status # "none" => copies[c].status # "none"
                              \/ course # "gone"
  PROVE  CourseInv'
  BY DEF CourseInv, GoneIsGone, Exists

LEMMA SetStatus_Lemma ==
  ASSUME CourseInv, NEW c \in 0..MaxCopies, NEW to \in {"DRAFT", "REVIEW", "PUBLISHED"},
         to = "PUBLISHED" => c = 0, SetStatus(c, to)
  PROVE  /\ course' \in {"DRAFT", "REVIEW", "PUBLISHED", "gone"}
         /\ course' = "gone" <=> course = "gone"
         /\ copies' \in [Copies -> CopyRow]
         /\ \A d \in Copies : /\ Exists(d)' <=> Exists(d)
                              /\ copies'[d].review = copies[d].review
                              /\ copies'[d].kept = copies[d].kept
                              /\ copies'[d].fresh = copies[d].fresh
<1>0. CourseTypeOK
  BY DEF CourseInv
<1>1. CASE c = 0 /\ course # "gone" /\ course' = to /\ UNCHANGED copies
  BY <1>0, <1>1 DEF CourseTypeOK, Exists
<1>2. CASE c # 0 /\ Exists(c) /\ copies' = [copies EXCEPT ![c].status = to] /\ UNCHANGED course
  <2>1. c \in Copies /\ to \in {"DRAFT", "REVIEW"}
    BY <1>2, CourseAssumption DEF Copies
  <2>2. /\ copies' \in [Copies -> CopyRow]
        /\ copies'[c].status = to /\ copies'[c].review = copies[c].review
        /\ copies'[c].kept = copies[c].kept /\ copies'[c].fresh = copies[c].fresh
        /\ \A d \in Copies : d # c => copies'[d] = copies[d]
    BY <1>0, <1>2, <2>1, Status_Lemma
  <2> QED
    BY <1>0, <1>2, <2>1, <2>2 DEF CourseTypeOK, Exists
<1>3. CASE UNCHANGED <<course, copies>>
  BY <1>0, <1>3 DEF CourseTypeOK, Exists
<1> QED
  BY <1>1, <1>2, <1>3 DEF SetStatus

LEMMA WriteEdit_Inv ==
  ASSUME CourseInv, NEW t \in Editors, WriteEdit(t)
  PROVE  CourseInv'
<1> DEFINE c == tab[t].copy
<1>0. /\ CourseTypeOK /\ Numbered /\ c \in 0..MaxCopies /\ (c # 0 => c \in Copies)
  BY CourseAssumption DEF CourseInv, CourseTypeOK, TabState, Copies
<1>1. /\ tab' \in [Editors -> TabState] /\ tab'[t].at = "none"
      /\ \A s \in Editors : s # t => tab'[s] = tab[s]
  BY <1>0, Return_Lemma DEF WriteEdit
<1>2. Carried'
  BY <1>1 DEF CourseInv, Carried, WriteEdit
<1>3. CASE c = 0 /\ course # "gone" /\ EditCourse /\ UNCHANGED copies
  <2>1. CourseTypeOK' /\ Numbered'
    BY <1>0, <1>1, <1>3, EditCourse_Lemma DEF WriteEdit, CourseTypeOK, world
  <2> QED
    BY <1>2, <1>3, <2>1, Write_Inv DEF WriteEdit
<1>4. CASE c # 0 /\ Exists(c) /\ EditCopy(c) /\ UNCHANGED curriculum
  <2>1. CourseTypeOK' /\ Numbered'
    BY <1>0, <1>1, <1>4, EditCopy_Lemma DEF WriteEdit, CourseTypeOK, Numbered, LessonRows, world,
       curriculum
  <2>2. \A d \in Copies : copies'[d].status = copies[d].status
    BY <1>0, <1>4, EditCopy_Lemma
  <2> QED
    BY <1>2, <2>1, <2>2, Write_Inv DEF WriteEdit
<1>5. CASE UNCHANGED <<curriculum, copies>>
  <2>1. CourseTypeOK' /\ Numbered'
    BY <1>0, <1>1, <1>5 DEF WriteEdit, CourseTypeOK, Numbered, LessonRows, world, curriculum
  <2> QED
    BY <1>2, <1>5, <2>1, Write_Inv DEF WriteEdit
<1> QED
  BY <1>3, <1>4, <1>5 DEF WriteEdit

LEMMA WriteStatus_Inv ==
  ASSUME CourseInv, NEW t \in Editors, WriteStatus(t)
  PROVE  CourseInv'
<1> DEFINE c == tab[t].copy
<1>0. /\ CourseTypeOK /\ Numbered /\ c \in 0..MaxCopies
      /\ tab[t].to \in {"DRAFT", "REVIEW", "PUBLISHED"} /\ (tab[t].to = "PUBLISHED" => c = 0)
  BY DEF CourseInv, CourseTypeOK, TabState, Carried, WriteStatus
<1>1. /\ tab' \in [Editors -> TabState] /\ tab'[t].at = "none"
      /\ \A s \in Editors : s # t => tab'[s] = tab[s]
  BY <1>0, Return_Lemma DEF WriteStatus
<1>2. Carried'
  BY <1>1 DEF CourseInv, Carried, WriteStatus
<1>3. /\ course' \in {"DRAFT", "REVIEW", "PUBLISHED", "gone"}
      /\ course' = "gone" <=> course = "gone"
      /\ copies' \in [Copies -> CopyRow]
      /\ \A d \in Copies : Exists(d)' <=> Exists(d)
  BY <1>0, SetStatus_Lemma DEF WriteStatus
<1>4. CourseTypeOK' /\ Numbered'
  BY <1>0, <1>1, <1>3 DEF WriteStatus, CourseTypeOK, Numbered, LessonRows, world, curriculum
<1> QED
  BY <1>2, <1>3, <1>4, Write_Inv DEF WriteStatus, Exists

LEMMA Clone_Inv ==
  ASSUME CourseInv, NEW t \in Editors, Clone(t)
  PROVE  CourseInv'
<1>0. /\ CourseTypeOK /\ Numbered
  BY DEF CourseInv
<1>1. /\ tab' \in [Editors -> TabState] /\ tab'[t].at = "none"
      /\ \A s \in Editors : s # t => tab'[s] = tab[s]
  BY <1>0, Return_Lemma DEF Clone
<1>2. Carried'
  BY <1>1 DEF CourseInv, Carried, Clone
<1> DEFINE new == [status |-> "DRAFT", kept |-> lessons.live, fresh |-> 0, review |-> "none"]
<1>3. new \in CopyRow
  BY <1>0 DEF CopyRow, Reviews, CourseTypeOK
<1>4. \/ UNCHANGED copies
      \/ course # "gone" /\ \E m : copies' = [copies EXCEPT ![m] = new]
  BY DEF Clone
<1> HIDE DEF new
<1>5. copies' \in [Copies -> CopyRow]
  BY <1>0, <1>3, <1>4 DEF CourseTypeOK
<1>6. CourseTypeOK' /\ Numbered'
  BY <1>0, <1>1, <1>5 DEF Clone, CourseTypeOK, Numbered, LessonRows, world, curriculum
<1> QED
  BY <1>2, <1>4, <1>6, Write_Inv DEF Clone

LEMMA SubmitRevision_Inv ==
  ASSUME CourseInv, NEW t \in Editors, SubmitRevision(t)
  PROVE  CourseInv'
<1> DEFINE c == tab[t].copy
<1>0. /\ CourseTypeOK /\ Numbered /\ c \in Copies
  BY DEF CourseInv, Carried, SubmitRevision
<1>1. /\ tab' \in [Editors -> TabState] /\ tab'[t].at = "none"
      /\ \A s \in Editors : s # t => tab'[s] = tab[s]
  BY <1>0, Return_Lemma DEF SubmitRevision
<1>2. Carried'
  BY <1>1 DEF CourseInv, Carried, SubmitRevision
<1>3. /\ copies' \in [Copies -> CopyRow]
      /\ \A d \in Copies : copies'[d].status # "none" => copies[d].status # "none"
  <2>1. CASE UNCHANGED copies
    BY <1>0, <2>1 DEF CourseTypeOK
  <2>2. CASE /\ Exists(c) /\ copies[c].review = "none"
             /\ copies' = [copies EXCEPT ![c].status = "REVIEW", ![c].review = "PENDING"]
    <3> DEFINE row == [copies[c] EXCEPT !.status = "REVIEW", !.review = "PENDING"]
    <3>1. copies[c] \in CopyRow
      BY <1>0 DEF CourseTypeOK
    <3>2. row \in CopyRow
      BY <3>1 DEF CopyRow, Reviews
    <3>3. copies' = [copies EXCEPT ![c] = row]
      BY <1>0, <2>2 DEF CourseTypeOK
    <3> HIDE DEF row
    <3> QED
      BY <1>0, <2>2, <3>2, <3>3, Copy_Lemma DEF Exists
  <2> QED
    BY <2>1, <2>2 DEF SubmitRevision
<1>4. CourseTypeOK' /\ Numbered'
  BY <1>0, <1>1, <1>3 DEF SubmitRevision, CourseTypeOK, Numbered, LessonRows, world, curriculum
<1> QED
  BY <1>2, <1>3, <1>4, Write_Inv DEF SubmitRevision

LEMMA RequestDeletion_Inv ==
  ASSUME CourseInv, NEW t \in Editors, RequestDeletion(t)
  PROVE  CourseInv'
<1>0. CourseTypeOK
  BY DEF CourseInv
<1>1. /\ tab' \in [Editors -> TabState] /\ tab'[t].at = "none"
      /\ \A s \in Editors : s # t => tab'[s] = tab[s]
  BY <1>0, Return_Lemma DEF RequestDeletion
<1>2. UNCHANGED deletions \/ \E m : deletions' = [deletions EXCEPT ![m] = "PENDING"]
  BY DEF RequestDeletion
<1>3. /\ deletions' \in [Deletions -> Reviews]
      /\ \A d \in Deletions : deletions'[d] = "APPROVED" => deletions[d] = "APPROVED"
  BY <1>0, <1>2 DEF CourseTypeOK, Reviews
<1>4. CourseTypeOK' /\ Numbered'
  BY <1>0, <1>1, <1>3 DEF CourseInv, RequestDeletion, CourseTypeOK, Numbered, LessonRows, world, curriculum
<1>5. Carried' /\ GoneIsGone'
  BY <1>1, <1>3 DEF CourseInv, Carried, RequestDeletion, GoneIsGone, Exists
<1> QED
  BY <1>4, <1>5 DEF CourseInv

-----------------------------------------------------------------------------
(* The administrator. *)

\* The lessons that a merge creates are counted.
LEMMA Added_Lemma ==
  ASSUME CourseTypeOK
  PROVE  /\ IsFiniteSet(LessonIds)
         /\ \A S \in SUBSET LessonIds : IsFiniteSet(S) /\ Cardinality(S) \in Nat
<1>1. IsFiniteSet(LessonIds)
  BY FS_Interval, CourseAssumption DEF LessonIds
<1>2. ASSUME NEW S \in SUBSET LessonIds PROVE IsFiniteSet(S) /\ Cardinality(S) \in Nat
  BY <1>1, <1>2, FS_Subset, FS_CardinalityType
<1> QED
  BY <1>1, <1>2

LEMMA MergeRevision_Inv ==
  ASSUME CourseInv, MergeRevision
  PROVE  CourseInv'
<1> DEFINE c == admin.copy
           kept == admin.kept \cap LessonRows
           added == admin.fresh + Cardinality(admin.kept \ LessonRows)
<1>0. /\ CourseTypeOK /\ Numbered /\ c \in Copies
      /\ admin.kept \subseteq LessonIds /\ admin.fresh \in Nat
      /\ lessons.live \subseteq LessonIds /\ lessons.archived \subseteq LessonIds
      /\ created \in 0..MaxLessons /\ MaxLessons \in Nat /\ LessonRows \subseteq 1..created
  BY CourseAssumption
     DEF CourseInv, CourseTypeOK, AdminState, Carried, MergeRevision, Numbered
<1>1. added \in Nat
  <2>1. admin.kept \ LessonRows \in SUBSET LessonIds
    BY <1>0
  <2> QED
    BY <1>0, <2>1, Added_Lemma
<1>2. admin' = IdleAdmin /\ IdleAdmin \in AdminState /\ IdleAdmin.at = "none"
  BY CourseAssumption DEF MergeRevision, IdleAdmin, AdminState
<1>3. Carried'
  BY <1>2 DEF CourseInv, Carried, MergeRevision
<1>4. CASE /\ Exists(c) /\ created + added <= MaxLessons
           /\ lessons' = Merged(kept, (created + 1)..(created + added))
           /\ created' = created + added /\ course' = "PUBLISHED"
           /\ copies' = [copies EXCEPT ![c].review = "APPROVED"]
  <2>1. /\ copies' \in [Copies -> CopyRow]
        /\ copies'[c].status = copies[c].status
        /\ \A d \in Copies : d # c => copies'[d] = copies[d]
    BY <1>0, <1>4, Review_Lemma DEF Reviews
  <2> HIDE DEF added
  <2>2. /\ (created + 1)..(created + added) \subseteq LessonIds /\ created' \in 0..MaxLessons
        /\ (created + 1)..(created + added) \subseteq 1..created' /\ 1..created \subseteq 1..created'
    BY <1>0, <1>1, <1>4 DEF LessonIds
  <2>3. LessonRows \subseteq LessonIds
    BY <1>0 DEF LessonRows
  <2>4. lessons' = [live |-> kept \cup ((created + 1)..(created + added)),
                    archived |-> LessonRows \ kept]
    BY <1>4 DEF Merged
  <2>5. lessons' \in [live : SUBSET LessonIds, archived : SUBSET LessonIds]
    BY <2>2, <2>3, <2>4
  <2>6. LessonRows' \subseteq LessonRows \cup ((created + 1)..(created + added))
    BY <2>4 DEF LessonRows
  <2>7. Numbered'
    BY <1>0, <2>2, <2>6 DEF Numbered
  <2>8. CourseTypeOK'
    BY <1>0, <1>2, <1>4, <2>1, <2>2, <2>5 DEF MergeRevision, CourseTypeOK, world
  <2>9. course # "gone" /\ course' # "gone"
    BY <1>0, <1>4 DEF CourseInv, GoneIsGone
  <2> QED
    BY <1>3, <2>7, <2>8, <2>9, Write_Inv DEF MergeRevision
<1>5. CASE UNCHANGED <<course, curriculum, copies>>
  <2>1. CourseTypeOK' /\ Numbered'
    BY <1>0, <1>2, <1>5 DEF MergeRevision, CourseTypeOK, Numbered, LessonRows, curriculum, world
  <2> QED
    BY <1>3, <1>5, <2>1, Write_Inv DEF MergeRevision
<1> QED
  BY <1>4, <1>5 DEF MergeRevision

LEMMA AdminWrites_Inv ==
  ASSUME CourseInv,
         \/ \E c \in Shown : AdminEdits(c)
         \/ \E c \in Shown, to \in {"DRAFT", "REVIEW", "PUBLISHED"} : AdminSetsStatus(c, to)
         \/ \E c \in Copies : RejectRevision(c)
         \/ \E d \in Deletions : RejectDeletion(d)
  PROVE  CourseInv'
<1>0. /\ CourseTypeOK /\ Numbered
      /\ \A c \in Shown : c \in 0..MaxCopies /\ (c # 0 => c \in Copies)
  BY CourseAssumption DEF CourseInv, Shown, Copies
<1>1. ASSUME NEW c \in Shown, AdminEdits(c) PROVE CourseInv'
  <2>1. CASE c = 0 /\ course # "gone" /\ EditCourse /\ UNCHANGED copies
    <3>1. CourseTypeOK' /\ Numbered' /\ Carried'
      BY <1>0, <1>1, <2>1, EditCourse_Lemma
         DEF AdminEdits, CourseTypeOK, CourseInv, Carried, world
    <3> QED
      BY <1>1, <2>1, <3>1, Write_Inv DEF AdminEdits
  <2>2. CASE c # 0 /\ Exists(c) /\ EditCopy(c) /\ UNCHANGED curriculum
    <3>1. CourseTypeOK' /\ Numbered' /\ Carried'
      BY <1>0, <1>1, <2>2, EditCopy_Lemma
         DEF AdminEdits, CourseTypeOK, CourseInv, Carried, Numbered, LessonRows, world, curriculum
    <3>2. \A d \in Copies : copies'[d].status = copies[d].status
      BY <1>0, <2>2, EditCopy_Lemma
    <3> QED
      BY <1>1, <3>1, <3>2, Write_Inv DEF AdminEdits
  <2> QED
    BY <1>1, <2>1, <2>2 DEF AdminEdits
<1>2. ASSUME NEW c \in Shown, NEW to \in {"DRAFT", "REVIEW", "PUBLISHED"}, AdminSetsStatus(c, to)
      PROVE  CourseInv'
  <2>1. /\ course' \in {"DRAFT", "REVIEW", "PUBLISHED", "gone"}
        /\ course' = "gone" <=> course = "gone"
        /\ copies' \in [Copies -> CopyRow]
        /\ \A d \in Copies : Exists(d)' <=> Exists(d)
    BY <1>0, <1>2, SetStatus_Lemma DEF AdminSetsStatus
  <2>2. CourseTypeOK' /\ Numbered' /\ Carried'
    BY <1>0, <1>2, <2>1 DEF AdminSetsStatus, CourseTypeOK, CourseInv, Numbered, LessonRows, Carried,
       curriculum, world
  <2> QED
    BY <1>2, <2>1, <2>2, Write_Inv DEF AdminSetsStatus, Exists
<1>3. ASSUME NEW c \in Copies, RejectRevision(c) PROVE CourseInv'
  <2>1. /\ copies' \in [Copies -> CopyRow]
        /\ \A d \in Copies : copies'[d].status = copies[d].status
    BY <1>0, <1>3, Review_Lemma DEF RejectRevision, Reviews
  <2>2. CourseTypeOK' /\ Numbered' /\ Carried'
    BY <1>0, <1>3, <2>1 DEF RejectRevision, CourseTypeOK, CourseInv, Numbered, LessonRows, Carried,
       curriculum, world
  <2> QED
    BY <1>3, <2>1, <2>2, Write_Inv DEF RejectRevision
<1>4. ASSUME NEW d \in Deletions, RejectDeletion(d) PROVE CourseInv'
  <2>1. CourseTypeOK' /\ Numbered' /\ Carried' /\ GoneIsGone'
    BY <1>0, <1>4 DEF RejectDeletion, CourseTypeOK, CourseInv, Numbered, LessonRows, Carried,
       GoneIsGone, Exists, Reviews, curriculum, world
  <2> QED
    BY <2>1 DEF CourseInv
<1> QED
  BY <1>1, <1>2, <1>3, <1>4

LEMMA AdminBegins_Inv ==
  ASSUME CourseInv,
         \/ \E c \in Copies : BeginApproval(c)
         \/ \E d \in Deletions : BeginDeletionApproval(d)
         \/ BeginCourseRemoval
  PROVE  CourseInv'
<1>0. CourseTypeOK /\ MaxCopies \in Nat /\ MaxDeletions \in Nat
  BY CourseAssumption DEF CourseInv
<1>1. admin' \in AdminState /\ (admin'.at = "merge" => admin'.copy \in Copies)
  <2>1. ASSUME NEW c \in Copies, BeginApproval(c)
        PROVE  admin' \in AdminState /\ admin'.copy \in Copies
    <3>1. copies[c].kept \in SUBSET LessonIds /\ copies[c].fresh \in Nat /\ c \in 0..MaxCopies
      BY <1>0 DEF CourseTypeOK, CopyRow, Copies
    <3> QED
      BY <1>0, <2>1, <3>1 DEF BeginApproval, Review, AdminState
  <2>2. ASSUME NEW d \in Deletions, BeginDeletionApproval(d)
        PROVE  admin' \in AdminState /\ admin'.at # "merge"
    BY <1>0, <2>2 DEF BeginDeletionApproval, Review, AdminState, Deletions
  <2>3. ASSUME BeginCourseRemoval PROVE admin' \in AdminState /\ admin'.at # "merge"
    <3>1. PICK d \in IF PendingDeletion = {} THEN {0} ELSE PendingDeletion :
            admin' = [at |-> "remove", copy |-> 0, kept |-> {}, fresh |-> 0, deletion |-> d]
      BY <2>3 DEF BeginCourseRemoval, Review
    <3>2. d \in 0..MaxDeletions
      BY <1>0, <3>1 DEF PendingDeletion, Deletions
    <3> QED
      BY <1>0, <3>1, <3>2 DEF AdminState
  <2> QED
    BY <2>1, <2>2, <2>3
<1>2. UNCHANGED <<course, lessons, created, copies, deletions, learning, ordered, tab>>
  BY DEF BeginApproval, BeginDeletionApproval, BeginCourseRemoval, curriculum, world
<1>3. CourseTypeOK' /\ Numbered' /\ Carried'
  BY <1>0, <1>1, <1>2 DEF CourseTypeOK, CourseInv, Numbered, LessonRows, Carried
<1> QED
  BY <1>2, <1>3, Write_Inv

LEMMA DeleteCourse_Inv ==
  ASSUME CourseInv, DeleteCourse
  PROVE  CourseInv'
<1>0. CourseTypeOK /\ Numbered
  BY DEF CourseInv
<1>1. admin' = IdleAdmin /\ IdleAdmin \in AdminState /\ IdleAdmin.at = "none"
  BY CourseAssumption DEF DeleteCourse, IdleAdmin, AdminState
<1>2. Carried'
  BY <1>1 DEF CourseInv, Carried, DeleteCourse
<1>3. CASE UNCHANGED <<course, curriculum, copies, deletions, learning>>
  <2>1. CourseTypeOK' /\ Numbered'
    BY <1>0, <1>1, <1>3 DEF DeleteCourse, CourseTypeOK, Numbered, LessonRows, curriculum
  <2> QED
    BY <1>2, <1>3, <2>1, Write_Inv
<1>4. CASE /\ course' = "gone" /\ learning' = FALSE
           /\ Sort({}, {}) /\ copies' = [c \in Copies |-> NoCopy] /\ UNCHANGED created
           /\ deletions' = [d \in Deletions |->
                              IF d = admin.deletion THEN "APPROVED" ELSE deletions[d]]
  <2>1. NoCopy \in CopyRow /\ NoCopy.status = "none"
    BY DEF NoCopy, CopyRow, Reviews
  <2>2. CourseTypeOK'
    BY <1>0, <1>1, <1>4, <2>1 DEF DeleteCourse, CourseTypeOK, Sort, Reviews
  <2>3. LessonRows' = {}
    BY <1>4 DEF Sort, LessonRows
  <2> QED
    BY <1>2, <1>4, <2>1, <2>2, <2>3
       DEF CourseInv, Numbered, GoneIsGone, Exists
<1> QED
  BY <1>3, <1>4 DEF DeleteCourse

LEMMA CourseNext_Inv == CourseInv /\ [CourseNext]_courseVars => CourseInv'
<1> SUFFICES ASSUME CourseInv, [CourseNext]_courseVars PROVE CourseInv'
  OBVIOUS
<1>1. ASSUME NEW t \in Editors, Instructor(t) PROVE CourseInv'
  BY <1>1, Begin_Inv, WriteEdit_Inv, WriteStatus_Inv, Clone_Inv, SubmitRevision_Inv,
     RequestDeletion_Inv DEF Instructor
<1>2. CASE Administrator
  BY <1>2, AdminWrites_Inv, AdminBegins_Inv, MergeRevision_Inv, DeleteCourse_Inv DEF Administrator
<1>3. CASE Enrol \/ FinishCourse \/ Order \/ UNCHANGED courseVars
  <2>1. UNCHANGED <<course, lessons, created, copies, deletions, tab, admin>>
    BY <1>3 DEF Enrol, FinishCourse, Order, courseVars, curriculum
  <2>2. learning' \in BOOLEAN /\ ordered' \in BOOLEAN
    BY <1>3 DEF Enrol, FinishCourse, Order, courseVars, CourseInv, CourseTypeOK
  <2>3. CourseTypeOK' /\ Numbered' /\ Carried'
    BY <2>1, <2>2 DEF CourseInv, CourseTypeOK, Numbered, LessonRows, Carried
  <2> QED
    BY <2>1, <2>3, Write_Inv
<1> QED
  BY <1>1, <1>2, <1>3 DEF CourseNext

\* The invariant of a course and its revisions, for any number of tabs.
THEOREM CourseInvAlways == CourseSpec => []CourseInv
  BY CourseInit_Inv, CourseNext_Inv, PTL DEF CourseSpec

-----------------------------------------------------------------------------
(* An instructor with one tab. *)

OneTab == \A s, t \in Editors : s = t

Open(c) == Exists(c) /\ copies[c].review \in {"none", "PENDING"}

\* While the tab works out which revision to open, none is under review; when it is about
\* to clone, none is open; what it edits is not under review, so that the administrator
\* merges what was read.
OneTabInv ==
  /\ \A c, d \in Copies : Open(c) /\ Open(d) => c = d
  /\ \A t \in Editors :
       /\ tab[t].at = "find" => \A c \in Copies : copies[c].review # "PENDING"
       /\ tab[t].at = "clone" => \A c \in Copies : ~ Open(c)
       /\ tab[t].at = "edit" /\ tab[t].copy \in Copies
            => copies[tab[t].copy].review # "PENDING"
  /\ admin.at = "merge" =>
       /\ Exists(admin.copy) /\ copies[admin.copy].review = "PENDING"
       /\ admin.kept = copies[admin.copy].kept /\ admin.fresh = copies[admin.copy].fresh

LEMMA Init_OneTab == CourseInit => OneTabInv
  BY DEF CourseInit, OneTabInv, Open, Exists, NoCopy, IdleTab, IdleAdmin

\* The revisions stay open and under review as they are, and the tab is done.
LEMMA Calm_OneTab ==
  ASSUME CourseInv, OneTabInv,
         \A t \in Editors : tab'[t] = tab[t] \/ tab'[t].at \notin {"find", "clone", "edit"},
         admin' = admin \/ admin'.at # "merge",
         \A c \in Copies :
           \/ copies'[c] = copies[c]
           \/ /\ Exists(c)' <=> Exists(c)
              /\ copies'[c].review = copies[c].review
              /\ \/ /\ copies'[c].kept = copies[c].kept
                    /\ copies'[c].fresh = copies[c].fresh
                 \/ copies[c].review # "PENDING"
                 \/ admin.at # "merge" /\ UNCHANGED admin
  PROVE  OneTabInv'
<1>1. \A c \in Copies : /\ copies'[c].review = copies[c].review
                        /\ Exists(c)' <=> Exists(c)
                        /\ Open(c)' <=> Open(c)
  BY DEF Open, Exists
<1>2. \A c, d \in Copies : Open(c)' /\ Open(d)' => c = d
  BY <1>1 DEF OneTabInv
<1>3. ASSUME NEW t \in Editors
      PROVE  /\ tab'[t].at = "find" => \A c \in Copies : copies'[c].review # "PENDING"
             /\ tab'[t].at = "clone" => \A c \in Copies : ~ Open(c)'
             /\ tab'[t].at = "edit" /\ tab'[t].copy \in Copies
                  => copies'[tab'[t].copy].review # "PENDING"
  BY <1>1 DEF OneTabInv
<1>4. ASSUME admin'.at = "merge"
      PROVE  /\ copies'[admin'.copy].status # "none"
             /\ copies'[admin'.copy].review = "PENDING"
             /\ admin'.kept = copies'[admin'.copy].kept
             /\ admin'.fresh = copies'[admin'.copy].fresh
  <2>1. admin' = admin /\ admin.at = "merge" /\ admin.copy \in Copies
    BY <1>4 DEF CourseInv, Carried
  <2> QED
    BY <1>1, <2>1 DEF OneTabInv, Exists
<1> QED
  BY <1>2, <1>3, <1>4 DEF OneTabInv, Exists

LEMMA Instructor_OneTab ==
  ASSUME CourseInv, OneTabInv, OneTab, NEW t \in Editors, Instructor(t)
  PROVE  OneTabInv'
<1>0. CourseTypeOK /\ \A s \in Editors : s = t
  BY DEF CourseInv, OneTab
<1>a. ASSUME NEW at \in {"edit", "status", "find", "submit", "request"}, NEW c \in 0..MaxCopies,
             NEW to \in {"none", "DRAFT", "REVIEW", "PUBLISHED"}, Start(t, at, c, to),
             at = "find" => PendingRevision = {},
             at = "edit" /\ c \in Copies => copies[c].review # "PENDING",
             UNCHANGED <<course, curriculum, copies, deletions, world, admin>>
      PROVE  OneTabInv'
  <2>1. tab'[t].at = at /\ tab'[t].copy = c
    BY <1>0, <1>a, Start_Lemma
  <2> QED
    BY <1>0, <1>a, <2>1 DEF OneTabInv, PendingRevision, Open, Exists
<1>b. 0 \in 0..MaxCopies /\ 0 \notin Copies
      /\ \A c \in Shown : c \in 0..MaxCopies /\ (c # 0 => c \in Copies)
  BY CourseAssumption DEF Copies, Shown
<1>1. ASSUME NEW c \in Shown, BeginEdit(t, c) PROVE OneTabInv'
  BY <1>a, <1>b, <1>1 DEF BeginEdit, Writable
<1>2. ASSUME NEW c \in Shown, NEW to \in {"DRAFT", "REVIEW", "PUBLISHED"}, BeginStatus(t, c, to)
      PROVE  OneTabInv'
  BY <1>a, <1>b, <1>2 DEF BeginStatus
<1>3. ASSUME NEW c \in Shown \ {0}, BeginSubmit(t, c) PROVE OneTabInv'
  BY <1>a, <1>b, <1>3 DEF BeginSubmit
<1>4. CASE OpenRevision(t) \/ BeginDeletionRequest(t)
  BY <1>a, <1>b, <1>4 DEF OpenRevision, BeginDeletionRequest
<1>5. CASE FindDraft(t)
  <2>1. CASE Return(t)
    BY <1>0, <1>5, <2>1, Return_Lemma, Calm_OneTab DEF FindDraft
  <2>2. CASE /\ ~ \E c \in Copies : Exists(c) /\ copies[c].review = "none"
             /\ tab' = [tab EXCEPT ![t].at = "clone"]
    <3>1. \A c \in Copies : ~ Open(c)
      BY <1>5, <2>2 DEF FindDraft, OneTabInv, Open
    <3>2. tab'[t].at = "clone"
      <4>1. tab[t] \in TabState /\ tab \in [Editors -> TabState]
        BY <1>0 DEF CourseTypeOK
      <4>2. [tab[t] EXCEPT !.at = "clone"].at = "clone"
        BY <4>1 DEF TabState
      <4> QED
        BY <2>2, <4>1, <4>2
    <3> QED
      BY <1>0, <1>5, <3>1, <3>2 DEF FindDraft, OneTabInv, Open, Exists
  <2> QED
    BY <1>5, <2>1, <2>2 DEF FindDraft
<1>6. ASSUME Return(t) PROVE \A s \in Editors : tab'[s].at \notin {"find", "clone", "edit"}
  BY <1>0, <1>6, Return_Lemma
<1>7. CASE WriteEdit(t)
  <2> DEFINE c == tab[t].copy
  <2>1. CASE UNCHANGED copies
    BY <1>6, <1>7, <2>1, Calm_OneTab DEF WriteEdit
  <2>2. CASE c # 0 /\ Exists(c) /\ EditCopy(c)
    <3>1. c \in Copies
      BY <1>0, <2>2, CourseAssumption DEF CourseTypeOK, TabState, Copies
    <3>2. copies[c].review # "PENDING"
      BY <1>7, <3>1 DEF WriteEdit, OneTabInv
    <3>3. /\ copies'[c].status = copies[c].status /\ copies'[c].review = copies[c].review
          /\ \A d \in Copies : d # c => copies'[d] = copies[d]
      BY <1>0, <2>2, <3>1, EditCopy_Lemma
    <3> HIDE DEF c
    <3> QED
      BY <1>6, <1>7, <3>2, <3>3, Calm_OneTab DEF WriteEdit, Exists
  <2> QED
    BY <1>7, <2>1, <2>2 DEF WriteEdit
<1>8. CASE WriteStatus(t)
  <2>1. /\ tab[t].copy \in 0..MaxCopies /\ tab[t].to \in {"DRAFT", "REVIEW", "PUBLISHED"}
        /\ tab[t].to = "PUBLISHED" => tab[t].copy = 0
    BY <1>0, <1>8 DEF CourseTypeOK, TabState, WriteStatus, CourseInv, Carried
  <2>2. \A d \in Copies : /\ Exists(d)' <=> Exists(d)
                          /\ copies'[d].review = copies[d].review
                          /\ copies'[d].kept = copies[d].kept
                          /\ copies'[d].fresh = copies[d].fresh
    BY <1>8, <2>1, SetStatus_Lemma DEF WriteStatus
  <2> QED
    BY <1>6, <1>8, <2>2, Calm_OneTab DEF WriteStatus
<1>9. CASE Clone(t)
  <2> DEFINE new == [status |-> "DRAFT", kept |-> lessons.live, fresh |-> 0, review |-> "none"]
  <2>1. CASE UNCHANGED copies
    BY <1>6, <1>9, <2>1, Calm_OneTab DEF Clone
  <2>2. CASE \E m : copies' = [copies EXCEPT ![m] = new]
    <3>1. PICK m : copies' = [copies EXCEPT ![m] = new]
      BY <2>2
    <3>2. \A d \in Copies : /\ ~ Open(d)
                            /\ d # m => copies'[d] = copies[d] /\ ~ Open(d)'
      BY <1>0, <1>9, <3>1 DEF Clone, OneTabInv, Open, Exists, CourseTypeOK
    <3>3. admin.at # "merge"
      BY <1>9, <3>2 DEF CourseInv, Carried, OneTabInv, Open
    <3> QED
      BY <1>6, <1>9, <3>2, <3>3 DEF Clone, OneTabInv
  <2> QED
    BY <1>9, <2>1, <2>2 DEF Clone
<1>10. CASE SubmitRevision(t)
  <2> DEFINE c == tab[t].copy
             row == [copies[c] EXCEPT !.status = "REVIEW", !.review = "PENDING"]
  <2>1. CASE UNCHANGED copies
    BY <1>6, <1>10, <2>1, Calm_OneTab DEF SubmitRevision
  <2>2. CASE /\ Exists(c) /\ copies[c].review = "none"
             /\ copies' = [copies EXCEPT ![c].status = "REVIEW", ![c].review = "PENDING"]
    <3>1. c \in Copies /\ copies[c] \in CopyRow
      BY <1>0, <1>10 DEF CourseInv, Carried, SubmitRevision, CourseTypeOK
    <3>2. copies' = [copies EXCEPT ![c] = row]
      BY <1>0, <2>2, <3>1 DEF CourseTypeOK
    <3> HIDE DEF c, row
    <3>3. \A d \in Copies : d # c => copies'[d] = copies[d]
      BY <1>0, <3>2 DEF CourseTypeOK
    <3>4. Open(c) /\ \A d \in Copies : d # c => ~ Open(d) /\ ~ Open(d)'
      BY <2>2, <3>1, <3>3 DEF OneTabInv, Open, Exists
    <3>5. admin.at = "merge" => admin.copy \in Copies /\ admin.copy # c
      BY <2>2 DEF CourseInv, Carried, OneTabInv
    <3> QED
      BY <1>6, <1>10, <3>3, <3>4, <3>5 DEF SubmitRevision, OneTabInv, Exists
  <2> QED
    BY <1>10, <2>1, <2>2 DEF SubmitRevision
<1>11. CASE RequestDeletion(t)
  BY <1>6, <1>11, Calm_OneTab DEF RequestDeletion
<1> QED
  BY <1>1, <1>2, <1>3, <1>4, <1>5, <1>7, <1>8, <1>9, <1>10, <1>11 DEF Instructor

LEMMA Administrator_OneTab ==
  ASSUME CourseInv, OneTabInv, Administrator
  PROVE  OneTabInv'
<1>0. /\ CourseTypeOK /\ IdleAdmin.at = "none"
      /\ \A c \in Shown : c \in 0..MaxCopies
      /\ \A s \in Editors : tab[s].at = "edit" /\ tab[s].copy \in Copies
            => copies[tab[s].copy].review # "PENDING"
  BY CourseAssumption DEF CourseInv, IdleAdmin, Shown, Copies, OneTabInv
<1>1. CASE \/ BeginCourseRemoval
           \/ \E d \in Deletions : BeginDeletionApproval(d) \/ RejectDeletion(d)
  BY <1>1, Calm_OneTab
     DEF BeginCourseRemoval, BeginDeletionApproval, RejectDeletion, Review
<1>8. ASSUME NEW c \in Shown, AdminEdits(c) PROVE OneTabInv'
  <2>1. CASE UNCHANGED copies
    BY <1>0, <1>8, <2>1, Calm_OneTab DEF AdminEdits
  <2>2. CASE c # 0 /\ EditCopy(c)
    <3>1. c \in Copies
      BY <1>0, <2>2, CourseAssumption DEF Copies
    <3>2. /\ copies'[c].status = copies[c].status /\ copies'[c].review = copies[c].review
          /\ \A d \in Copies : d # c => copies'[d] = copies[d]
      BY <1>0, <2>2, <3>1, EditCopy_Lemma
    <3> QED
      BY <1>0, <1>8, <3>2, Calm_OneTab DEF AdminEdits, Exists
  <2> QED
    BY <1>8, <2>1, <2>2 DEF AdminEdits
<1>2. ASSUME NEW c \in Shown, NEW to \in {"DRAFT", "REVIEW", "PUBLISHED"}, AdminSetsStatus(c, to)
      PROVE  OneTabInv'
  <2>1. \A d \in Copies : /\ Exists(d)' <=> Exists(d)
                          /\ copies'[d].review = copies[d].review
                          /\ copies'[d].kept = copies[d].kept
                          /\ copies'[d].fresh = copies[d].fresh
    BY <1>0, <1>2, SetStatus_Lemma DEF AdminSetsStatus
  <2> QED
    BY <1>2, <2>1, Calm_OneTab DEF AdminSetsStatus
<1>3. ASSUME NEW c \in Copies, BeginApproval(c) PROVE OneTabInv'
  BY <1>3 DEF BeginApproval, Review, OneTabInv, Open, Exists
<1>4. ASSUME NEW c \in Copies, NEW v \in {"APPROVED", "REJECTED"},
             copies' = [copies EXCEPT ![c].review = v], UNCHANGED tab, admin'.at # "merge"
      PROVE  OneTabInv'
  <2>1. /\ copies'[c].review = v
        /\ \A d \in Copies : d # c => copies'[d] = copies[d]
    BY <1>0, <1>4, Review_Lemma DEF Reviews
  <2>2. \A d \in Copies : /\ Open(d)' => Open(d)
                          /\ copies'[d].review = "PENDING" => copies[d].review = "PENDING"
    BY <2>1 DEF Open, Exists
  <2> QED
    BY <1>4, <2>2 DEF OneTabInv
<1>5. ASSUME NEW c \in Copies, RejectRevision(c) PROVE OneTabInv'
  BY <1>0, <1>4, <1>5 DEF RejectRevision
<1>6. CASE MergeRevision
  <2>1. CASE UNCHANGED copies
    BY <1>0, <1>6, <2>1, Calm_OneTab DEF MergeRevision
  <2>2. CASE copies' = [copies EXCEPT ![admin.copy].review = "APPROVED"]
    BY <1>0, <1>4, <1>6, <2>2 DEF MergeRevision, CourseInv, Carried
  <2> QED
    BY <1>6, <2>1, <2>2 DEF MergeRevision
<1>7. CASE DeleteCourse
  <2>1. CASE UNCHANGED copies
    BY <1>0, <1>7, <2>1, Calm_OneTab DEF DeleteCourse
  <2>2. CASE copies' = [c \in Copies |-> NoCopy]
    <3>1. \A c \in Copies : copies'[c].review = "none" /\ ~ Open(c)'
      BY <2>2 DEF NoCopy, Open, Exists
    <3> QED
      BY <1>0, <1>7, <3>1 DEF DeleteCourse, OneTabInv
  <2> QED
    BY <1>7, <2>1, <2>2 DEF DeleteCourse
<1> QED
  BY <1>1, <1>2, <1>3, <1>5, <1>6, <1>7, <1>8 DEF Administrator

LEMMA Next_OneTab ==
  ASSUME OneTab, CourseInv, OneTabInv, [CourseNext]_courseVars
  PROVE  OneTabInv'
<1>1. CASE Enrol \/ FinishCourse \/ Order \/ UNCHANGED courseVars
  BY <1>1, Calm_OneTab DEF Enrol, FinishCourse, Order, courseVars
<1> QED
  BY <1>1, Instructor_OneTab, Administrator_OneTab DEF CourseNext

\* The invariant of an instructor with one tab.
THEOREM OneTabInvAlways == ASSUME OneTab PROVE CourseSpec => []OneTabInv
<1>1. CourseInv /\ OneTabInv /\ [CourseNext]_courseVars => OneTabInv'
  BY OneTab, Next_OneTab
<1> QED
  BY <1>1, Init_OneTab, CourseInvAlways, PTL DEF CourseSpec

\* An instructor with one tab has at most one revision of the course that is being edited
\* or reviewed (ensureCourseRevision, submitCourseRevision).
THEOREM OneRevisionPerTab == ASSUME OneTab PROVE CourseSpec => []OneOpenRevision
<1>1. OneTabInv => OneOpenRevision
  <2> DEFINE S == {c \in Copies : Exists(c) /\ copies[c].review \in {"none", "PENDING"}}
  <2> SUFFICES ASSUME OneTabInv PROVE Cardinality(S) <= 1
    BY DEF OneOpenRevision
  <2>1. CASE S = {}
    BY <2>1, FS_EmptySet
  <2>2. CASE S # {}
    <3>1. PICK c : c \in S
      BY <2>2
    <3>2. S = {c}
      BY <3>1 DEF OneTabInv, Open
    <3> QED
      BY <3>2, FS_Singleton
  <2> QED
    BY <2>1, <2>2
<1> QED
  BY <1>1, OneTabInvAlways, PTL

-----------------------------------------------------------------------------
(* Approvals. *)

\* What ApprovalPublishesRevision says of one step.
PublishesRevision ==
  \A c \in Copies : copies[c].review = "PENDING" /\ copies'[c].review = "APPROVED" =>
    /\ course' = "PUBLISHED"
    /\ copies[c].kept \cap LessonRows \subseteq lessons'.live
    /\ lessons'.live \cap LessonRows \subseteq copies[c].kept
    /\ Cardinality(lessons'.live) = Cardinality(copies[c].kept) + copies[c].fresh
    /\ LessonRows \subseteq LessonRows'

\* As many lessons are live after the merge as the revision had: new rows get new numbers.
LEMMA Merged_Lemma ==
  ASSUME CourseTypeOK, Numbered, NEW K \in SUBSET LessonIds, NEW n \in Nat, NEW live,
         live = (K \cap LessonRows)
                  \cup ((created + 1)..(created + n + Cardinality(K \ LessonRows)))
  PROVE  Cardinality(live) = Cardinality(K) + n /\ live \cap LessonRows = K \cap LessonRows
<1> DEFINE m == Cardinality(K \ LessonRows)
           old == K \cap LessonRows
           new == (created + 1)..(created + n + m)
<1>1. created \in Nat /\ LessonRows \subseteq 1..created
  BY CourseAssumption DEF CourseTypeOK, Numbered
<1>2. /\ IsFiniteSet(K) /\ IsFiniteSet(old) /\ IsFiniteSet(K \ LessonRows)
      /\ m \in Nat /\ Cardinality(old) \in Nat
  <2>1. old \in SUBSET LessonIds /\ K \ LessonRows \in SUBSET LessonIds
    OBVIOUS
  <2> QED
    BY <2>1, Added_Lemma
<1>3. Cardinality(K) = Cardinality(old) + m
  <2> DEFINE diff == K \ LessonRows
  <2>1. K = old \cup diff /\ old \cap diff = {}
    OBVIOUS
  <2>2. IsFiniteSet(diff) /\ m = Cardinality(diff)
    BY <1>2
  <2> HIDE DEF m, old, diff
  <2>3. Cardinality(old \cup diff) = Cardinality(old) + Cardinality(diff) - Cardinality(old \cap diff)
    BY <1>2, <2>2, FS_Union
  <2>4. Cardinality(old \cap diff) = 0
    BY <2>1, FS_EmptySet
  <2>5. Cardinality(K) = Cardinality(old) + Cardinality(diff) - 0
    BY <2>1, <2>3, <2>4
  <2> QED
    BY <1>2, <2>2, <2>5
<1>4. IsFiniteSet(new) /\ Cardinality(new) = n + m
  <2> HIDE DEF m
  <2>1. created + 1 \in Int /\ created + n + m \in Int
    BY <1>1, <1>2
  <2>2. /\ IsFiniteSet(new)
        /\ Cardinality(new) = IF created + 1 > created + n + m THEN 0
                               ELSE (created + n + m) - (created + 1) + 1
    BY <2>1, FS_Interval
  <2> QED
    BY <1>1, <1>2, <2>2
<1>5. old \cap new = {} /\ new \cap LessonRows = {}
  <2> HIDE DEF m
  <2>1. \A x \in 1..created : x \notin new
    BY <1>1, <1>2
  <2> QED
    BY <1>1, <2>1
<1>6. Cardinality(old \cup new) = Cardinality(old) + (n + m)
  <2> HIDE DEF m, old, new
  <2>1. Cardinality(old \cup new) = Cardinality(old) + Cardinality(new) - Cardinality(old \cap new)
    BY <1>2, <1>4, FS_Union
  <2>2. Cardinality(old \cap new) = 0
    BY <1>5, FS_EmptySet
  <2>3. Cardinality(old \cup new) = Cardinality(old) + (n + m) - 0
    BY <1>4, <2>1, <2>2
  <2> QED
    BY <1>2, <2>3
<1>7. live = old \cup new
  OBVIOUS
<1>8. live \cap LessonRows = old
  BY <1>5, <1>7
<1> HIDE DEF m, old, new
<1>9. Cardinality(live) = Cardinality(K) + n
  BY <1>2, <1>3, <1>6, <1>7
<1> QED
  BY <1>8, <1>9 DEF old

LEMMA Merge_PublishesRevision ==
  ASSUME CourseInv, OneTabInv, MergeRevision
  PROVE  PublishesRevision
<1> DEFINE m == admin.copy
           kept == admin.kept \cap LessonRows
           added == admin.fresh + Cardinality(admin.kept \ LessonRows)
<1>0. /\ CourseTypeOK /\ Numbered /\ m \in Copies
      /\ admin.kept = copies[m].kept /\ admin.fresh = copies[m].fresh
      /\ admin.kept \in SUBSET LessonIds /\ admin.fresh \in Nat
  BY DEF CourseInv, Carried, MergeRevision, OneTabInv, CourseTypeOK, AdminState
<1>1. CASE UNCHANGED copies
  BY <1>1 DEF PublishesRevision
<1>2. CASE /\ lessons' = Merged(kept, (created + 1)..(created + added))
           /\ course' = "PUBLISHED"
           /\ copies' = [copies EXCEPT ![m].review = "APPROVED"]
  <2>1. \A c \in Copies : c # m => copies'[c] = copies[c]
    BY <1>0, <1>2 DEF CourseTypeOK
  <2>2. /\ lessons'.live = kept \cup ((created + 1)..(created + added))
        /\ lessons'.archived = LessonRows \ kept
    BY <1>2 DEF Merged
  <2>3. created + added = created + admin.fresh + Cardinality(admin.kept \ LessonRows)
    <3>1. created \in Nat /\ admin.kept \ LessonRows \in SUBSET LessonIds
      BY <1>0 DEF CourseTypeOK
    <3>2. Cardinality(admin.kept \ LessonRows) \in Nat
      BY <1>0, <3>1, Added_Lemma
    <3> QED
      BY <1>0, <3>1, <3>2
  <2>4. /\ Cardinality(lessons'.live) = Cardinality(admin.kept) + admin.fresh
        /\ lessons'.live \cap LessonRows = kept
    <3>1. lessons'.live = (admin.kept \cap LessonRows) \cup
            ((created + 1)..(created + admin.fresh + Cardinality(admin.kept \ LessonRows)))
      BY <2>2, <2>3
    <3> QED
      BY <1>0, <3>1, Merged_Lemma
  <2>5. LessonRows \subseteq LessonRows' /\ kept \subseteq lessons'.live
    BY <2>2 DEF LessonRows
  <2> QED
    BY <1>0, <1>2, <2>1, <2>4, <2>5 DEF PublishesRevision
<1> QED
  BY <1>1, <1>2 DEF MergeRevision

LEMMA Step_PublishesRevision ==
  ASSUME CourseInv, OneTabInv, [CourseNext]_courseVars
  PROVE  PublishesRevision
<1>0. CourseTypeOK
  BY DEF CourseInv
<1>1. SUFFICES ASSUME ~ MergeRevision, NEW c \in Copies, copies[c].review = "PENDING"
               PROVE  copies'[c].review # "APPROVED"
  BY Merge_PublishesRevision DEF PublishesRevision
<1>2. ASSUME NEW t \in Editors, Instructor(t) PROVE copies'[c].review # "APPROVED"
  <2> DEFINE d == tab[t].copy
  <2>1. CASE WriteEdit(t) /\ copies' # copies
    <3>1. d \in Copies /\ EditCopy(d)
      BY <1>0, <2>1, CourseAssumption DEF WriteEdit, CourseTypeOK, TabState, Copies
    <3>2. copies'[c].review = copies[c].review
      BY <1>0, <3>1, EditCopy_Lemma
    <3> QED
      BY <1>1, <3>2
  <2>2. CASE WriteStatus(t)
    <3>1. /\ d \in 0..MaxCopies /\ tab[t].to \in {"DRAFT", "REVIEW", "PUBLISHED"}
          /\ tab[t].to = "PUBLISHED" => d = 0
      BY <1>0, <2>2 DEF CourseTypeOK, TabState, WriteStatus, CourseInv, Carried
    <3>2. copies'[c].review = copies[c].review
      BY <2>2, <3>1, SetStatus_Lemma DEF WriteStatus
    <3> QED
      BY <1>1, <3>2
  <2>3. CASE Clone(t)
    <3> DEFINE new == [status |-> "DRAFT", kept |-> lessons.live, fresh |-> 0, review |-> "none"]
    <3>1. UNCHANGED copies \/ \E m : copies' = [copies EXCEPT ![m] = new]
      BY <2>3 DEF Clone
    <3> QED
      BY <1>0, <1>1, <3>1 DEF CourseTypeOK
  <2>4. CASE SubmitRevision(t) /\ copies' # copies
    <3>1. /\ d \in Copies /\ copies[d].review = "none"
          /\ copies' = [copies EXCEPT ![d].status = "REVIEW", ![d].review = "PENDING"]
      BY <2>4 DEF SubmitRevision, CourseInv, Carried
    <3>2. copies'[c] = copies[c]
      BY <1>0, <1>1, <3>1 DEF CourseTypeOK
    <3> QED
      BY <1>1, <3>2
  <2>5. CASE UNCHANGED copies
    BY <1>1, <2>5
  <2> QED
    BY <1>2, <2>1, <2>2, <2>3, <2>4, <2>5
       DEF Instructor, BeginEdit, BeginStatus, BeginSubmit, OpenRevision, FindDraft,
           BeginDeletionRequest, RequestDeletion
<1>3. CASE Administrator
  <2>1. ASSUME NEW d \in Shown, NEW to \in {"DRAFT", "REVIEW", "PUBLISHED"}, AdminSetsStatus(d, to)
        PROVE  copies'[c].review # "APPROVED"
    <3>1. d \in 0..MaxCopies
      BY CourseAssumption DEF Shown, Copies
    <3> QED
      BY <1>1, <2>1, <3>1, SetStatus_Lemma DEF AdminSetsStatus
  <2>2. ASSUME NEW d \in Copies, RejectRevision(d) PROVE copies'[c].review # "APPROVED"
    BY <1>0, <1>1, <2>2, Review_Lemma DEF RejectRevision, Reviews
  <2>3. CASE DeleteCourse
    BY <1>1, <2>3 DEF DeleteCourse, NoCopy
  <2>4. CASE UNCHANGED copies
    BY <1>1, <2>4
  <2>5. ASSUME NEW d \in Shown, AdminEdits(d) PROVE copies'[c].review # "APPROVED"
    <3>1. CASE d # 0 /\ EditCopy(d)
      <4>1. d \in Copies
        BY <3>1, CourseAssumption DEF Shown, Copies
      <4>2. copies'[c].review = copies[c].review
        BY <1>0, <3>1, <4>1, EditCopy_Lemma
      <4> QED
        BY <1>1, <4>2
    <3> QED
      BY <2>4, <2>5, <3>1 DEF AdminEdits
  <2> QED
    BY <1>1, <1>3, <2>1, <2>2, <2>3, <2>4, <2>5
       DEF Administrator, BeginApproval, BeginDeletionApproval, RejectDeletion,
           BeginCourseRemoval
<1>4. CASE Enrol \/ FinishCourse \/ Order \/ UNCHANGED courseVars
  BY <1>1, <1>4 DEF Enrol, FinishCourse, Order, courseVars
<1> QED
  BY <1>2, <1>3, <1>4 DEF CourseNext

\* Approving a revision publishes the revision as it then stands, and no lesson row of the
\* course is lost (approveCourseRevision, of what it had read before).
THEOREM ApprovalPublishes == ASSUME OneTab PROVE CourseSpec => ApprovalPublishesRevision
<1>1. CourseInv /\ OneTabInv /\ [CourseNext]_courseVars => [PublishesRevision]_courseVars
  BY Step_PublishesRevision
<1> QED
  BY <1>1, OneTabInvAlways, CourseInvAlways, PTL
     DEF CourseSpec, ApprovalPublishesRevision, PublishesRevision

-----------------------------------------------------------------------------
(* Applications: types. *)

LEMMA Any_Type ==
  /\ AnyName \in Names /\ AnyText \in Texts /\ AnyField \in Fields
  /\ NoFlight \in FlightState
<1>1. AnyName \in Names /\ AnyText \in Texts /\ AnyField \in Fields
  BY ApplicationsAssumption DEF AnyName, AnyText, AnyField
<1> QED
  BY <1>1, ApplicationsAssumption DEF NoFlight, FlightState

LEMMA ApplicationInit_Type == ApplicationInit => ApplicationTypeOK
  BY Any_Type, ApplicationsAssumption
     DEF ApplicationInit, ApplicationTypeOK, Account, ApplicationRow, NameRow, ExpertiseRow,
         ReviewStatus

\* The numbers of rows fit what a request carries.
LEMMA Number_Type ==
  ASSUME NEW k, k \in ApplicationIds \/ k \in NameRequestIds \/ k \in ExpertiseRequestIds
  PROVE  k \in 0..(MaxApplications + MaxNameRequests + MaxExpertiseRequests)
  BY ApplicationsAssumption DEF ApplicationIds, NameRequestIds, ExpertiseRequestIds

LEMMA Begin_Type ==
  ASSUME ApplicationTypeOK, NEW a \in Callers, NEW w \in FlightState, Begin(a, w)
  PROVE  ApplicationTypeOK'
  BY DEF ApplicationTypeOK, Begin, rows

LEMMA End_Type ==
  ASSUME ApplicationTypeOK, NEW a \in Callers, Finish(a)
  PROVE  flight' \in [Callers -> FlightState]
  BY Any_Type DEF ApplicationTypeOK, Finish

LEMMA Work_Fields ==
  ASSUME ApplicationTypeOK, NEW a \in Callers
  PROVE  /\ flight[a] \in FlightState
         /\ flight[a].was \in Names /\ flight[a].name \in Names /\ flight[a].text \in Texts
         /\ flight[a].had \in Fields /\ flight[a].expertise \in Fields
  BY DEF ApplicationTypeOK, FlightState

LEMMA Row_Fields ==
  ASSUME ApplicationTypeOK
  PROVE  /\ account \in Account /\ account.name \in Names /\ account.expertise \in Fields
         /\ \A m \in ApplicationIds :
              /\ application[m] \in ApplicationRow
              /\ application[m].text \in Texts /\ application[m].expertise \in Fields
         /\ \A r \in NameRequestIds : nameRequest[r].from \in Names /\ nameRequest[r].to \in Names
         /\ \A r \in ExpertiseRequestIds :
              expertiseRequest[r].from \in Fields /\ expertiseRequest[r].to \in Fields
  BY DEF ApplicationTypeOK, Account, ApplicationRow, NameRow, ExpertiseRow

LEMMA TabBegins_Type ==
  ASSUME ApplicationTypeOK, NEW a \in Windows,
         \/ \E text \in Texts, e \in Fields : BeginApply(a, text, e) \/ BeginProfileEdit(a, text, e)
         \/ \E name \in Names : BeginNameChange(a, name) \/ BeginRename(a, name)
         \/ \E e \in Fields : BeginExpertiseChange(a, e)
  PROVE  ApplicationTypeOK'
<1>0. a \in Callers
  BY DEF Callers
<1>1. ASSUME NEW text \in Texts, NEW e \in Fields, BeginApply(a, text, e)
      PROVE  ApplicationTypeOK'
  <2>1. [NoFlight EXCEPT !.doing = "apply", !.name = account.name, !.text = text,
                         !.expertise = e] \in FlightState
    BY Any_Type, Row_Fields DEF FlightState
  <2> QED
    BY <1>0, <1>1, <2>1, Begin_Type DEF BeginApply
<1>2. ASSUME NEW text \in Texts, NEW e \in Fields, BeginProfileEdit(a, text, e)
      PROVE  ApplicationTypeOK'
  <2>1. [NoFlight EXCEPT !.doing = "edit", !.text = text, !.had = account.expertise,
                         !.expertise = e] \in FlightState
    BY Any_Type, Row_Fields DEF FlightState
  <2>2. ASSUME NEW m \in ApplicationIds
        PROVE  [NoFlight EXCEPT !.doing = "amend", !.ref = m, !.text = text,
                                !.expertise = e] \in FlightState
    BY Any_Type, Number_Type DEF FlightState
  <2> QED
    BY <1>0, <1>2, <2>1, <2>2, Begin_Type DEF BeginProfileEdit
<1>3. ASSUME NEW name \in Names, BeginNameChange(a, name) PROVE ApplicationTypeOK'
  <2>1. ASSUME NEW m \in ApplicationIds
        PROVE  [NoFlight EXCEPT !.doing = "name", !.ref = m, !.was = account.name,
                                !.name = name] \in FlightState
    BY Any_Type, Number_Type, Row_Fields DEF FlightState
  <2> QED
    BY <1>0, <1>3, <2>1, Begin_Type DEF BeginNameChange
<1>4. ASSUME NEW name \in Names, BeginRename(a, name) PROVE ApplicationTypeOK'
  <2>1. [NoFlight EXCEPT !.doing = "rename", !.name = name] \in FlightState
      BY Any_Type DEF FlightState
  <2> QED
    BY <1>0, <1>4, <2>1, Begin_Type DEF BeginRename
<1>5. ASSUME NEW e \in Fields, BeginExpertiseChange(a, e) PROVE ApplicationTypeOK'
  <2>1. [NoFlight EXCEPT !.doing = "expertise", !.had = account.expertise,
                         !.expertise = e] \in FlightState
    BY Any_Type, Row_Fields DEF FlightState
  <2> QED
    BY <1>0, <1>5, <2>1, Begin_Type DEF BeginExpertiseChange
<1> QED
  BY <1>1, <1>2, <1>3, <1>4, <1>5

LEMMA AdminBegins_Type ==
  ASSUME ApplicationTypeOK, NEW a \in Admins,
         \/ \E m \in ApplicationIds : BeginApprove(a, m) \/ BeginReject(a, m)
         \/ \E r \in NameRequestIds : BeginApproveName(a, r) \/ BeginRejectName(a, r)
         \/ \E r \in ExpertiseRequestIds, doing \in {"approveExpertise", "rejectExpertise"} :
              BeginExpertiseReview(a, r, doing)
  PROVE  ApplicationTypeOK'
<1>0. a \in Callers
  BY DEF Callers
<1>1. ASSUME NEW r \in NameRequestIds, BeginApproveName(a, r) \/ BeginRejectName(a, r)
      PROVE  ApplicationTypeOK'
  <2>1. /\ [NoFlight EXCEPT !.doing = "approveName", !.ref = r] \in FlightState
        /\ [NoFlight EXCEPT !.doing = "rejectName", !.ref = r] \in FlightState
      BY Any_Type, Number_Type DEF FlightState
  <2> QED
    BY <1>0, <1>1, <2>1, Begin_Type DEF BeginApproveName, BeginRejectName
<1>2. ASSUME NEW m \in ApplicationIds, BeginApprove(a, m) \/ BeginReject(a, m)
      PROVE  ApplicationTypeOK'
  <2>1. /\ [NoFlight EXCEPT !.doing = "approve", !.ref = m, !.text = application[m].text,
                            !.expertise = application[m].expertise] \in FlightState
        /\ [NoFlight EXCEPT !.doing = "reject", !.ref = m] \in FlightState
      BY Any_Type, Number_Type, Row_Fields DEF FlightState
  <2> QED
    BY <1>0, <1>1, <1>2, <2>1, Begin_Type DEF BeginApprove, BeginReject
<1>3. ASSUME NEW r \in ExpertiseRequestIds, NEW doing \in {"approveExpertise", "rejectExpertise"},
             BeginExpertiseReview(a, r, doing)
      PROVE  ApplicationTypeOK'
  <2>1. [NoFlight EXCEPT !.doing = doing, !.ref = r] \in FlightState
      BY Any_Type, Number_Type DEF FlightState
  <2> QED
    BY <1>0, <1>3, <2>1, Begin_Type DEF BeginExpertiseReview
<1> QED
  BY <1>1, <1>2, <1>3

LEMMA AskExpertise_Type ==
  ASSUME ApplicationTypeOK, NEW from \in Fields, NEW to \in Fields, AskExpertise(from, to)
  PROVE  expertiseRequest' \in [ExpertiseRequestIds -> ExpertiseRow]
  BY DEF ApplicationTypeOK, AskExpertise, ExpertiseRow, ReviewStatus

LEMMA TabCommits_Type ==
  ASSUME ApplicationTypeOK, NEW a \in Windows,
         \/ CommitApply(a) \/ CommitNameChange(a) \/ CommitExpertiseChange(a)
         \/ CommitProfileEdit(a) \/ CommitAmend(a) \/ CommitRename(a)
  PROVE  ApplicationTypeOK'
<1>0. a \in Callers
  BY DEF Callers
<1>1. CASE CommitApply(a)
  <2>1. application' \in [ApplicationIds -> ApplicationRow]
    BY <1>0, <1>1, Work_Fields, ApplicationsAssumption
       DEF CommitApply, ApplicationTypeOK, ApplicationRow, ReviewStatus
  <2> QED
    BY <1>0, <1>1, <2>1, End_Type DEF CommitApply, ApplicationTypeOK
<1>2. CASE CommitNameChange(a)
  <2>1. PICK r \in NameRequestIds :
          /\ nameRequest' = [nameRequest EXCEPT ![r] =
               [status |-> "PENDING", from |-> flight[a].was, to |-> flight[a].name]]
          /\ application' = [application EXCEPT
               ![flight[a].ref] = [@ EXCEPT !.status = "PENDING", !.name = flight[a].name,
                                          !.change = r]]
    BY <1>2 DEF CommitNameChange
  <2>2. nameRequest' \in [NameRequestIds -> NameRow]
    BY <1>0, <2>1, Work_Fields DEF ApplicationTypeOK, NameRow, ReviewStatus
  <2>3. r \in 0..MaxNameRequests
    BY ApplicationsAssumption DEF NameRequestIds
  <2>4. application' \in [ApplicationIds -> ApplicationRow]
    BY <1>0, <2>1, <2>3, Work_Fields DEF ApplicationTypeOK, ApplicationRow, ReviewStatus
  <2> QED
    BY <1>0, <1>2, <2>2, <2>4, End_Type DEF CommitNameChange, ApplicationTypeOK
<1>3. CASE CommitExpertiseChange(a)
  <2>1. expertiseRequest' \in [ExpertiseRequestIds -> ExpertiseRow]
    BY <1>0, <1>3, Work_Fields, AskExpertise_Type DEF CommitExpertiseChange
  <2> QED
    BY <1>0, <1>3, <2>1, End_Type DEF CommitExpertiseChange, ApplicationTypeOK
<1>4. CASE CommitProfileEdit(a)
  <2>1. expertiseRequest' \in [ExpertiseRequestIds -> ExpertiseRow]
    BY <1>0, <1>4, Work_Fields, AskExpertise_Type DEF CommitProfileEdit, ApplicationTypeOK
  <2>2. application' \in [ApplicationIds -> ApplicationRow]
    BY <1>0, <1>4, Work_Fields DEF CommitProfileEdit, ApplicationTypeOK, ApplicationRow
  <2>3. account' \in Account
    BY <1>0, <1>4, Work_Fields DEF CommitProfileEdit, ApplicationTypeOK, Account
  <2> QED
    BY <1>0, <1>4, <2>1, <2>2, <2>3, End_Type DEF CommitProfileEdit, ApplicationTypeOK
<1>5. CASE CommitAmend(a)
  <2>1. application' \in [ApplicationIds -> ApplicationRow]
    BY <1>0, <1>5, Work_Fields DEF CommitAmend, ApplicationTypeOK, ApplicationRow
  <2> QED
    BY <1>0, <1>5, <2>1, End_Type DEF CommitAmend, ApplicationTypeOK
<1>6. CASE CommitRename(a)
  <2>1. account' \in Account
    BY <1>0, <1>6, Work_Fields DEF CommitRename, ApplicationTypeOK, Account
  <2> QED
    BY <1>0, <1>6, <2>1, End_Type DEF CommitRename, ApplicationTypeOK
<1> QED
  BY <1>1, <1>2, <1>3, <1>4, <1>5, <1>6

\* A decision in flight names a row of its table.
NamesRow(w) ==
  /\ w.doing \in {"approveName", "rejectName"} => w.ref \in NameRequestIds
  /\ w.doing \in {"approveExpertise", "rejectExpertise"} => w.ref \in ExpertiseRequestIds

\* Whoever is about to commit decides rows that exist, in the role of its endpoint.
Placed(a, w) ==
  /\ w.doing = "apply" =>
       a \in Windows /\ \A m \in ApplicationIds : application[m].status # "PENDING"
  /\ w.doing = "name" =>
       a \in Windows /\ w.ref \in ApplicationIds /\ IsLatest(w.ref) /\ Pending(nameRequest) = {}
  /\ w.doing \in {"approve", "reject"} =>
       w.ref \in ApplicationIds /\ application[w.ref].status # "none"
  /\ w.doing \in {"approveName", "rejectName"} => a \in Admins /\ w.ref \in NameRequestIds
  /\ w.doing \in {"approveExpertise", "rejectExpertise"} => w.ref \in ExpertiseRequestIds

Grounded(m) ==
  LET r == application[m].change
  IN application[m].status = "PENDING" /\ r # 0
       => /\ IsLatest(m)
          /\ nameRequest[r].status = "PENDING" /\ nameRequest[r].to = application[m].name

ReviewInv ==
  /\ ApplicationTypeOK
  /\ \A m \in ApplicationIds : Grounded(m)
  /\ \A a \in Callers : Placed(a, flight[a])

OneWindow == \A s, t \in Windows : s = t

LEMMA AdminCommits_Type ==
  ASSUME ApplicationTypeOK, NEW a \in Admins,
         flight[a].doing \in {"approveName", "rejectName"} => flight[a].ref \in NameRequestIds,
         flight[a].doing \in {"approveExpertise", "rejectExpertise"}
           => flight[a].ref \in ExpertiseRequestIds,
         \/ CommitApproveName(a) \/ CommitRejectName(a) \/ CommitApprove(a) \/ CommitReject(a)
         \/ CommitApproveExpertise(a) \/ CommitRejectExpertise(a)
  PROVE  ApplicationTypeOK'
<1>0. a \in Callers
  BY DEF Callers
<1>1. CASE CommitApproveName(a) \/ CommitRejectName(a)
  <2>0. flight[a].ref \in NameRequestIds
    BY <1>1 DEF CommitApproveName, CommitRejectName
  <2>1. nameRequest' \in [NameRequestIds -> NameRow]
    BY <1>1, <2>0
       DEF CommitApproveName, CommitRejectName, ApplicationTypeOK, NameRow, ReviewStatus
  <2>2. ASSUME NEW name \in Names, Reviewed(flight[a].ref, name)
        PROVE  application' \in [ApplicationIds -> ApplicationRow]
    BY <2>2 DEF Reviewed, ApplicationTypeOK, ApplicationRow, ReviewStatus
  <2>3. application' \in [ApplicationIds -> ApplicationRow]
    BY <1>1, <2>0, <2>2, Row_Fields DEF CommitApproveName, CommitRejectName
  <2>4. account' \in Account
    BY <1>1, <2>0, Row_Fields DEF CommitApproveName, CommitRejectName, Account
  <2> QED
    BY <1>0, <1>1, <2>1, <2>3, <2>4, End_Type
       DEF CommitApproveName, CommitRejectName, ApplicationTypeOK
<1>2. CASE CommitApprove(a) \/ CommitReject(a)
  <2>1. application' \in [ApplicationIds -> ApplicationRow]
    BY <1>2 DEF CommitApprove, CommitReject, ApplicationTypeOK, ApplicationRow, ReviewStatus
  <2>2. account' \in Account
    BY <1>0, <1>2, Work_Fields, Row_Fields DEF CommitApprove, CommitReject, Account
  <2> QED
    BY <1>0, <1>2, <2>1, <2>2, End_Type DEF CommitApprove, CommitReject, ApplicationTypeOK
<1>3. CASE CommitApproveExpertise(a)
  <2>0. flight[a].ref \in ExpertiseRequestIds /\ expertiseRequest[flight[a].ref].to \in Fields
    BY <1>3, Row_Fields DEF CommitApproveExpertise
  <2>1. expertiseRequest' \in [ExpertiseRequestIds -> ExpertiseRow]
    BY <1>3, <2>0 DEF CommitApproveExpertise, ApplicationTypeOK, ExpertiseRow, ReviewStatus
  <2>2. application' \in [ApplicationIds -> ApplicationRow]
    BY <1>3, <2>0 DEF CommitApproveExpertise, ApplicationTypeOK, ApplicationRow
  <2>3. account' \in Account
    BY <1>3, <2>0, Row_Fields DEF CommitApproveExpertise, Account
  <2> QED
    BY <1>0, <1>3, <2>1, <2>2, <2>3, End_Type DEF CommitApproveExpertise, ApplicationTypeOK
<1>4. CASE CommitRejectExpertise(a)
  <2>1. expertiseRequest' \in [ExpertiseRequestIds -> ExpertiseRow]
    BY <1>4 DEF CommitRejectExpertise, ApplicationTypeOK, ExpertiseRow, ReviewStatus
  <2> QED
    BY <1>0, <1>4, <2>1, End_Type DEF CommitRejectExpertise, ApplicationTypeOK
<1> QED
  BY <1>1, <1>2, <1>3, <1>4

LEMMA ApplicationNext_Type ==
  ASSUME ApplicationTypeOK, \A a \in Callers : NamesRow(flight[a]),
         [ApplicationNext]_applicationVars
  PROVE  ApplicationTypeOK'
<1>1. ASSUME NEW a \in Windows, ApplicantStep(a) PROVE ApplicationTypeOK'
  BY <1>1, TabBegins_Type, TabCommits_Type DEF ApplicantStep
<1>2. ASSUME NEW a \in Admins, AdminStep(a) PROVE ApplicationTypeOK'
  <2>1. NamesRow(flight[a])
    BY DEF Callers
  <2> QED
    BY <1>2, <2>1, AdminBegins_Type, AdminCommits_Type DEF AdminStep, NamesRow
<1>3. ASSUME NEW a \in Callers, Drop(a) PROVE ApplicationTypeOK'
  BY <1>3, End_Type DEF Drop, ApplicationTypeOK, rows
<1>4. CASE UNCHANGED applicationVars
  BY <1>4 DEF applicationVars, rows, ApplicationTypeOK
<1> QED
  BY <1>1, <1>2, <1>3, <1>4 DEF ApplicationNext

LEMMA Move_NamesRow ==
  ASSUME ApplicationTypeOK, \A b \in Callers : NamesRow(flight[b]), NEW a \in Callers,
         Finish(a) \/ \E w : Begin(a, w) /\ NamesRow(w)
  PROVE  \A b \in Callers : NamesRow(flight'[b])
<1>1. NamesRow(NoFlight)
  BY DEF NoFlight, NamesRow
<1> QED
  BY <1>1 DEF ApplicationTypeOK, Finish, Begin

LEMMA TabStep_NamesRow ==
  ASSUME NEW a \in Windows, ApplicantStep(a)
  PROVE  Finish(a) \/ \E w : Begin(a, w) /\ NamesRow(w)
<1>1. ASSUME NEW text \in Texts, NEW e \in Fields,
             BeginApply(a, text, e) \/ BeginProfileEdit(a, text, e)
      PROVE  \E w : Begin(a, w) /\ NamesRow(w)
  <2>1. CASE BeginApply(a, text, e)
    <3>1. NamesRow([NoFlight EXCEPT !.doing = "apply", !.name = account.name, !.text = text,
                                    !.expertise = e])
      BY DEF NoFlight, NamesRow
    <3> QED
      BY <2>1, <3>1 DEF BeginApply
  <2>2. CASE Begin(a, [NoFlight EXCEPT !.doing = "edit", !.text = text,
                         !.had = account.expertise, !.expertise = e])
    <3>1. NamesRow([NoFlight EXCEPT !.doing = "edit", !.text = text,
                      !.had = account.expertise, !.expertise = e])
      BY DEF NoFlight, NamesRow
    <3> QED
      BY <2>2, <3>1
  <2>3. ASSUME NEW m \in ApplicationIds,
               Begin(a, [NoFlight EXCEPT !.doing = "amend", !.ref = m, !.text = text,
                                         !.expertise = e])
        PROVE  \E w : Begin(a, w) /\ NamesRow(w)
    <3>1. NamesRow([NoFlight EXCEPT !.doing = "amend", !.ref = m, !.text = text,
                                    !.expertise = e])
      BY DEF NoFlight, NamesRow
    <3> QED
      BY <2>3, <3>1
  <2> QED
    BY <1>1, <2>1, <2>2, <2>3 DEF BeginProfileEdit
<1>2. ASSUME NEW name \in Names, BeginNameChange(a, name) \/ BeginRename(a, name)
      PROVE  \E w : Begin(a, w) /\ NamesRow(w)
  <2>1. ASSUME NEW m \in ApplicationIds,
               Begin(a, [NoFlight EXCEPT !.doing = "name", !.ref = m, !.was = account.name,
                                         !.name = name])
        PROVE  \E w : Begin(a, w) /\ NamesRow(w)
    <3>1. NamesRow([NoFlight EXCEPT !.doing = "name", !.ref = m, !.was = account.name,
                                    !.name = name])
      BY DEF NoFlight, NamesRow
    <3> QED
      BY <2>1, <3>1
  <2>2. CASE BeginRename(a, name)
    <3>1. NamesRow([NoFlight EXCEPT !.doing = "rename", !.name = name])
      BY DEF NoFlight, NamesRow
    <3> QED
      BY <2>2, <3>1 DEF BeginRename
  <2> QED
    BY <1>2, <2>1, <2>2 DEF BeginNameChange
<1>3. ASSUME NEW e \in Fields, BeginExpertiseChange(a, e)
      PROVE  \E w : Begin(a, w) /\ NamesRow(w)
  <2>1. NamesRow([NoFlight EXCEPT !.doing = "expertise", !.had = account.expertise,
                                  !.expertise = e])
    BY DEF NoFlight, NamesRow
  <2> QED
    BY <1>3, <2>1 DEF BeginExpertiseChange
<1>4. CASE \/ CommitApply(a) \/ CommitNameChange(a) \/ CommitExpertiseChange(a)
           \/ CommitProfileEdit(a) \/ CommitAmend(a) \/ CommitRename(a)
  BY <1>4 DEF CommitApply, CommitNameChange, CommitExpertiseChange, CommitProfileEdit,
     CommitAmend, CommitRename
<1> QED
  BY <1>1, <1>2, <1>3, <1>4 DEF ApplicantStep

LEMMA AdminStep_NamesRow ==
  ASSUME ApplicationTypeOK, NEW a \in Admins, AdminStep(a)
  PROVE  Finish(a) \/ \E w : Begin(a, w) /\ NamesRow(w)
<1>1. ASSUME NEW r \in NameRequestIds, BeginApproveName(a, r) \/ BeginRejectName(a, r)
      PROVE  \E w : Begin(a, w) /\ NamesRow(w)
  <2>1. /\ NamesRow([NoFlight EXCEPT !.doing = "approveName", !.ref = r])
        /\ NamesRow([NoFlight EXCEPT !.doing = "rejectName", !.ref = r])
    BY DEF NoFlight, NamesRow
  <2> QED
    BY <1>1, <2>1 DEF BeginApproveName, BeginRejectName
<1>2. ASSUME NEW m \in ApplicationIds, BeginApprove(a, m) \/ BeginReject(a, m)
      PROVE  \E w : Begin(a, w) /\ NamesRow(w)
  <2>1. /\ NamesRow([NoFlight EXCEPT !.doing = "approve", !.ref = m, !.text = application[m].text,
                                     !.expertise = application[m].expertise])
        /\ NamesRow([NoFlight EXCEPT !.doing = "reject", !.ref = m])
    BY DEF NoFlight, NamesRow
  <2> QED
    BY <1>1, <1>2, <2>1 DEF BeginApprove, BeginReject
<1>3. ASSUME NEW r \in ExpertiseRequestIds, NEW doing \in {"approveExpertise", "rejectExpertise"},
             BeginExpertiseReview(a, r, doing)
      PROVE  \E w : Begin(a, w) /\ NamesRow(w)
  <2>1. NamesRow([NoFlight EXCEPT !.doing = doing, !.ref = r])
    BY DEF NoFlight, NamesRow
  <2> QED
    BY <1>3, <2>1 DEF BeginExpertiseReview
<1>4. CASE \/ CommitApproveName(a) \/ CommitRejectName(a) \/ CommitApprove(a) \/ CommitReject(a)
           \/ CommitApproveExpertise(a) \/ CommitRejectExpertise(a)
  BY <1>4 DEF CommitApproveName, CommitRejectName, CommitApprove, CommitReject,
     CommitApproveExpertise, CommitRejectExpertise
<1> QED
  BY <1>1, <1>2, <1>3, <1>4 DEF AdminStep

LEMMA Next_NamesRow ==
  ASSUME ApplicationTypeOK, \A a \in Callers : NamesRow(flight[a]),
         [ApplicationNext]_applicationVars
  PROVE  \A a \in Callers : NamesRow(flight'[a])
<1>1. ASSUME NEW a \in Windows, ApplicantStep(a) PROVE \A b \in Callers : NamesRow(flight'[b])
  BY <1>1, TabStep_NamesRow, Move_NamesRow DEF Callers
<1>2. ASSUME NEW a \in Admins, AdminStep(a) PROVE \A b \in Callers : NamesRow(flight'[b])
  BY <1>2, AdminStep_NamesRow, Move_NamesRow DEF Callers
<1>3. ASSUME NEW a \in Callers, Drop(a) PROVE \A b \in Callers : NamesRow(flight'[b])
  BY <1>3, Move_NamesRow DEF Drop
<1>4. CASE UNCHANGED applicationVars
  BY <1>4 DEF applicationVars
<1> QED
  BY <1>1, <1>2, <1>3, <1>4 DEF ApplicationNext

\* The rows of InstructorService and its requests in flight have their types, for any
\* number of tabs and administrators: a decision names a row of its table.
THEOREM ApplicationsTypeCorrect == ApplicationSpec => []ApplicationTypeOK
<1> DEFINE Typed == ApplicationTypeOK /\ \A a \in Callers : NamesRow(flight[a])
<1>1. ApplicationInit => Typed
  BY ApplicationInit_Type DEF ApplicationInit, NoFlight, NamesRow
<1>2. Typed /\ [ApplicationNext]_applicationVars => Typed'
  BY ApplicationNext_Type, Next_NamesRow
<1>3. Typed => ApplicationTypeOK
  OBVIOUS
<1> QED
  BY <1>1, <1>2, <1>3, PTL DEF ApplicationSpec

-----------------------------------------------------------------------------
(* Applications: a review has its request, for a person with one tab. *)

\* Rows are neither created nor put under review.
LEMMA Calm_Review ==
  ASSUME ReviewInv, ApplicationTypeOK', nameRequest' = nameRequest,
         \A m \in ApplicationIds :
           /\ application'[m].status = "none" <=> application[m].status = "none"
           /\ application'[m].status = "PENDING" =>
                /\ application[m].status = "PENDING"
                /\ application'[m].change = application[m].change
                /\ application'[m].name = application[m].name,
         \A a \in Callers : Placed(a, flight'[a])
  PROVE  ReviewInv'
<1>1. \A m \in ApplicationIds : IsLatest(m)' <=> IsLatest(m)
  BY DEF IsLatest
<1>2. ASSUME NEW m \in ApplicationIds PROVE Grounded(m)'
  BY <1>1 DEF ReviewInv, Grounded
<1>3. ASSUME NEW a \in Callers PROVE Placed(a, flight[a])'
  BY <1>1 DEF Placed, Pending
<1> QED
  BY <1>2, <1>3 DEF ReviewInv

\* A request that starts, or ends without a commit.
LEMMA Begin_Review ==
  ASSUME ReviewInv, ApplicationTypeOK', UNCHANGED rows,
         NEW a \in Callers, \A b \in Callers : b # a => flight'[b] = flight[b], Placed(a, flight'[a])
  PROVE  ReviewInv'
<1>1. \A b \in Callers : Placed(b, flight'[b])
  BY DEF ReviewInv
<1> QED
  BY <1>1, Calm_Review DEF rows

LEMMA Idle_Placed ==
  ASSUME ReviewInv, NEW a \in Callers, Finish(a)
  PROVE  \A b \in Callers : Placed(b, flight'[b])
  BY DEF ReviewInv, ApplicationTypeOK, Finish, NoFlight, Placed

LEMMA Begins_Review ==
  ASSUME ReviewInv, ApplicationTypeOK', NEW a \in Callers,
         \/ /\ a \in Windows
            /\ \/ \E text \in Texts, e \in Fields :
                    BeginApply(a, text, e) \/ BeginProfileEdit(a, text, e)
               \/ \E name \in Names : BeginNameChange(a, name) \/ BeginRename(a, name)
               \/ \E e \in Fields : BeginExpertiseChange(a, e)
         \/ /\ a \in Admins
            /\ \/ \E m \in ApplicationIds : BeginApprove(a, m) \/ BeginReject(a, m)
               \/ \E r \in NameRequestIds : BeginApproveName(a, r) \/ BeginRejectName(a, r)
               \/ \E r \in ExpertiseRequestIds,
                     doing \in {"approveExpertise", "rejectExpertise"} :
                    BeginExpertiseReview(a, r, doing)
         \/ Drop(a)
  PROVE  ReviewInv'
<1>1. UNCHANGED rows
  BY DEF BeginApply, BeginProfileEdit, BeginNameChange, BeginRename, BeginExpertiseChange,
     BeginApprove, BeginReject, BeginApproveName, BeginRejectName, BeginExpertiseReview, Drop,
     Begin
<1>2. flight \in [Callers -> FlightState]
  BY DEF ReviewInv, ApplicationTypeOK
<1>3. Placed(a, flight'[a]) /\ \A b \in Callers : b # a => flight'[b] = flight[b]
  <2>1. ASSUME NEW text \in Texts, NEW e \in Fields, a \in Windows,
               BeginApply(a, text, e) \/ BeginProfileEdit(a, text, e)
        PROVE  Placed(a, flight'[a]) /\ \A b \in Callers : b # a => flight'[b] = flight[b]
    <3>1. CASE BeginApply(a, text, e)
      <4>1. flight'[a].doing = "apply" /\ \A b \in Callers : b # a => flight'[b] = flight[b]
        BY <1>2, <3>1 DEF BeginApply, Begin, NoFlight
      <4> QED
        BY <2>1, <3>1, <4>1 DEF BeginApply, Placed
    <3>2. CASE BeginProfileEdit(a, text, e)
      <4>1. /\ flight'[a].doing \in {"edit", "amend"}
            /\ \A b \in Callers : b # a => flight'[b] = flight[b]
        <5>1. CASE Begin(a, [NoFlight EXCEPT !.doing = "edit", !.text = text,
                                 !.had = account.expertise, !.expertise = e])
          BY <1>2, <5>1 DEF Begin, NoFlight
        <5>2. ASSUME NEW m \in ApplicationIds,
                     Begin(a, [NoFlight EXCEPT !.doing = "amend", !.ref = m, !.text = text,
                                               !.expertise = e])
              PROVE  /\ flight'[a].doing \in {"edit", "amend"}
                     /\ \A b \in Callers : b # a => flight'[b] = flight[b]
          BY <1>2, <5>2 DEF Begin, NoFlight
        <5> QED
          BY <3>2, <5>1, <5>2 DEF BeginProfileEdit
      <4> QED
        BY <4>1 DEF Placed
    <3> QED
      BY <2>1, <3>1, <3>2
  <2>2. ASSUME NEW name \in Names, a \in Windows, BeginNameChange(a, name) \/ BeginRename(a, name)
        PROVE  Placed(a, flight'[a]) /\ \A b \in Callers : b # a => flight'[b] = flight[b]
    <3>1. CASE BeginNameChange(a, name)
      <4>1. PICK m \in ApplicationIds :
              /\ IsLatest(m)
              /\ Begin(a, [NoFlight EXCEPT !.doing = "name", !.ref = m, !.was = account.name,
                                           !.name = name])
        BY <3>1 DEF BeginNameChange
      <4>2. /\ flight'[a].doing = "name" /\ flight'[a].ref = m
            /\ \A b \in Callers : b # a => flight'[b] = flight[b]
        BY <1>2, <4>1 DEF Begin, NoFlight
      <4>3. Pending(nameRequest) = {}
        BY <3>1 DEF BeginNameChange
      <4> QED
        BY <2>2, <4>1, <4>2, <4>3 DEF Placed
    <3>2. CASE BeginRename(a, name)
      <4>1. flight'[a].doing = "rename" /\ \A b \in Callers : b # a => flight'[b] = flight[b]
        BY <1>2, <3>2 DEF BeginRename, Begin, NoFlight
      <4> QED
        BY <4>1 DEF Placed
    <3> QED
      BY <2>2, <3>1, <3>2
  <2>3. ASSUME NEW e \in Fields, BeginExpertiseChange(a, e)
        PROVE  Placed(a, flight'[a]) /\ \A b \in Callers : b # a => flight'[b] = flight[b]
    BY <1>2, <2>3 DEF BeginExpertiseChange, Begin, NoFlight, Placed
  <2>4. ASSUME NEW r \in NameRequestIds, a \in Admins,
               BeginApproveName(a, r) \/ BeginRejectName(a, r)
        PROVE  Placed(a, flight'[a]) /\ \A b \in Callers : b # a => flight'[b] = flight[b]
    BY <1>2, <2>4 DEF BeginApproveName, BeginRejectName, Begin, NoFlight, Placed
  <2>5. ASSUME NEW m \in ApplicationIds, a \in Admins, BeginApprove(a, m) \/ BeginReject(a, m)
        PROVE  Placed(a, flight'[a]) /\ \A b \in Callers : b # a => flight'[b] = flight[b]
    <3>1. CASE \E r \in NameRequestIds : BeginApproveName(a, r) \/ BeginRejectName(a, r)
      BY <2>4, <2>5, <3>1
    <3>2. CASE ~ \E r \in NameRequestIds : BeginApproveName(a, r) \/ BeginRejectName(a, r)
      BY <1>2, <2>5, <3>2 DEF BeginApprove, BeginReject, Begin, NoFlight, Placed
    <3> QED
      BY <3>1, <3>2
  <2>6. ASSUME NEW r \in ExpertiseRequestIds, NEW doing \in {"approveExpertise", "rejectExpertise"},
               BeginExpertiseReview(a, r, doing)
        PROVE  Placed(a, flight'[a]) /\ \A b \in Callers : b # a => flight'[b] = flight[b]
    BY <1>2, <2>6 DEF BeginExpertiseReview, Begin, NoFlight, Placed
  <2>7. ASSUME Drop(a)
        PROVE  Placed(a, flight'[a]) /\ \A b \in Callers : b # a => flight'[b] = flight[b]
    BY <1>2, <2>7 DEF Drop, Finish, NoFlight, Placed
  <2> QED
    BY <2>1, <2>2, <2>3, <2>4, <2>5, <2>6, <2>7
<1> QED
  BY <1>1, <1>3, Begin_Review

\* Commits that leave the requests of names alone and create no application.
LEMMA PlainCommits_Review ==
  ASSUME ReviewInv, ApplicationTypeOK', NEW a \in Callers,
         \/ CommitExpertiseChange(a) \/ CommitProfileEdit(a) \/ CommitAmend(a) \/ CommitRename(a)
         \/ CommitApprove(a) \/ CommitReject(a)
         \/ CommitApproveExpertise(a) \/ CommitRejectExpertise(a)
  PROVE  ReviewInv'
<1>1. Finish(a) /\ nameRequest' = nameRequest
  BY DEF CommitExpertiseChange, CommitProfileEdit, CommitAmend, CommitRename, CommitApprove,
     CommitReject, CommitApproveExpertise, CommitRejectExpertise
<1>2. application \in [ApplicationIds -> ApplicationRow] /\ Placed(a, flight[a])
  BY DEF ReviewInv, ApplicationTypeOK
<1>3. ASSUME NEW m \in ApplicationIds
      PROVE  /\ application'[m].status = "none" <=> application[m].status = "none"
             /\ application'[m].status = "PENDING" =>
                  /\ application[m].status = "PENDING"
                  /\ application'[m].change = application[m].change
                  /\ application'[m].name = application[m].name
  <2>1. CASE application' = application
    BY <2>1
  <2>2. CASE CommitAmend(a)
    BY <1>2, <2>2 DEF CommitAmend, ApplicationRow
  <2>3. CASE CommitApprove(a) \/ CommitReject(a)
    BY <1>2, <2>3 DEF CommitApprove, CommitReject, ApplicationRow, Placed
  <2>4. CASE CommitProfileEdit(a)
    BY <1>2, <2>4 DEF CommitProfileEdit, ApplicationRow
  <2>5. CASE CommitApproveExpertise(a)
    BY <1>2, <2>5 DEF CommitApproveExpertise, ApplicationRow
  <2> QED
    BY <2>1, <2>2, <2>3, <2>4, <2>5 DEF CommitExpertiseChange, CommitRename, CommitRejectExpertise
<1> QED
  BY <1>1, <1>3, Idle_Placed, Calm_Review

LEMMA CommitApply_Review ==
  ASSUME OneWindow, ReviewInv, ApplicationTypeOK', NEW a \in Windows, CommitApply(a)
  PROVE  ReviewInv'
<1>0. /\ a \in Callers /\ Placed(a, flight[a]) /\ Finish(a) /\ flight[a].doing = "apply"
      /\ UNCHANGED <<account, nameRequest, expertiseRequest>>
      /\ \A m \in ApplicationIds : application[m].status # "PENDING"
  BY DEF Callers, ReviewInv, CommitApply, Placed
<1>1. PICK n \in ApplicationIds :
        /\ application[n].status = "none"
        /\ application'[n].status = "PENDING" /\ application'[n].change = 0
        /\ \A m \in ApplicationIds : m # n => application'[m] = application[m]
  BY DEF CommitApply, IsNext, ReviewInv, ApplicationTypeOK
<1>2. ASSUME NEW m \in ApplicationIds PROVE Grounded(m)'
  BY <1>0, <1>1 DEF Grounded
<1>3. ASSUME NEW b \in Callers PROVE Placed(b, flight[b])'
  <2>1. CASE b = a
    BY <1>0, <2>1 DEF ReviewInv, ApplicationTypeOK, Finish, NoFlight, Placed
  <2>2. CASE b # a
    <3>1. flight'[b] = flight[b] /\ Placed(b, flight[b])
      BY <1>0, <2>2 DEF ReviewInv, ApplicationTypeOK, Finish
    <3>2. b \notin Windows
      BY <2>2 DEF OneWindow
    <3> QED
      BY <1>1, <3>1, <3>2 DEF Placed
  <2> QED
    BY <2>1, <2>2
<1> QED
  BY <1>2, <1>3 DEF ReviewInv

LEMMA CommitNameChange_Review ==
  ASSUME OneWindow, ReviewInv, ApplicationTypeOK', NEW a \in Windows, CommitNameChange(a)
  PROVE  ReviewInv'
<1> DEFINE m == flight[a].ref
<1>0. /\ a \in Callers /\ Placed(a, flight[a]) /\ Finish(a) /\ flight[a].doing = "name"
      /\ m \in ApplicationIds /\ IsLatest(m) /\ Pending(nameRequest) = {}
  BY DEF Callers, ReviewInv, CommitNameChange, Placed
<1>1. PICK r \in NameRequestIds :
        /\ nameRequest' = [nameRequest EXCEPT ![r] =
             [status |-> "PENDING", from |-> flight[a].was, to |-> flight[a].name]]
        /\ application' = [application EXCEPT
             ![m] = [@ EXCEPT !.status = "PENDING", !.name = flight[a].name, !.change = r]]
  BY DEF CommitNameChange
<1>2. /\ nameRequest'[r].status = "PENDING" /\ nameRequest'[r].to = flight[a].name
      /\ application'[m].status = "PENDING" /\ application'[m].name = flight[a].name
      /\ application'[m].change = r
      /\ \A n \in ApplicationIds : n # m => application'[n] = application[n]
  BY <1>0, <1>1 DEF ReviewInv, ApplicationTypeOK, ApplicationRow
<1>3. application[m].status # "none"
  BY <1>0 DEF IsLatest
<1>4. \A n \in ApplicationIds : IsLatest(n)' <=> IsLatest(n)
  BY <1>2, <1>3 DEF IsLatest
<1>5. ASSUME NEW n \in ApplicationIds PROVE Grounded(n)'
  <2>1. CASE n = m
    BY <1>0, <1>2, <1>4, <2>1 DEF Grounded
  <2>2. CASE n # m
    <3> SUFFICES ASSUME application[n].status = "PENDING", application[n].change # 0
                 PROVE  FALSE
      BY <1>2, <2>2 DEF Grounded
    <3>1. /\ application[n].change \in 0..MaxNameRequests
          /\ nameRequest[application[n].change].status = "PENDING"
      BY DEF ReviewInv, Grounded, ApplicationTypeOK, ApplicationRow
    <3>2. application[n].change \in NameRequestIds
      BY <3>1, ApplicationsAssumption DEF NameRequestIds
    <3> QED
      BY <1>0, <3>1, <3>2 DEF Pending, ReviewInv, ApplicationTypeOK
  <2> QED
    BY <2>1, <2>2
<1>6. ASSUME NEW b \in Callers PROVE Placed(b, flight[b])'
  <2>1. CASE b = a
    BY <1>0, <2>1 DEF ReviewInv, ApplicationTypeOK, Finish, NoFlight, Placed
  <2>2. CASE b # a
    <3>1. flight'[b] = flight[b] /\ Placed(b, flight[b])
      BY <1>0, <2>2 DEF ReviewInv, ApplicationTypeOK, Finish
    <3>2. b \notin Windows
      BY <2>2 DEF OneWindow
    <3> QED
      BY <1>2, <1>3, <3>1, <3>2 DEF Placed
  <2> QED
    BY <2>1, <2>2
<1> QED
  BY <1>5, <1>6 DEF ReviewInv

\* A decision of a change of name also ends the review that the change began.
LEMMA NameDecision_Review ==
  ASSUME ReviewInv, ApplicationTypeOK', NEW a \in Callers,
         CommitApproveName(a) \/ CommitRejectName(a)
  PROVE  ReviewInv'
<1> DEFINE r == flight[a].ref
<1>0. /\ r \in NameRequestIds /\ Finish(a) /\ Placed(a, flight[a])
      /\ \E name : Reviewed(r, name)
  BY DEF ReviewInv, CommitApproveName, CommitRejectName, Placed
<1>1. /\ nameRequest'[r].status # "PENDING"
      /\ \A q \in NameRequestIds : q # r => nameRequest'[q] = nameRequest[q]
      /\ DOMAIN nameRequest' = DOMAIN nameRequest
  BY <1>0 DEF CommitApproveName, CommitRejectName, ReviewInv, ApplicationTypeOK, NameRow
<1>2. ASSUME NEW m \in ApplicationIds
      PROVE  \/ application'[m] = application[m]
             \/ application[m].status = "PENDING" /\ application'[m].status = "APPROVED"
  BY <1>0 DEF Reviewed, ReviewInv, ApplicationTypeOK, ApplicationRow
<1>3. \A m \in ApplicationIds : IsLatest(m)' <=> IsLatest(m)
  BY <1>2 DEF IsLatest
<1>4. ASSUME NEW m \in ApplicationIds PROVE Grounded(m)'
  <2> SUFFICES ASSUME application'[m].status = "PENDING", application'[m].change # 0
               PROVE  /\ application[m].change # r /\ application[m].change \in NameRequestIds
                      /\ application'[m] = application[m] /\ Grounded(m)
    BY <1>1, <1>3 DEF Grounded
  <2>1. application'[m] = application[m] /\ Grounded(m)
    BY <1>2 DEF ReviewInv
  <2>2. application[m].change \in 0..MaxNameRequests
    BY DEF ReviewInv, ApplicationTypeOK, ApplicationRow
  <2>3. application[m].change \in NameRequestIds
    BY <2>1, <2>2, ApplicationsAssumption DEF NameRequestIds
  <2>4. ASSUME application[m].change = r PROVE FALSE
    <3>1. IsLatest(m) /\ application[m].status = "PENDING"
          /\ application[m].name = nameRequest[r].to
      BY <2>1, <2>4 DEF Grounded
    <3>2. application'[m].status = "APPROVED"
      BY <1>0, <3>1 DEF Reviewed, ReviewInv, ApplicationTypeOK, ApplicationRow
    <3> QED
      BY <3>2
  <2> QED
    BY <2>1, <2>3, <2>4
<1>5. Pending(nameRequest) = {} => Pending(nameRequest') = {}
  BY <1>0, <1>1 DEF Pending, ReviewInv, ApplicationTypeOK
<1>6. ASSUME NEW b \in Callers PROVE Placed(b, flight[b])'
  <2>1. Placed(b, flight'[b])
    BY <1>0, Idle_Placed
  <2> QED
    BY <1>2, <1>3, <1>5, <2>1 DEF Placed, Pending
<1> QED
  BY <1>4, <1>6 DEF ReviewInv

LEMMA ReviewInv_Next ==
  ASSUME OneWindow, ReviewInv, [ApplicationNext]_applicationVars
  PROVE  ReviewInv'
<1>0. ApplicationTypeOK /\ ApplicationTypeOK'
  <2>1. \A a \in Callers : NamesRow(flight[a])
    BY DEF ReviewInv, Placed, NamesRow
  <2> QED
    BY <2>1, ApplicationNext_Type DEF ReviewInv
<1>1. ASSUME NEW a \in Windows, ApplicantStep(a) PROVE ReviewInv'
  <2>0. a \in Callers
    BY DEF Callers
  <2>1. CASE CommitApply(a)
    BY <1>0, <2>1, CommitApply_Review
  <2>2. CASE CommitNameChange(a)
    BY <1>0, <2>2, CommitNameChange_Review
  <2>3. CASE CommitExpertiseChange(a) \/ CommitProfileEdit(a) \/ CommitAmend(a) \/ CommitRename(a)
    BY <1>0, <2>0, <2>3, PlainCommits_Review
  <2> QED
    BY <1>0, <1>1, <2>0, <2>1, <2>2, <2>3, Begins_Review DEF ApplicantStep
<1>2. ASSUME NEW a \in Admins, AdminStep(a) PROVE ReviewInv'
  <2>0. a \in Callers
    BY DEF Callers
  <2>1. CASE CommitApproveName(a) \/ CommitRejectName(a)
    BY <1>0, <2>0, <2>1, NameDecision_Review
  <2>2. CASE \/ CommitApprove(a) \/ CommitReject(a)
             \/ CommitApproveExpertise(a) \/ CommitRejectExpertise(a)
    BY <1>0, <2>0, <2>2, PlainCommits_Review
  <2> QED
    BY <1>0, <1>2, <2>0, <2>1, <2>2, Begins_Review DEF AdminStep
<1>3. ASSUME NEW a \in Callers, Drop(a) PROVE ReviewInv'
  BY <1>0, <1>3, Begins_Review
<1>4. CASE UNCHANGED applicationVars
  <2>1. \A a \in Callers : Placed(a, flight'[a])
    BY <1>4 DEF applicationVars, rows, ReviewInv
  <2> QED
    BY <1>0, <1>4, <2>1, Calm_Review DEF applicationVars, rows
<1> QED
  BY <1>1, <1>2, <1>3, <1>4 DEF ApplicationNext

LEMMA Init_Review == ApplicationInit => ReviewInv
<1> SUFFICES ASSUME ApplicationInit PROVE ReviewInv
  OBVIOUS
<1>1. \A m \in ApplicationIds : Grounded(m)
  BY DEF ApplicationInit, Grounded
<1>2. \A a \in Callers : Placed(a, flight[a])
  BY DEF ApplicationInit, NoFlight, Placed
<1> QED
  BY <1>1, <1>2, ApplicationInit_Type DEF ReviewInv

\* The inductive invariant of Applications, for a person with one tab and any number of
\* administrators: types, the application of a change of name is the latest one, and a
\* request in flight still finds what it has checked.
THEOREM ReviewInvAlways ==
  ASSUME OneWindow
  PROVE  ApplicationSpec => []ReviewInv
<1>1. ReviewInv /\ [ApplicationNext]_applicationVars => ReviewInv'
  BY ReviewInv_Next
<1> QED
  BY <1>1, Init_Review, PTL DEF ApplicationSpec

\* Whatever administrators decide at the same time in approve, reject, approveNameChange
\* and rejectNameChange, no application stays under review for a change that is decided.
THEOREM NoReviewWithoutRequest ==
  ASSUME OneWindow
  PROVE  ApplicationSpec => []ReviewHasItsRequest
<1>1. ReviewInv => ReviewHasItsRequest
  BY DEF ReviewInv, Grounded, ReviewHasItsRequest
<1> QED
  BY <1>1, ReviewInvAlways, PTL

-----------------------------------------------------------------------------
(* A change of name can be approved, for one tab and administrators who decide one at *)
(* a time.                                                                           *)

Deciding == {a \in Admins : flight[a].doing # "idle"}

OneDecides == \A a, b \in Deciding : a = b

\* One change is pending at most, and nothing else touches the name meanwhile.
NameInv ==
  /\ \A q, r \in Pending(nameRequest) : q = r
  /\ Pending(nameRequest) # {} => account.approved
  /\ NameRequestCanBeApproved
  /\ \A a \in Callers :
       /\ flight[a].doing = "name" =>
            /\ a \in Windows /\ Pending(nameRequest) = {}
            /\ account.approved /\ flight[a].was = account.name
       /\ flight[a].doing = "rename" => a \in Windows /\ Pending(nameRequest) = {}
       /\ flight[a].doing \in {"approveName", "rejectName"} =>
            a \in Admins /\ flight[a].ref \in Pending(nameRequest)

LEMMA Init_Name == ApplicationInit => NameInv
  BY DEF ApplicationInit, NameInv, Pending, NoFlight, NameRequestCanBeApproved

\* Steps that touch neither the name nor the requests of names.
LEMMA Calm_Name ==
  ASSUME ApplicationTypeOK, NameInv, nameRequest' = nameRequest, account'.name = account.name,
         account.approved => account'.approved,
         \A a \in Callers :
           \/ flight'[a] = flight[a]
           \/ flight'[a].doing \notin {"name", "rename", "approveName", "rejectName"}
           \/ /\ flight'[a].doing = "name" /\ a \in Windows /\ Pending(nameRequest) = {}
              /\ account.approved /\ flight'[a].was = account.name
           \/ flight'[a].doing = "rename" /\ a \in Windows /\ Pending(nameRequest) = {}
           \/ /\ flight'[a].doing \in {"approveName", "rejectName"} /\ a \in Admins
              /\ flight'[a].ref \in Pending(nameRequest)
  PROVE  NameInv'
  BY DEF NameInv, NameRequestCanBeApproved

LEMMA Begins_Name ==
  ASSUME ApplicationTypeOK, NameInv, NEW a \in Callers,
         \/ /\ a \in Windows
            /\ \/ \E text \in Texts, e \in Fields :
                    BeginApply(a, text, e) \/ BeginProfileEdit(a, text, e)
               \/ \E name \in Names : BeginNameChange(a, name) \/ BeginRename(a, name)
               \/ \E e \in Fields : BeginExpertiseChange(a, e)
         \/ /\ a \in Admins
            /\ \/ \E m \in ApplicationIds : BeginApprove(a, m) \/ BeginReject(a, m)
               \/ \E r \in NameRequestIds : BeginApproveName(a, r) \/ BeginRejectName(a, r)
               \/ \E r \in ExpertiseRequestIds,
                     doing \in {"approveExpertise", "rejectExpertise"} :
                    BeginExpertiseReview(a, r, doing)
         \/ Drop(a)
  PROVE  NameInv'
<1> DEFINE Calm == \/ flight'[a].doing \notin {"name", "rename", "approveName", "rejectName"}
                   \/ /\ flight'[a].doing = "name" /\ a \in Windows /\ Pending(nameRequest) = {}
                      /\ account.approved /\ flight'[a].was = account.name
                   \/ flight'[a].doing = "rename" /\ a \in Windows /\ Pending(nameRequest) = {}
                   \/ /\ flight'[a].doing \in {"approveName", "rejectName"} /\ a \in Admins
                      /\ flight'[a].ref \in Pending(nameRequest)
           Alone == \A b \in Callers : b # a => flight'[b] = flight[b]
<1>1. UNCHANGED rows
  BY DEF BeginApply, BeginProfileEdit, BeginNameChange, BeginRename, BeginExpertiseChange,
     BeginApprove, BeginReject, BeginApproveName, BeginRejectName, BeginExpertiseReview, Drop,
     Begin
<1>2. flight \in [Callers -> FlightState] /\ DOMAIN nameRequest = NameRequestIds
  BY DEF ApplicationTypeOK
<1>3. Calm /\ Alone
  <2>1. ASSUME NEW text \in Texts, NEW e \in Fields, BeginApply(a, text, e)
        PROVE  Calm /\ Alone
    <3>1. flight'[a].doing = "apply" /\ Alone
      BY <1>2, <2>1 DEF BeginApply, Begin, NoFlight
    <3> QED
      BY <3>1
  <2>2. ASSUME NEW text \in Texts, NEW e \in Fields, BeginProfileEdit(a, text, e)
        PROVE  Calm /\ Alone
    <3>1. CASE Begin(a, [NoFlight EXCEPT !.doing = "edit", !.text = text,
                             !.had = account.expertise, !.expertise = e])
      <4>1. flight'[a].doing = "edit" /\ Alone
        BY <1>2, <3>1 DEF Begin, NoFlight
      <4> QED
        BY <4>1
    <3>2. ASSUME NEW m \in ApplicationIds,
                 Begin(a, [NoFlight EXCEPT !.doing = "amend", !.ref = m, !.text = text,
                                           !.expertise = e])
          PROVE  Calm /\ Alone
      <4>1. flight'[a].doing = "amend" /\ Alone
        BY <1>2, <3>2 DEF Begin, NoFlight
      <4> QED
        BY <4>1
    <3> QED
      BY <2>2, <3>1, <3>2 DEF BeginProfileEdit
  <2>3. ASSUME NEW name \in Names, BeginNameChange(a, name), a \in Windows PROVE Calm /\ Alone
    <3>1. PICK m \in ApplicationIds :
            Begin(a, [NoFlight EXCEPT !.doing = "name", !.ref = m, !.was = account.name,
                                      !.name = name])
      BY <2>3 DEF BeginNameChange
    <3>2. flight'[a].doing = "name" /\ flight'[a].was = account.name /\ Alone
      BY <1>2, <3>1 DEF Begin, NoFlight
    <3>3. account.approved /\ Pending(nameRequest) = {}
      BY <2>3 DEF BeginNameChange
    <3> QED
      BY <2>3, <3>2, <3>3
  <2>4. ASSUME NEW name \in Names, BeginRename(a, name), a \in Windows PROVE Calm /\ Alone
    <3>1. flight'[a].doing = "rename" /\ Alone
      BY <1>2, <2>4 DEF BeginRename, Begin, NoFlight
    <3>2. Pending(nameRequest) = {}
      BY <2>4 DEF BeginRename, NameInv
    <3> QED
      BY <2>4, <3>1, <3>2
  <2>5. ASSUME NEW e \in Fields, BeginExpertiseChange(a, e) PROVE Calm /\ Alone
    <3>1. flight'[a].doing = "expertise" /\ Alone
      BY <1>2, <2>5 DEF BeginExpertiseChange, Begin, NoFlight
    <3> QED
      BY <3>1
  <2>6. ASSUME NEW r \in NameRequestIds, BeginApproveName(a, r) \/ BeginRejectName(a, r),
               a \in Admins
        PROVE  Calm /\ Alone
    <3>1. flight'[a].doing \in {"approveName", "rejectName"} /\ flight'[a].ref = r /\ Alone
      BY <1>2, <2>6 DEF BeginApproveName, BeginRejectName, Begin, NoFlight
    <3>2. r \in Pending(nameRequest)
      BY <1>2, <2>6 DEF BeginApproveName, BeginRejectName, Pending
    <3> QED
      BY <2>6, <3>1, <3>2
  <2>7. ASSUME NEW m \in ApplicationIds, BeginApprove(a, m) \/ BeginReject(a, m), a \in Admins
        PROVE  Calm /\ Alone
    <3>1. CASE \E r \in NameRequestIds : BeginApproveName(a, r) \/ BeginRejectName(a, r)
      BY <2>6, <2>7, <3>1
    <3>2. CASE ~ \E r \in NameRequestIds : BeginApproveName(a, r) \/ BeginRejectName(a, r)
      <4>1. flight'[a].doing \in {"approve", "reject"} /\ Alone
        BY <1>2, <2>7, <3>2 DEF BeginApprove, BeginReject, Begin, NoFlight
      <4> QED
        BY <4>1
    <3> QED
      BY <3>1, <3>2
  <2>8. ASSUME NEW r \in ExpertiseRequestIds, NEW doing \in {"approveExpertise", "rejectExpertise"},
               BeginExpertiseReview(a, r, doing)
        PROVE  Calm /\ Alone
    <3>1. flight'[a].doing = doing /\ Alone
      BY <1>2, <2>8 DEF BeginExpertiseReview, Begin, NoFlight
    <3> QED
      BY <3>1
  <2>9. ASSUME Drop(a) PROVE Calm /\ Alone
    <3>1. flight'[a].doing = "idle" /\ Alone
      BY <1>2, <2>9 DEF Drop, Finish, NoFlight
    <3> QED
      BY <3>1
  <2> QED
    BY <2>1, <2>2, <2>3, <2>4, <2>5, <2>6, <2>7, <2>8, <2>9
<1> QED
  BY <1>1, <1>3, Calm_Name DEF rows

\* Commits that are not about the name.
LEMMA PlainCommits_Name ==
  ASSUME ApplicationTypeOK, NameInv, NEW a \in Callers,
         \/ CommitApply(a) \/ CommitExpertiseChange(a) \/ CommitProfileEdit(a) \/ CommitAmend(a)
         \/ CommitApprove(a) \/ CommitReject(a)
         \/ CommitApproveExpertise(a) \/ CommitRejectExpertise(a)
  PROVE  NameInv'
<1>1. Finish(a) /\ nameRequest' = nameRequest
  BY DEF CommitApply, CommitExpertiseChange, CommitProfileEdit, CommitAmend, CommitApprove,
     CommitReject, CommitApproveExpertise, CommitRejectExpertise
<1>2. account'.name = account.name /\ (account.approved => account'.approved)
  <2>1. account \in Account
    BY DEF ApplicationTypeOK
  <2> QED
    BY <2>1 DEF Account, CommitApply, CommitExpertiseChange, CommitProfileEdit, CommitAmend,
       CommitApprove, CommitReject, CommitApproveExpertise, CommitRejectExpertise
<1>3. flight'[a].doing = "idle" /\ \A b \in Callers : b # a => flight'[b] = flight[b]
  BY <1>1 DEF ApplicationTypeOK, Finish, NoFlight
<1> QED
  BY <1>1, <1>2, <1>3, Calm_Name

LEMMA NameCommits_Name ==
  ASSUME OneWindow, OneDecides, Windows \cap Admins = {}, ApplicationTypeOK, NameInv,
         NEW a \in Callers,
         CommitNameChange(a) \/ CommitRename(a) \/ CommitApproveName(a) \/ CommitRejectName(a)
  PROVE  NameInv'
<1>0. /\ nameRequest \in [NameRequestIds -> NameRow] /\ account \in Account
      /\ flight \in [Callers -> FlightState]
  BY DEF ApplicationTypeOK
<1>1. flight'[a].doing = "idle" /\ \A b \in Callers : b # a => flight'[b] = flight[b]
  <2>1. Finish(a)
    BY DEF CommitNameChange, CommitRename, CommitApproveName, CommitRejectName
  <2> QED
    BY <1>0, <2>1 DEF Finish, NoFlight
<1>2. CASE CommitNameChange(a)
  <2>1. /\ a \in Windows /\ Pending(nameRequest) = {}
        /\ account.approved /\ flight[a].was = account.name
    BY <1>2 DEF CommitNameChange, NameInv
  <2>2. PICK r \in NameRequestIds :
          nameRequest' = [nameRequest EXCEPT ![r] =
            [status |-> "PENDING", from |-> flight[a].was, to |-> flight[a].name]]
    BY <1>2 DEF CommitNameChange
  <2>3. Pending(nameRequest') = {r} /\ nameRequest'[r].from = account.name
    BY <1>0, <2>1, <2>2 DEF Pending
  <2>4. account' = account
    BY <1>2 DEF CommitNameChange
  <2>5. ASSUME NEW b \in Callers
        PROVE  flight'[b].doing \notin {"name", "rename", "approveName", "rejectName"}
    <3>1. CASE b = a
      BY <1>1, <3>1
    <3>2. CASE b # a
      BY <1>1, <2>1, <3>2 DEF NameInv, OneWindow
    <3> QED
      BY <3>1, <3>2
  <2> QED
    BY <2>1, <2>3, <2>4, <2>5 DEF NameInv, NameRequestCanBeApproved
<1>3. CASE CommitRename(a)
  <2>1. a \in Windows /\ Pending(nameRequest) = {} /\ nameRequest' = nameRequest
    BY <1>3 DEF CommitRename, NameInv
  <2>2. ASSUME NEW b \in Callers
        PROVE  flight'[b].doing \notin {"name", "rename", "approveName", "rejectName"}
    <3>1. CASE b = a
      BY <1>1, <3>1
    <3>2. CASE b # a
      BY <1>1, <2>1, <3>2 DEF NameInv, OneWindow
    <3> QED
      BY <3>1, <3>2
  <2>3. Pending(nameRequest') = {}
    BY <2>1
  <2> QED
    BY <2>2, <2>3 DEF NameInv, NameRequestCanBeApproved
<1>4. CASE CommitApproveName(a) \/ CommitRejectName(a)
  <2>0. a \in Deciding
    BY <1>4 DEF CommitApproveName, CommitRejectName, NameInv, Deciding
  <2>1. a \in Admins /\ flight[a].ref \in Pending(nameRequest)
    BY <1>4 DEF CommitApproveName, CommitRejectName, NameInv
  <2>2. Pending(nameRequest') = {}
    <3>1. \A q \in Pending(nameRequest) : q = flight[a].ref
      BY <2>1 DEF NameInv
    <3> QED
      BY <1>0, <1>4, <2>1, <3>1 DEF Pending, CommitApproveName, CommitRejectName, NameRow
  <2>3. ASSUME NEW b \in Callers
        PROVE  flight'[b].doing \notin {"name", "rename", "approveName", "rejectName"}
    <3>1. CASE b = a
      BY <1>1, <3>1
    <3>2. CASE b # a
      <4>1. b \in Admins => flight[b].doing = "idle"
        BY <2>0, <3>2 DEF OneDecides, Deciding
      <4> QED
        BY <1>1, <2>1, <3>2, <4>1 DEF NameInv
    <3> QED
      BY <3>1, <3>2
  <2> QED
    BY <2>2, <2>3 DEF NameInv, NameRequestCanBeApproved
<1> QED
  BY <1>2, <1>3, <1>4

LEMMA NameInv_Next ==
  ASSUME OneWindow, OneDecides, ApplicationTypeOK, NameInv, [ApplicationNext]_applicationVars
  PROVE  NameInv'
<1>0. Windows \cap Admins = {}
  BY ApplicationsAssumption
<1>1. ASSUME NEW a \in Windows, ApplicantStep(a) PROVE NameInv'
  <2>0. a \in Callers
    BY DEF Callers
  <2>1. CASE CommitNameChange(a) \/ CommitRename(a)
    BY <1>0, <2>0, <2>1, NameCommits_Name
  <2>2. CASE \/ CommitApply(a) \/ CommitExpertiseChange(a)
             \/ CommitProfileEdit(a) \/ CommitAmend(a)
    BY <2>0, <2>2, PlainCommits_Name
  <2> QED
    BY <1>1, <2>0, <2>1, <2>2, Begins_Name DEF ApplicantStep
<1>2. ASSUME NEW a \in Admins, AdminStep(a) PROVE NameInv'
  <2>0. a \in Callers
    BY DEF Callers
  <2>1. CASE CommitApproveName(a) \/ CommitRejectName(a)
    BY <1>0, <2>0, <2>1, NameCommits_Name
  <2>2. CASE \/ CommitApprove(a) \/ CommitReject(a)
             \/ CommitApproveExpertise(a) \/ CommitRejectExpertise(a)
    BY <2>0, <2>2, PlainCommits_Name
  <2> QED
    BY <1>2, <2>0, <2>1, <2>2, Begins_Name DEF AdminStep
<1>3. ASSUME NEW a \in Callers, Drop(a) PROVE NameInv'
  BY <1>3, Begins_Name
<1>4. CASE UNCHANGED applicationVars
  BY <1>4, Calm_Name DEF applicationVars, rows
<1> QED
  BY <1>1, <1>2, <1>3, <1>4 DEF ApplicationNext

\* A change of name that is pending (requestNameChange) can be approved: with one tab,
\* and while the administrators decide one at a time, the name that approveNameChange
\* compares is still the instructor's.
THEOREM NameRequestStaysApprovable ==
  ASSUME OneWindow
  PROVE  ApplicationSpec /\ []OneDecides => []NameRequestCanBeApproved
<1>1. ReviewInv => ApplicationTypeOK
  BY DEF ReviewInv
<1>2. OneDecides /\ ApplicationTypeOK /\ NameInv /\ [ApplicationNext]_applicationVars => NameInv'
  BY NameInv_Next
<1>3. NameInv => NameRequestCanBeApproved
  BY DEF NameInv
<1> QED
  BY <1>1, <1>2, <1>3, Init_Name, ReviewInvAlways, PTL DEF ApplicationSpec

-----------------------------------------------------------------------------
(* The four services side by side. *)

\* A behaviour of the instance is a behaviour of every service, so that what is proved
\* of a service holds in it.
THEOREM ServicesAreEach ==
  ServicesSpec => SessionSpec /\ SeatSpec /\ CourseSpec /\ ApplicationSpec
<1> DEFINE every == <<service, sessionVars, seatVars, courseVars, applicationVars>>
<1>1. ServicesInit => SessionInit /\ SeatInit /\ CourseInit /\ ApplicationInit
  BY DEF ServicesInit
<1>2. [ServicesNext]_every => /\ [SessionNext]_sessionVars /\ [SeatNext]_seatVars
                              /\ [CourseNext]_courseVars
                              /\ [ApplicationNext]_applicationVars
  BY DEF ServicesNext, ApplicationStep
<1> QED
  BY <1>1, <1>2, PTL DEF ServicesSpec, SessionSpec, SeatSpec, CourseSpec, ApplicationSpec

\* The rows of sessions, seats, courses and applications, and their requests in flight,
\* have their types.
THEOREM ServicesTypeCorrect == ServicesSpec => []ServicesTypeOK
<1>1. SessionInv => SessionTypeOK
  BY DEF SessionInv
<1>2. CourseInv => CourseTypeOK
  BY DEF CourseInv
<1> QED
  BY <1>1, <1>2, ServicesAreEach, SessionInvAlways, SeatsTypeCorrect, CourseInvAlways,
     ApplicationsTypeCorrect, PTL DEF ServicesTypeOK

\* In "applications" one administrator decides, so that a change of name stays approvable.
THEOREM NamesAreAlwaysApprovable ==
  ASSUME OneWindow
  PROVE  ServicesSpec => []NamesStayApprovable
<1> DEFINE every == <<service, sessionVars, seatVars, courseVars, applicationVars>>
           Chosen == service = "applications"
           Others == Chosen => \A a \in Admins : a # a1 => flight[a] = NoFlight
<1>1. ServicesInit => Others
  BY DEF ServicesInit, ApplicationInit, Callers
<1>2. [ServicesNext]_every => (Chosen' <=> Chosen)
  BY DEF ServicesNext
<1>3. Others /\ [ServicesNext]_every => Others'
  BY DEF ServicesNext, ApplicationStep, applicationVars
<1>4. Others /\ Chosen => OneDecides
  BY DEF OneDecides, Deciding, NoFlight
<1>5. (Chosen => NameRequestCanBeApproved) => NamesStayApprovable
  BY DEF NamesStayApprovable
<1> QED
  BY <1>1, <1>2, <1>3, <1>4, <1>5, ServicesAreEach, NameRequestStaysApprovable, PTL
     DEF ServicesSpec
=============================================================================
