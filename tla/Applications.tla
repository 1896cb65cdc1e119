---------------------------- MODULE Applications ----------------------------
(***************************************************************************)
(* One person on the way to being an instructor, and then changing what    *)
(* the platform shows of them (InstructorService): applications, reviewed  *)
(* changes of name and of expertise, edits of the profile.  The person's   *)
(* tabs and the administrators interleave at their awaits: the reads that  *)
(* a request starts with are one step, its transaction is another.  An     *)
(* administrator may decide any application, as the endpoints allow; the   *)
(* person is a student at first.                                           *)
(***************************************************************************)
EXTENDS Integers

CONSTANTS
  Names, Texts, Fields,   \* names; title, biography and links; areas of expertise
  MaxApplications,        \* bound: how many applications may ever be created
  MaxNameRequests,        \* bound: how many changes of name may ever be asked for
  MaxExpertiseRequests,   \* bound: how many changes of expertise may ever be asked for
  Windows, Admins         \* the person's tabs and the administrators

ApplicationIds == 1..MaxApplications
NameRequestIds == 1..MaxNameRequests
ExpertiseRequestIds == 1..MaxExpertiseRequests
Callers == Windows \cup Admins

ASSUME ApplicationsAssumption ==
  /\ Names # {} /\ Texts # {} /\ Fields # {}
  /\ MaxApplications \in Nat /\ MaxNameRequests \in Nat /\ MaxExpertiseRequests \in Nat
  /\ Windows \cap Admins = {}

VARIABLES
  account,            \* the User row and, once it is approved, its InstructorProfile
  application,        \* ApplicationIds -> InstructorApplication row
  nameRequest,        \* NameRequestIds -> InstructorNameChangeRequest row
  expertiseRequest,   \* ExpertiseRequestIds -> InstructorExpertiseChangeRequest row
  flight              \* Callers -> the request in flight

rows == <<account, application, nameRequest, expertiseRequest>>
applicationVars == <<rows, flight>>

AnyName == CHOOSE n \in Names : TRUE
AnyText == CHOOSE t \in Texts : TRUE
AnyField == CHOOSE e \in Fields : TRUE

ReviewStatus == {"none", "PENDING", "APPROVED", "REJECTED"}

Account == [name : Names, approved : BOOLEAN, text : Texts, expertise : Fields]

\* "change" is not in the row: the request that put the application under review
\* again, 0 for one that its author sent.
ApplicationRow == [status : ReviewStatus, name : Names, text : Texts, expertise : Fields,
                   change : 0..MaxNameRequests]
NameRow == [status : ReviewStatus, from : Names, to : Names]
ExpertiseRow == [status : ReviewStatus, from : Fields, to : Fields]
FlightState == [doing : {"idle", "apply", "name", "expertise", "edit", "amend", "rename",
                         "approve", "reject", "approveName", "rejectName",
                         "approveExpertise", "rejectExpertise"},
                ref : 0..(MaxApplications + MaxNameRequests + MaxExpertiseRequests),
                was : Names, name : Names, text : Texts, had : Fields, expertise : Fields]

NoFlight == [doing |-> "idle", ref |-> 0, was |-> AnyName, name |-> AnyName, text |-> AnyText,
             had |-> AnyField, expertise |-> AnyField]

ApplicationTypeOK ==
  /\ account \in Account
  /\ application \in [ApplicationIds -> ApplicationRow]
  /\ nameRequest \in [NameRequestIds -> NameRow]
  /\ expertiseRequest \in [ExpertiseRequestIds -> ExpertiseRow]
  /\ flight \in [Callers -> FlightState]

ApplicationInit ==
  /\ account = [name |-> AnyName, approved |-> FALSE, text |-> AnyText, expertise |-> AnyField]
  /\ application = [m \in ApplicationIds |-> [status |-> "none", name |-> AnyName,
                      text |-> AnyText, expertise |-> AnyField, change |-> 0]]
  /\ nameRequest = [r \in NameRequestIds |-> [status |-> "none", from |-> AnyName, to |-> AnyName]]
  /\ expertiseRequest = [r \in ExpertiseRequestIds |->
                           [status |-> "none", from |-> AnyField, to |-> AnyField]]
  /\ flight = [a \in Callers |-> NoFlight]

-----------------------------------------------------------------------------
\* findLatestApplicationByUser: rows are created in the order of their numbers.
IsLatest(m) ==
  /\ application[m].status # "none"
  /\ \A n \in ApplicationIds : n > m => application[n].status = "none"

Pending(requests) == {r \in DOMAIN requests : requests[r].status = "PENDING"}

IsNext(table, k) == table[k].status = "none" /\ \A j \in 1..(k - 1) : table[j].status # "none"

Begin(a, request) ==
  /\ flight[a] = NoFlight
  /\ flight' = [flight EXCEPT ![a] = request]
  /\ UNCHANGED rows

Finish(a) == flight' = [flight EXCEPT ![a] = NoFlight]

\* The request is refused after it was read, or the process dies.
Drop(a) ==
  /\ flight[a] # NoFlight
  /\ Finish(a)
  /\ UNCHANGED rows

-----------------------------------------------------------------------------
(* The person. *)

\* apply, and createSignupApplication at once after the account is created.
BeginApply(a, text, expertise) ==
  /\ \A m \in ApplicationIds : application[m].status # "PENDING"
  /\ Begin(a, [NoFlight EXCEPT !.doing = "apply", !.name = account.name, !.text = text,
                               !.expertise = expertise])

CommitApply(a) ==
  /\ flight[a].doing = "apply"
  /\ \E m \in ApplicationIds :
       /\ IsNext(application, m)
       /\ application' = [application EXCEPT ![m] =
            [status |-> "PENDING", name |-> flight[a].name, text |-> flight[a].text,
             expertise |-> flight[a].expertise, change |-> 0]]
  /\ Finish(a)
  /\ UNCHANGED <<account, nameRequest, expertiseRequest>>

\* Mutant: a second change of name may be asked for before the first is decided.
BeginNameChangeAgain(a, name) ==
  /\ account.approved /\ name # account.name
  /\ \E m \in ApplicationIds :
       /\ IsLatest(m)
       /\ Begin(a, [NoFlight EXCEPT !.doing = "name", !.ref = m, !.was = account.name,
                                    !.name = name])

BeginNameChange(a, name) ==
  /\ account.approved /\ name # account.name
  /\ Pending(nameRequest) = {}
  /\ \E m \in ApplicationIds :
       /\ IsLatest(m) /\ application[m].status = "APPROVED"
       /\ Begin(a, [NoFlight EXCEPT !.doing = "name", !.ref = m, !.was = account.name,
                                    !.name = name])

\* The approved application goes under review again, with the name that is asked for.
CommitNameChange(a) ==
  /\ flight[a].doing = "name"
  /\ \E r \in NameRequestIds :
       /\ IsNext(nameRequest, r)
       /\ nameRequest' = [nameRequest EXCEPT ![r] =
            [status |-> "PENDING", from |-> flight[a].was, to |-> flight[a].name]]
       /\ application' = [application EXCEPT
            ![flight[a].ref] = [@ EXCEPT !.status = "PENDING", !.name = flight[a].name,
                                         !.change = r]]
  /\ Finish(a)
  /\ UNCHANGED <<account, expertiseRequest>>

AskExpertise(from, to) ==
  \E r \in ExpertiseRequestIds :
    /\ IsNext(expertiseRequest, r)
    /\ expertiseRequest' = [expertiseRequest EXCEPT ![r] =
         [status |-> "PENDING", from |-> from, to |-> to]]

\* requestExpertiseChange
BeginExpertiseChange(a, expertise) ==
  /\ account.approved /\ expertise # account.expertise
  /\ Pending(expertiseRequest) = {}
  /\ Begin(a, [NoFlight EXCEPT !.doing = "expertise", !.had = account.expertise,
                               !.expertise = expertise])

CommitExpertiseChange(a) ==
  /\ flight[a].doing = "expertise"
  /\ AskExpertise(flight[a].had, flight[a].expertise)
  /\ Finish(a)
  /\ UNCHANGED <<account, application, nameRequest>>

\* updateProfile, of an instructor or of somebody whose application has no profile yet.
BeginProfileEdit(a, text, expertise) ==
  \/ /\ account.approved
     /\ Begin(a, [NoFlight EXCEPT !.doing = "edit", !.text = text, !.had = account.expertise,
                                  !.expertise = expertise])
  \/ \E m \in ApplicationIds :
       /\ ~ account.approved /\ IsLatest(m)
       /\ Begin(a, [NoFlight EXCEPT !.doing = "amend", !.ref = m, !.text = text,
                                    !.expertise = expertise])

\* The transaction rolls back when it finds a pending request of expertise.
CommitProfileEdit(a) ==
  /\ flight[a].doing = "edit"
  /\ IF flight[a].expertise = flight[a].had THEN UNCHANGED expertiseRequest
     ELSE Pending(expertiseRequest) = {} /\ AskExpertise(flight[a].had, flight[a].expertise)
  /\ account' = [account EXCEPT !.text = flight[a].text]
  /\ application' = [m \in ApplicationIds |->
       IF IsLatest(m) /\ application[m].status = "APPROVED"
       THEN [application[m] EXCEPT !.text = flight[a].text] ELSE application[m]]
  /\ Finish(a)
  /\ UNCHANGED nameRequest

CommitAmend(a) ==
  /\ flight[a].doing = "amend"
  /\ application' = [application EXCEPT
       ![flight[a].ref] = [@ EXCEPT !.text = flight[a].text, !.expertise = flight[a].expertise]]
  /\ Finish(a)
  /\ UNCHANGED <<account, nameRequest, expertiseRequest>>

\* AuthService.updateProfile: a student's name is theirs to change.
BeginRename(a, name) ==
  /\ ~ account.approved
  /\ Begin(a, [NoFlight EXCEPT !.doing = "rename", !.name = name])

CommitRename(a) ==
  /\ flight[a].doing = "rename"
  /\ account' = [account EXCEPT !.name = flight[a].name]
  /\ Finish(a)
  /\ UNCHANGED <<application, nameRequest, expertiseRequest>>

-----------------------------------------------------------------------------
(* The administrators. *)

\* approveNameChange and rejectNameChange: only an approval compares the name.
BeginApproveName(a, r) ==
  /\ nameRequest[r].status = "PENDING" /\ nameRequest[r].from = account.name
  /\ Begin(a, [NoFlight EXCEPT !.doing = "approveName", !.ref = r])

BeginRejectName(a, r) ==
  /\ nameRequest[r].status = "PENDING"
  /\ Begin(a, [NoFlight EXCEPT !.doing = "rejectName", !.ref = r])

\* What the decision of a name change makes of the application: it must still be under
\* review, with the name that this request asked for.
Reviewed(r, name) ==
  application' = [m \in ApplicationIds |->
    IF /\ IsLatest(m)
       /\ application[m].status = "PENDING" /\ application[m].name = nameRequest[r].to
    THEN [application[m] EXCEPT !.status = "APPROVED", !.name = name] ELSE application[m]]

CommitApproveName(a) ==
  LET r == flight[a].ref
  IN /\ flight[a].doing = "approveName"
     /\ nameRequest' = [nameRequest EXCEPT ![r].status = "APPROVED"]
     /\ Reviewed(r, nameRequest[r].to)
     /\ account' = [account EXCEPT !.name = nameRequest[r].to]
     /\ Finish(a)
     /\ UNCHANGED expertiseRequest

\* Mutant: the application is left under review.
RejectNameOnly(a) ==
  /\ flight[a].doing = "rejectName"
  /\ nameRequest' = [nameRequest EXCEPT ![flight[a].ref].status = "REJECTED"]
  /\ Finish(a)
  /\ UNCHANGED <<account, application, expertiseRequest>>

CommitRejectName(a) ==
  LET r == flight[a].ref
  IN /\ flight[a].doing = "rejectName"
     /\ nameRequest' = [nameRequest EXCEPT ![r].status = "REJECTED"]
     /\ Reviewed(r, nameRequest[r].from)
     /\ Finish(a)
     /\ UNCHANGED <<account, expertiseRequest>>

\* The last request that is pending, if it is the one that this application shows.
IsChange(m, r) ==
  /\ application[m].status = "PENDING" /\ account.approved
  /\ r \in Pending(nameRequest) /\ \A q \in Pending(nameRequest) : q <= r
  /\ nameRequest[r].to = application[m].name

\* approve and reject: the review of a name, or of a whole application as it was read.
BeginApprove(a, m) ==
  /\ application[m].status # "none"
  /\ \/ \E r \in NameRequestIds : IsChange(m, r) /\ BeginApproveName(a, r)
     \/ /\ \A r \in NameRequestIds : ~ IsChange(m, r)
        /\ Begin(a, [NoFlight EXCEPT !.doing = "approve", !.ref = m, !.text = application[m].text,
                                     !.expertise = application[m].expertise])

BeginReject(a, m) ==
  /\ application[m].status # "none"
  /\ \/ \E r \in NameRequestIds : IsChange(m, r) /\ BeginRejectName(a, r)
     \/ /\ \A r \in NameRequestIds : ~ IsChange(m, r)
        /\ Begin(a, [NoFlight EXCEPT !.doing = "reject", !.ref = m])

\* The role, and the profile from the application as it was read.
CommitApprove(a) ==
  /\ flight[a].doing = "approve"
  /\ application' = [application EXCEPT ![flight[a].ref].status = "APPROVED"]
  /\ account' = [account EXCEPT !.approved = TRUE, !.text = flight[a].text,
                                !.expertise = flight[a].expertise]
  /\ Finish(a)
  /\ UNCHANGED <<nameRequest, expertiseRequest>>

CommitReject(a) ==
  /\ flight[a].doing = "reject"
  /\ application' = [application EXCEPT ![flight[a].ref].status = "REJECTED"]
  /\ Finish(a)
  /\ UNCHANGED <<account, nameRequest, expertiseRequest>>

\* approveExpertiseChange, rejectExpertiseChange: both compare the expertise.
BeginExpertiseReview(a, r, doing) ==
  /\ expertiseRequest[r].status = "PENDING"
  /\ account.approved /\ expertiseRequest[r].from = account.expertise
  /\ Begin(a, [NoFlight EXCEPT !.doing = doing, !.ref = r])

CommitApproveExpertise(a) ==
  LET to == expertiseRequest[flight[a].ref].to
  IN /\ flight[a].doing = "approveExpertise"
     /\ expertiseRequest' = [expertiseRequest EXCEPT ![flight[a].ref].status = "APPROVED"]
     /\ account' = [account EXCEPT !.expertise = to]
     /\ application' = [m \in ApplicationIds |->
          IF IsLatest(m) /\ application[m].status = "APPROVED"
          THEN [application[m] EXCEPT !.expertise = to] ELSE application[m]]
     /\ Finish(a)
     /\ UNCHANGED nameRequest

CommitRejectExpertise(a) ==
  /\ flight[a].doing = "rejectExpertise"
  /\ expertiseRequest' = [expertiseRequest EXCEPT ![flight[a].ref].status = "REJECTED"]
  /\ Finish(a)
  /\ UNCHANGED <<account, application, nameRequest>>

-----------------------------------------------------------------------------
ApplicantStep(a) ==
  \/ \E text \in Texts, e \in Fields : BeginApply(a, text, e) \/ BeginProfileEdit(a, text, e)
  \/ \E name \in Names : BeginNameChange(a, name) \/ BeginRename(a, name)
  \/ \E e \in Fields : BeginExpertiseChange(a, e)
  \/ CommitApply(a) \/ CommitNameChange(a) \/ CommitExpertiseChange(a)
  \/ CommitProfileEdit(a) \/ CommitAmend(a) \/ CommitRename(a)

AdminStep(a) ==
  \/ \E m \in ApplicationIds : BeginApprove(a, m) \/ BeginReject(a, m)
  \/ \E r \in NameRequestIds : BeginApproveName(a, r) \/ BeginRejectName(a, r)
  \/ \E r \in ExpertiseRequestIds, doing \in {"approveExpertise", "rejectExpertise"} :
       BeginExpertiseReview(a, r, doing)
  \/ CommitApproveName(a) \/ CommitRejectName(a) \/ CommitApprove(a) \/ CommitReject(a)
  \/ CommitApproveExpertise(a) \/ CommitRejectExpertise(a)

ApplicationNext ==
  \/ \E a \in Windows : ApplicantStep(a)
  \/ \E a \in Admins : AdminStep(a)
  \/ \E a \in Callers : Drop(a)

ApplicationSpec == ApplicationInit /\ [][ApplicationNext]_applicationVars

-----------------------------------------------------------------------------
(* Properties. *)

\* An application that a change of name has put under review does not stay there
\* when the change has been decided: its request is pending still and asks for the
\* name that the application shows.  With one tab, whatever the administrators do
\* at the same time.
ReviewHasItsRequest ==
  \A m \in ApplicationIds :
    LET r == application[m].change
    IN application[m].status = "PENDING" /\ r # 0
         => nameRequest[r].status = "PENDING" /\ nameRequest[r].to = application[m].name

\* A change of name that is pending can be approved: the name it starts from is still
\* the instructor's.  With one tab, while the administrators decide one at a time.
NameRequestCanBeApproved ==
  \A r \in Pending(nameRequest) : nameRequest[r].from = account.name
=============================================================================
