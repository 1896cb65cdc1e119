----------------------------- MODULE MCServices ----------------------------
(* One instance for TLC of four services that share no row: each behaviour is *)
(* of one of them, so the run explores the state spaces side by side.         *)
EXTENDS Sessions, Seats, Courses, Applications, TLC

CONSTANTS t1, t2, b1, h1, h2, boss, u1, u2, inv, rem, cl1, cl2, e1,
          w1, a1, a2, n1, n2, text1, field1, field2

\* One platform actor (inv) invites and restores; the tabs are interchangeable.
MCBrowserOf == [t \in Tabs |-> b1]

ServicesSymmetry == Permutations(Tabs)

VARIABLE service

ServicesInit ==
  /\ service \in {"sessions", "seats", "courses", "applications", "reviews"}
  /\ SessionInit /\ SeatInit /\ CourseInit /\ ApplicationInit
  /\ service # "seats" => pool.kind = "org" /\ pool.cap = 1

\* "applications" is with one administrator and one application; "reviews" is with two of
\* each, and nothing to decide about expertise.
ApplicationStep ==
  /\ ApplicationNext
  /\ service = "applications" =>
       /\ \A a \in Admins : a # a1 => flight'[a] = NoFlight
       /\ \A m \in ApplicationIds : m > 1 => application'[m].status = "none"
  /\ service = "reviews" =>
       UNCHANGED expertiseRequest /\ \A a \in Callers : flight'[a].expertise = AnyField

\* A learner or a buyer holds on to the course, not both.
ServicesNext ==
  \/ /\ service = "sessions" /\ SessionNext
     /\ UNCHANGED <<service, seatVars, courseVars, applicationVars>>
  \/ /\ service = "seats" /\ SeatNext
     /\ UNCHANGED <<service, sessionVars, courseVars, applicationVars>>
  \/ /\ service = "courses" /\ CourseNext /\ ~ (learning' /\ ordered')
     /\ UNCHANGED <<service, sessionVars, seatVars, applicationVars>>
  \/ /\ service \in {"applications", "reviews"} /\ ApplicationStep
     /\ UNCHANGED <<service, sessionVars, seatVars, courseVars>>

ServicesSpec ==
  ServicesInit
    /\ [][ServicesNext]_<<service, sessionVars, seatVars, courseVars, applicationVars>>

\* The rows of the four services, and the requests in flight, have their types.
ServicesTypeOK == SessionTypeOK /\ SeatTypeOK /\ CourseTypeOK /\ ApplicationTypeOK

\* With one administrator, a pending change of name starts from the name as it still is
\* (requestNameChange), so that approveNameChange does not refuse it.
NamesStayApprovable == service = "applications" => NameRequestCanBeApproved
=============================================================================
