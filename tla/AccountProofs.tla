---------------------------- MODULE AccountProofs ---------------------------
(***************************************************************************)
(* Sessions and Seats proved for every number of tabs, browsers, tokens,   *)
(* submissions of a reset link, invitations, members and requests.         *)
(***************************************************************************)
EXTENDS Sessions, Seats, FiniteSetTheorems, TLAPS

-----------------------------------------------------------------------------
(* Sessions. *)

\* Only a row that a rotation created has a parent.
Orphans(tokens) ==
  \A k \in TokenIds : tokens[k].status \in {"none", "deleted"} => tokens[k].parent = 0

\* The submission that has claimed the link is the only one to get that far.
LinkSound ==
  /\ \A h \in Resetters : resetter[h].at # "start" => resetLink = "used"
  /\ \A h, g \in Resetters :
       resetter[h].at # "start" /\ resetter[g].at # "start" => h = g
  /\ \A h \in Resetters : resetter[h].at = "claimed" => passwordSet = 0
  /\ resetLink = "unused" => passwordSet = 0
  /\ passwordSet <= 1

SessionInv == SessionTypeOK /\ Orphans(token) /\ LinkSound

LEMMA SessionInit_Inv == SessionInit => SessionInv
<1> SUFFICES ASSUME SessionInit PROVE SessionInv
  OBVIOUS
<1>1. SessionTypeOK
  BY SessionsAssumption DEF SessionInit, SessionTypeOK, NoToken, TokenRow, NoRequest, RequestState,
     ResetState
<1>2. Orphans(token)
  BY DEF SessionInit, Orphans, NoToken
<1>3. LinkSound
  BY DEF SessionInit, LinkSound
<1> QED
  BY <1>1, <1>2, <1>3 DEF SessionInv

\* Revoking and deleting rows keeps their types and gives none a parent.
LEMMA RevokedRows ==
  ASSUME SessionInv, NEW R \in SUBSET Rows
  PROVE  /\ Revoked(R) \in [TokenIds -> TokenRow] /\ Orphans(Revoked(R))
         /\ Deleted(R) \in [TokenIds -> TokenRow] /\ Orphans(Deleted(R))
<1>1. token \in [TokenIds -> TokenRow] /\ Orphans(token) /\ R \subseteq TokenIds
  BY DEF SessionInv, SessionTypeOK, Rows
<1>2. Revoked(R) \in [TokenIds -> TokenRow]
  BY <1>1 DEF Revoked, TokenRow
<1>3. Deleted(R) \in [TokenIds -> TokenRow]
  BY <1>1 DEF Deleted, TokenRow, Gone, NoToken
<1>4. Orphans(Revoked(R))
  BY <1>1 DEF Revoked, Orphans, TokenRow, Rows
<1>5. Orphans(Deleted(R))
  BY <1>1 DEF Deleted, Orphans, TokenRow, Gone, NoToken
<1> QED
  BY <1>2, <1>3, <1>4, <1>5

\* What a tab does keeps the invariant: it leaves the link alone.
LEMMA TabStep_Inv ==
  ASSUME SessionInv, NEW t \in Tabs, TabStep(t)
  PROVE  SessionInv'
<1> USE SessionsAssumption DEF resetVars
<1>t. /\ token \in [TokenIds -> TokenRow] /\ Orphans(token)
      /\ cookie \in [Browsers -> TokenIds \cup {0}]
      /\ request \in [Tabs -> RequestState]
      /\ BrowserOf[t] \in Browsers
      /\ LinkSound
  BY DEF SessionInv, SessionTypeOK
<1>r. /\ request[t].tok \in TokenIds \cup {0} /\ request[t].seen \subseteq TokenIds
  BY <1>t DEF RequestState
<1> SUFFICES /\ token' \in [TokenIds -> TokenRow] /\ Orphans(token')
             /\ cookie' \in [Browsers -> TokenIds \cup {0}]
             /\ request' \in [Tabs -> RequestState]
             /\ UNCHANGED resetVars
  BY DEF SessionInv, SessionTypeOK, LinkSound, Orphans
<1>1. CASE ListSessions(t)
  <2>1. Oldest(Cardinality(Live) - MaxActive + 1) \subseteq TokenIds
    BY DEF Oldest, Live
  <2> QED
    BY <1>1, <1>t, <2>1 DEF ListSessions, Go, RequestState
<1>2. CASE Evict(t)
  BY <1>2, <1>t, <1>r, RevokedRows DEF Evict, Go, Done, NoRequest, RequestState
<1>3. CASE CreateToken(t)
  BY <1>3, <1>t DEF CreateToken, Go, RequestState, Unused, TokenRow, Orphans
<1>4. CASE BeginRefresh(t)
  BY <1>4, <1>t DEF BeginRefresh, Go, RequestState
<1>5. CASE Rotate(t)
  <2>1. CASE request[t].tok \in Rows
    <3>1. PICK new \in Unused :
            /\ token' = [Revoked({request[t].tok}) EXCEPT
                           ![new] = [status |-> "live", parent |-> request[t].tok]]
            /\ Go(t, "reply", new, {})
      BY <1>5, <2>1 DEF Rotate
    <3>2. /\ Revoked({request[t].tok}) \in [TokenIds -> TokenRow]
          /\ Orphans(Revoked({request[t].tok}))
      BY <2>1, RevokedRows
    <3> QED
      BY <1>5, <1>t, <1>r, <3>1, <3>2 DEF Rotate, Go, RequestState, Unused, TokenRow, Orphans
  <2>2. CASE request[t].tok \notin Rows
    BY <1>5, <1>t, <2>2 DEF Rotate, Done, NoRequest, RequestState
  <2> QED
    BY <2>1, <2>2
<1>6. CASE EndAll(t)
  <2>1. Live \in SUBSET Rows
    BY DEF Live, Rows
  <2> QED
    BY <1>6, <1>t, <2>1, RevokedRows DEF EndAll, Done, NoRequest, RequestState
<1>7. CASE Logout(t)
  BY <1>7, <1>t, RevokedRows DEF Logout
<1>8. CASE ForceChange(t)
  BY <1>8, <1>t DEF ForceChange, Go, RequestState, Rows
<1>9. CASE ClearSessions(t)
  BY <1>9, <1>t, RevokedRows DEF ClearSessions, Go, RequestState
<1>10. CASE Reply(t)
  BY <1>10, <1>t, <1>r DEF Reply, Done, NoRequest, RequestState
<1>11. CASE FailRequest(t)
  BY <1>11, <1>t DEF FailRequest, Done, NoRequest, RequestState
<1> QED
  BY <1>1, <1>2, <1>3, <1>4, <1>5, <1>6, <1>7, <1>8, <1>9, <1>10, <1>11 DEF TabStep

\* What a submission of the link does keeps the invariant.
LEMMA ResetStep_Inv ==
  ASSUME SessionInv, NEW h \in Resetters, ResetStep(h)
  PROVE  SessionInv'
<1>t. /\ SessionTypeOK /\ Orphans(token) /\ LinkSound
      /\ resetter \in [Resetters -> ResetState] /\ passwordSet \in Nat
  BY DEF SessionInv, SessionTypeOK
<1>1. CASE ClaimLink(h)
  BY <1>1, <1>t DEF ClaimLink, ResetGoes, ResetState, SessionInv, SessionTypeOK, Orphans, LinkSound
<1>2. CASE UpdatePassword(h)
  BY <1>2, <1>t DEF UpdatePassword, ResetGoes, ResetState, SessionInv, SessionTypeOK, Orphans,
     LinkSound
<1>3. CASE BeginDelete(h)
  BY <1>3, <1>t DEF BeginDelete, ResetGoes, ResetState, SessionInv, SessionTypeOK, Orphans,
     LinkSound, Rows
<1>4. CASE EndDelete(h)
  <2>1. /\ Deleted(resetter[h].seen \cap Rows) \in [TokenIds -> TokenRow]
        /\ Orphans(Deleted(resetter[h].seen \cap Rows))
    BY RevokedRows
  <2> QED
    BY <1>4, <1>t, <2>1 DEF EndDelete, ResetGoes, ResetState, SessionInv, SessionTypeOK, Orphans,
       LinkSound
<1> QED
  BY <1>1, <1>2, <1>3, <1>4 DEF ResetStep

\* Time keeps the invariant.
LEMMA Time_Inv ==
  ASSUME SessionInv, NEW k \in TokenIds, GracePasses(k) \/ Expire(k) \/ PruneToken(k)
  PROVE  SessionInv'
<1>t. SessionTypeOK /\ Orphans(token) /\ LinkSound /\ token \in [TokenIds -> TokenRow]
  BY DEF SessionInv, SessionTypeOK
<1>1. CASE GracePasses(k) \/ Expire(k)
  BY <1>1, <1>t DEF GracePasses, Expire, resetVars, SessionInv, SessionTypeOK, TokenRow, Orphans,
     LinkSound
<1>2. CASE PruneToken(k)
  <2>1. {k} \in SUBSET Rows
    BY <1>2 DEF PruneToken, Rows
  <2>2. Deleted({k}) \in [TokenIds -> TokenRow] /\ Orphans(Deleted({k}))
    BY <2>1, RevokedRows
  <2> QED
    BY <1>2, <1>t, <2>2 DEF PruneToken, resetVars, SessionInv, SessionTypeOK, Orphans, LinkSound
<1> QED
  BY <1>1, <1>2

LEMMA SessionNext_Inv == SessionInv /\ [SessionNext]_sessionVars => SessionInv'
<1> SUFFICES ASSUME SessionInv, [SessionNext]_sessionVars PROVE SessionInv'
  OBVIOUS
<1>1. CASE UNCHANGED sessionVars
  BY <1>1 DEF sessionVars, SessionInv, SessionTypeOK, Orphans, LinkSound
<1> QED
  BY <1>1, TabStep_Inv, ResetStep_Inv, Time_Inv DEF SessionNext

\* The invariant of Sessions holds in every behaviour.
THEOREM SessionInvAlways == SessionSpec => []SessionInv
  BY SessionInit_Inv, SessionNext_Inv, PTL DEF SessionSpec

\* However many submissions of a reset link are in flight, the link sets the
\* password once (resetPassword, consumePasswordResetToken).
THEOREM LinkSetsPasswordOnlyOnce == SessionSpec => []LinkSetsPasswordOnce
<1>1. SessionInv => LinkSetsPasswordOnce
  BY DEF SessionInv, LinkSound, LinkSetsPasswordOnce
<1> QED
  BY <1>1, SessionInvAlways, PTL

\* What DeletedHasNoSuccessor says of one step.
SuccessorsOfRows ==
  \A k \in TokenIds :
    token[k].status = "none" /\ token'[k].parent # 0
      => token[token'[k].parent].status # "deleted"

\* Only a rotation gives a row a parent, and the parent is a row it has just revoked.
LEMMA Step_SuccessorsOfRows ==
  ASSUME SessionInv, [SessionNext]_sessionVars
  PROVE  SuccessorsOfRows
<1>t. token \in [TokenIds -> TokenRow] /\ Orphans(token)
  BY DEF SessionInv, SessionTypeOK
<1> SUFFICES ASSUME NEW k \in TokenIds, token[k].status = "none", token'[k].parent # 0
             PROVE  token[token'[k].parent].status # "deleted"
  BY DEF SuccessorsOfRows
<1>0. token[k].parent = 0
  BY <1>t DEF Orphans
<1>d. ASSUME NEW R \in SUBSET TokenIds, token' = Revoked(R) \/ token' = Deleted(R) PROVE FALSE
  BY <1>0, <1>t, <1>d DEF Revoked, Deleted, Gone, NoToken, TokenRow
<1>u. ASSUME UNCHANGED token PROVE FALSE
  BY <1>0, <1>u
<1>1. ASSUME NEW t \in Tabs, TabStep(t) PROVE token[token'[k].parent].status # "deleted"
  <2>1. CASE ListSessions(t) \/ BeginRefresh(t) \/ ForceChange(t) \/ Reply(t) \/ FailRequest(t)
    BY <2>1, <1>u DEF ListSessions, BeginRefresh, ForceChange, Reply, FailRequest
  <2>2. CASE Evict(t) \/ EndAll(t) \/ Logout(t) \/ ClearSessions(t)
    BY <2>2, <1>d DEF Evict, EndAll, Logout, ClearSessions, Rows, Live
  <2>3. CASE CreateToken(t)
    BY <2>3, <1>0, <1>t DEF CreateToken, TokenRow
  <2>4. CASE Rotate(t)
    <3>1. CASE request[t].tok \notin Rows
      BY <2>4, <3>1, <1>u DEF Rotate
    <3>2. CASE request[t].tok \in Rows
      <4>1. PICK new \in Unused :
              token' = [Revoked({request[t].tok}) EXCEPT
                          ![new] = [status |-> "live", parent |-> request[t].tok]]
        BY <2>4, <3>2 DEF Rotate
      <4>2. k = new
        BY <4>1, <1>0, <1>t DEF Revoked, TokenRow
      <4>3. token'[k].parent = request[t].tok
        BY <4>1, <4>2 DEF Revoked
      <4> QED
        BY <4>3, <3>2 DEF Rows
    <3> QED
      BY <3>1, <3>2
  <2> QED
    BY <1>1, <2>1, <2>2, <2>3, <2>4 DEF TabStep
<1>2. ASSUME NEW h \in Resetters, ResetStep(h) PROVE FALSE
  BY <1>2, <1>d, <1>u
     DEF ResetStep, ClaimLink, UpdatePassword, BeginDelete, EndDelete, Rows
<1>3. ASSUME NEW l \in TokenIds, GracePasses(l) \/ Expire(l) \/ PruneToken(l) PROVE FALSE
  <2>1. CASE PruneToken(l)
    BY <2>1, <1>d DEF PruneToken
  <2>2. CASE GracePasses(l) \/ Expire(l)
    BY <2>2, <1>0, <1>t DEF GracePasses, Expire, TokenRow
  <2> QED
    BY <1>3, <2>1, <2>2
<1>4. CASE UNCHANGED sessionVars
  BY <1>4, <1>u DEF sessionVars
<1> QED
  BY <1>1, <1>2, <1>3, <1>4 DEF SessionNext

\* A session that was logged out, reset away or pruned is never brought back by a
\* refresh that had read it before (rotateRefreshToken).
THEOREM DeletedNeverHasSuccessor == SessionSpec => DeletedHasNoSuccessor
<1>1. SessionInv /\ [SessionNext]_sessionVars => [SuccessorsOfRows]_sessionVars
  BY Step_SuccessorsOfRows
<1> QED
  BY <1>1, SessionInvAlways, PTL DEF SessionSpec, DeletedHasNoSuccessor, SuccessorsOfRows

-----------------------------------------------------------------------------
(* Seats. *)

LEMMA SeatInit_Type == SeatInit => SeatTypeOK
<1> SUFFICES ASSUME SeatInit PROVE SeatTypeOK
  OBVIOUS
<1>1. PICK kind \in {"org", "partner"}, cap \in Caps :
        /\ pool = [kind |-> kind, cap |-> cap, used |-> 0]
        /\ member = [m \in MemberIds |->
                       IF m = 1 /\ kind = "org" THEN [status |-> "active", user |-> Boss,
                                                      role |-> "ADMIN"]
                                                ELSE NoMember]
  BY DEF SeatInit
<1>2. pool \in [kind : {"org", "partner"}, cap : Caps, used : Int]
  BY <1>1
<1>3. member \in [MemberIds -> MemberRow]
  BY <1>1 DEF NoMember, MemberRow, Roles
<1>4. invite \in [InviteIds -> InviteRow] /\ work \in [Actors -> WorkState]
  BY SeatsAssumption DEF SeatInit, NoInvite, InviteRow, NoWork, WorkState, Roles
<1> QED
  BY <1>2, <1>3, <1>4 DEF SeatTypeOK

\* Whoever joins gets a row of the right type.
LEMMA MemberUpserted_Type ==
  ASSUME SeatTypeOK, NEW u \in People \cup {Boss}, NEW role \in Roles, MemberUpserted(u, role)
  PROVE  member' \in [MemberIds -> MemberRow]
<1>1. CASE ActiveRowsOf(u) # {}
  BY <1>1 DEF MemberUpserted, SeatTypeOK, MemberRow
<1>2. CASE ActiveRowsOf(u) = {}
  BY <1>2 DEF MemberUpserted, SeatTypeOK, MemberRow
<1> QED
  BY <1>1, <1>2

\* Starting a request, going on with it and ending it keep its record well-typed.
LEMMA Work_Type ==
  ASSUME SeatTypeOK, NEW a \in Actors
  PROVE  /\ work[a] \in WorkState
         /\ work[a].user \in People \cup {Boss} /\ work[a].role \in Roles
         /\ work[a].ref \in 0..(MaxInvites + MaxMembers)
         /\ End(a) => work' \in [Actors -> WorkState]
         /\ \A doing \in {"invite", "claim", "seated", "decline", "remove", "decrement",
                          "restore"},
               ref \in 0..(MaxInvites + MaxMembers), u \in People \cup {Boss}, role \in Roles :
              Do(a, doing, ref, u, role) => work' \in [Actors -> WorkState]
<1>1. work \in [Actors -> WorkState] /\ work[a] \in WorkState
  BY DEF SeatTypeOK
<1>2. NoWork \in WorkState
  BY SeatsAssumption DEF NoWork, WorkState, Roles
<1>3. End(a) => work' \in [Actors -> WorkState]
  BY <1>1, <1>2 DEF End
<1>4. ASSUME NEW doing \in {"invite", "claim", "seated", "decline", "remove", "decrement",
                           "restore"},
             NEW ref \in 0..(MaxInvites + MaxMembers), NEW u \in People \cup {Boss},
             NEW role \in Roles, Do(a, doing, ref, u, role)
      PROVE  work' \in [Actors -> WorkState]
  <2>1. [doing |-> doing, ref |-> ref, user |-> u, role |-> role] \in WorkState
    BY <1>4 DEF WorkState
  <2> QED
    BY <1>1, <1>4, <2>1 DEF Do
<1>5. /\ work[a].user \in People \cup {Boss} /\ work[a].role \in Roles
      /\ work[a].ref \in 0..(MaxInvites + MaxMembers)
  BY <1>1 DEF WorkState
<1> QED
  BY <1>1, <1>3, <1>4, <1>5

\* Rows and invitations name people and roles, and their numbers fit a request's.
LEMMA Row_Type ==
  ASSUME SeatTypeOK
  PROVE  /\ \A i \in InviteIds : /\ invite[i].user \in People \cup {Boss}
                                 /\ invite[i].role \in Roles
                                 /\ i \in 0..(MaxInvites + MaxMembers)
         /\ \A m \in MemberIds : /\ member[m].user \in People \cup {Boss}
                                 /\ member[m].role \in Roles
                                 /\ m \in 0..(MaxInvites + MaxMembers)
  BY SeatsAssumption DEF SeatTypeOK, InviteRow, MemberRow, InviteIds, MemberIds

LEMMA Claimant_Type ==
  ASSUME SeatTypeOK, NEW a \in Claimants, ClaimantStep(a)
  PROVE  SeatTypeOK'
<1>a. a \in Actors
  BY DEF Actors
<1>1. ASSUME NEW i \in InviteIds, BeginClaim(a, i) \/ BeginDecline(a, i) PROVE SeatTypeOK'
  <2>1. work' \in [Actors -> WorkState]
    BY <1>1, <1>a, Work_Type, Row_Type DEF BeginClaim, BeginDecline, Roles
  <2> QED
    BY <1>1, <2>1 DEF BeginClaim, BeginDecline, SeatTypeOK
<1>2. CASE CheckSeats(a)
  <2>1. work' \in [Actors -> WorkState]
    BY <1>2, <1>a, Work_Type DEF CheckSeats
  <2> QED
    BY <1>2, <2>1 DEF CheckSeats, SeatTypeOK
<1>3. CASE CommitClaim(a)
  <2>1. member' \in [MemberIds -> MemberRow]
    BY <1>3, <1>a, Work_Type, MemberUpserted_Type DEF CommitClaim
  <2>2. pool' \in [kind : {"org", "partner"}, cap : Caps, used : Int]
    BY <1>3 DEF CommitClaim, SeatTypeOK
  <2>3. invite' \in [InviteIds -> InviteRow]
    BY <1>3 DEF CommitClaim, SeatTypeOK, InviteRow
  <2>4. work' \in [Actors -> WorkState]
    BY <1>3, <1>a, Work_Type DEF CommitClaim
  <2> QED
    BY <2>1, <2>2, <2>3, <2>4 DEF SeatTypeOK
<1>4. CASE CommitDecline(a)
  <2>1. work' \in [Actors -> WorkState]
    BY <1>4, <1>a, Work_Type DEF CommitDecline
  <2>2. invite' \in [InviteIds -> InviteRow]
    BY <1>4 DEF CommitDecline, SeatTypeOK, InviteRow
  <2> QED
    BY <1>4, <2>1, <2>2 DEF CommitDecline, SeatTypeOK
<1> QED
  BY <1>1, <1>2, <1>3, <1>4 DEF ClaimantStep

LEMMA Inviter_Type ==
  ASSUME SeatTypeOK, NEW a \in Inviters, InviterStep(a)
  PROVE  SeatTypeOK'
<1>a. a \in Actors
  BY DEF Actors
<1>1. ASSUME NEW u \in People, NEW role \in Roles, BeginInvite(a, u, role) PROVE SeatTypeOK'
  <2>1. 0 \in 0..(MaxInvites + MaxMembers)
    BY SeatsAssumption
  <2>2. work' \in [Actors -> WorkState]
    BY <1>1, <1>a, <2>1, Work_Type DEF BeginInvite
  <2> QED
    BY <1>1, <2>2 DEF BeginInvite, SeatTypeOK
<1>2. CASE CommitInvite(a)
  <2>1. work' \in [Actors -> WorkState]
    BY <1>2, <1>a, Work_Type DEF CommitInvite
  <2>2. [status |-> "pending", user |-> work[a].user, role |-> work[a].role] \in InviteRow
    BY <1>a, Work_Type DEF InviteRow
  <2>3. invite' \in [InviteIds -> InviteRow]
    BY <1>2, <2>2 DEF CommitInvite, SeatTypeOK
  <2> QED
    BY <1>2, <2>1, <2>3 DEF CommitInvite, SeatTypeOK
<1> QED
  BY <1>1, <1>2 DEF InviterStep

LEMMA Remover_Type ==
  ASSUME SeatTypeOK, NEW a \in Removers, RemoverStep(a)
  PROVE  SeatTypeOK'
<1>a. a \in Actors
  BY DEF Actors
<1>1. ASSUME NEW m \in MemberIds, BeginRemove(a, m) PROVE SeatTypeOK'
  <2>1. work' \in [Actors -> WorkState]
    BY <1>1, <1>a, Work_Type, Row_Type DEF BeginRemove
  <2> QED
    BY <1>1, <2>1 DEF BeginRemove, SeatTypeOK
<1>2. CASE RemoveFromOrg(a) \/ RemoveFromCourse(a)
  <2>1. work' \in [Actors -> WorkState]
    BY <1>2, <1>a, Work_Type DEF RemoveFromOrg, RemoveFromCourse, Roles
  <2>2. member' \in [MemberIds -> MemberRow]
    BY <1>2 DEF RemoveFromOrg, RemoveFromCourse, SeatTypeOK, MemberRow
  <2> QED
    BY <1>2, <2>1, <2>2 DEF RemoveFromOrg, RemoveFromCourse, SeatTypeOK
<1>3. CASE ReturnSeat(a)
  <2>1. work' \in [Actors -> WorkState]
    BY <1>3, <1>a, Work_Type DEF ReturnSeat
  <2> QED
    BY <1>3, <2>1 DEF ReturnSeat, SeatTypeOK
<1> QED
  BY <1>1, <1>2, <1>3 DEF RemoverStep

LEMMA Restorer_Type ==
  ASSUME SeatTypeOK, NEW a \in Restorers, RestorerStep(a)
  PROVE  SeatTypeOK'
<1>a. a \in Actors
  BY DEF Actors
<1>1. ASSUME NEW m \in MemberIds, BeginRestore(a, m) PROVE SeatTypeOK'
  <2>1. work' \in [Actors -> WorkState]
    BY <1>1, <1>a, Work_Type, Row_Type DEF BeginRestore
  <2> QED
    BY <1>1, <2>1 DEF BeginRestore, SeatTypeOK
<1>2. CASE RestoreToOrg(a) \/ RestoreToCourse(a)
  <2>1. work' \in [Actors -> WorkState]
    BY <1>2, <1>a, Work_Type DEF RestoreToOrg, RestoreToCourse
  <2>2. member' \in [MemberIds -> MemberRow]
    BY <1>2 DEF RestoreToOrg, RestoreToCourse, SeatTypeOK, MemberRow
  <2>3. pool' \in [kind : {"org", "partner"}, cap : Caps, used : Int]
    BY <1>2 DEF RestoreToOrg, RestoreToCourse, SeatTypeOK
  <2> QED
    BY <1>2, <2>1, <2>2, <2>3 DEF RestoreToOrg, RestoreToCourse, SeatTypeOK
<1> QED
  BY <1>1, <1>2 DEF RestorerStep

LEMMA SeatNext_Type == SeatTypeOK /\ [SeatNext]_seatVars => SeatTypeOK'
<1> SUFFICES ASSUME SeatTypeOK, [SeatNext]_seatVars PROVE SeatTypeOK'
  OBVIOUS
<1>1. ASSUME NEW a \in Actors, GiveUp(a) PROVE SeatTypeOK'
  BY <1>1, Work_Type DEF GiveUp, SeatTypeOK
<1>2. ASSUME NEW i \in InviteIds, ExpireInvite(i) \/ RevokeInvite(i) PROVE SeatTypeOK'
  BY <1>2 DEF ExpireInvite, RevokeInvite, SeatTypeOK, InviteRow
<1>3. ASSUME NEW cap \in Caps, SetCap(cap) PROVE SeatTypeOK'
  BY <1>3 DEF SetCap, SeatTypeOK
<1>4. CASE UNCHANGED seatVars
  BY <1>4 DEF seatVars, SeatTypeOK
<1> QED
  BY <1>1, <1>2, <1>3, <1>4, Claimant_Type, Inviter_Type, Remover_Type, Restorer_Type DEF SeatNext

\* Type correctness of the roster.
THEOREM SeatsTypeCorrect == SeatSpec => []SeatTypeOK
  BY SeatInit_Type, SeatNext_Type, PTL DEF SeatSpec

-----------------------------------------------------------------------------
(* Seats are counted, while one member is removed and one restored at a time. *)

OneOfAKind == (\A a, b \in Removers : a = b) /\ (\A a, b \in Restorers : a = b)

Counted == IF IsOrg THEN ActiveMembers ELSE RowsEver

\* A removal that is about to give back a seat that its member no longer takes.
Owes(a) ==
  /\ IsOrg /\ work[a].role = "MEMBER"
  /\ \/ work[a].doing = "decrement"
     \/ work[a].doing = "remove" /\ member[work[a].ref].role = "ADMIN"

Owed == IF \E a \in Actors : Owes(a) THEN 1 ELSE 0

MembersOnly ==
  ~ IsOrg => /\ \A i \in InviteIds : invite[i].role = "MEMBER"
             /\ \A m \in MemberIds : member[m].role = "MEMBER"
             /\ \A a \in Actors : work[a].role = "MEMBER"

OneRowEach ==
  \A m, n \in MemberIds :
    /\ member[m].status = "active" /\ member[n].status = "active"
    /\ member[m].user = member[n].user
    => m = n

\* The row of a removal stays active, and the one of a restoration removed as it was.
Held ==
  \A a \in Actors :
    /\ work[a].doing = "remove" =>
         a \in Removers /\ work[a].ref \in MemberIds /\ member[work[a].ref].status = "active"
    /\ work[a].doing = "decrement" => a \in Removers /\ IsOrg /\ work[a].role = "MEMBER"
    /\ work[a].doing = "restore" =>
         /\ a \in Restorers /\ work[a].ref \in MemberIds
         /\ member[work[a].ref].status = "removed"
         /\ member[work[a].ref].user = work[a].user /\ member[work[a].ref].role = work[a].role

Balanced == Cardinality(Counted) + Owed <= pool.used

SeatInv == SeatTypeOK /\ MembersOnly /\ OneRowEach /\ Held /\ Balanced

LEMMA Counted_Finite ==
  /\ IsFiniteSet(Counted) /\ Cardinality(Counted) \in Nat
  /\ IsFiniteSet(Counted') /\ Cardinality(Counted') \in Nat
  /\ Owed \in {0, 1} /\ Owed' \in {0, 1}
<1>1. IsFiniteSet(MemberIds)
  BY SeatsAssumption, FS_Interval DEF MemberIds
<1>2. Counted \in SUBSET MemberIds /\ Counted' \in SUBSET MemberIds
  BY DEF Counted, ActiveMembers, RowsEver
<1> QED
  BY <1>1, <1>2, FS_Subset, FS_CardinalityType DEF Owed

LEMMA Init_Seats == SeatInit => SeatInv
<1> SUFFICES ASSUME SeatInit PROVE SeatInv
  OBVIOUS
<1>1. PICK kind \in {"org", "partner"}, cap \in Caps :
        /\ pool = [kind |-> kind, cap |-> cap, used |-> 0]
        /\ member = [m \in MemberIds |->
                       IF m = 1 /\ kind = "org" THEN [status |-> "active", user |-> Boss,
                                                      role |-> "ADMIN"]
                                                ELSE NoMember]
  BY DEF SeatInit
<1>2. invite = [i \in InviteIds |-> NoInvite] /\ work = [a \in Actors |-> NoWork]
  BY DEF SeatInit
<1>3. MembersOnly /\ OneRowEach /\ Held
  BY <1>1, <1>2 DEF MembersOnly, OneRowEach, Held, IsOrg, NoInvite, NoMember, NoWork
<1>4. Counted = {} /\ Owed = 0
  BY <1>1, <1>2 DEF Counted, ActiveMembers, RowsEver, Owed, Owes, IsOrg, NoMember, NoWork
<1>5. Balanced
  BY <1>1, <1>4, FS_EmptySet DEF Balanced
<1> QED
  BY <1>3, <1>5, SeatInit_Type DEF SeatInv

\* A partner invites members only.
LEMMA MembersOnly_Next ==
  ASSUME SeatInv, [SeatNext]_seatVars
  PROVE  MembersOnly' /\ pool'.kind = pool.kind
<1>0. SeatTypeOK /\ MembersOnly
  BY DEF SeatInv
<1>1. CASE \/ \E a \in Claimants : ClaimantStep(a)
           \/ \E a \in Inviters : InviterStep(a)
  <2>1. PICK a \in Actors :
          \/ \E i \in InviteIds : BeginClaim(a, i) \/ BeginDecline(a, i)
          \/ CheckSeats(a) \/ CommitClaim(a) \/ CommitDecline(a)
          \/ \E u \in People, role \in Roles : BeginInvite(a, u, role)
          \/ CommitInvite(a)
    BY <1>1 DEF ClaimantStep, InviterStep, Actors
  <2>2. pool'.kind = pool.kind
    BY <1>0, <2>1 DEF SeatTypeOK, BeginClaim, BeginDecline, CheckSeats, CommitClaim, CommitDecline,
       BeginInvite, CommitInvite
  <2>3. ASSUME ~ IsOrg, CommitClaim(a) PROVE MembersOnly'
    <3>1. \A m \in MemberIds : member'[m].role = "MEMBER"
      <4>1. CASE ActiveRowsOf(work[a].user) # {}
        BY <1>0, <2>3, <4>1 DEF CommitClaim, MemberUpserted, MembersOnly, SeatTypeOK, MemberRow
      <4>2. CASE ActiveRowsOf(work[a].user) = {}
        BY <1>0, <2>3, <4>2 DEF CommitClaim, MemberUpserted, MembersOnly, SeatTypeOK, MemberRow
      <4> QED
        BY <4>1, <4>2
    <3> QED
      BY <1>0, <2>3, <3>1
         DEF CommitClaim, MembersOnly, SeatTypeOK, End, NoWork, InviteRow
  <2>4. ASSUME ~ IsOrg, ~ CommitClaim(a) PROVE MembersOnly'
    BY <1>0, <2>1, <2>4
       DEF MembersOnly, SeatTypeOK, BeginClaim, BeginDecline, CheckSeats, CommitDecline,
           BeginInvite, CommitInvite, Do, End, NoWork, InviteRow, Roles, IsOrg
  <2> QED
    BY <2>2, <2>3, <2>4 DEF MembersOnly, IsOrg
<1>2. CASE \/ \E a \in Removers : RemoverStep(a)
           \/ \E a \in Restorers : RestorerStep(a)
  <2>1. PICK a \in Actors :
          \/ \E m \in MemberIds : BeginRemove(a, m) \/ BeginRestore(a, m)
          \/ RemoveFromOrg(a) \/ ReturnSeat(a) \/ RemoveFromCourse(a)
          \/ RestoreToOrg(a) \/ RestoreToCourse(a)
    BY <1>2 DEF RemoverStep, RestorerStep, Actors
  <2>2. pool'.kind = pool.kind
    BY <1>0, <2>1 DEF SeatTypeOK, BeginRemove, BeginRestore, RemoveFromOrg, ReturnSeat,
       RemoveFromCourse, RestoreToOrg, RestoreToCourse
  <2>3. ASSUME ~ IsOrg PROVE MembersOnly'
    BY <1>0, <2>1, <2>3
       DEF MembersOnly, SeatTypeOK, BeginRemove, BeginRestore, RemoveFromOrg, ReturnSeat,
           RemoveFromCourse, RestoreToOrg, RestoreToCourse, Do, End, NoWork, MemberRow
  <2> QED
    BY <2>2, <2>3 DEF MembersOnly, IsOrg
<1>3. CASE \/ \E a \in Actors : GiveUp(a)
           \/ \E i \in InviteIds : ExpireInvite(i) \/ RevokeInvite(i)
           \/ \E cap \in Caps : SetCap(cap)
           \/ UNCHANGED seatVars
  BY <1>0, <1>3
     DEF MembersOnly, SeatTypeOK, IsOrg, GiveUp, ExpireInvite, RevokeInvite, SetCap, seatVars, End,
         NoWork, InviteRow
<1> QED
  BY <1>1, <1>2, <1>3 DEF SeatNext

\* Requests that start, or end without writing a row of a member, owe nothing.
LEMMA Calm_Seats ==
  ASSUME SeatInv, SeatTypeOK', MembersOnly', UNCHANGED member,
         pool'.kind = pool.kind, pool'.used = pool.used,
         \A b \in Actors :
           \/ work'[b] = work[b]
           \/ work'[b].doing \notin {"remove", "decrement", "restore"}
           \/ /\ work'[b].doing = "remove" /\ b \in Removers /\ work'[b].ref \in MemberIds
              /\ member[work'[b].ref].status = "active"
              /\ member[work'[b].ref].role = work'[b].role
           \/ /\ work'[b].doing = "restore" /\ b \in Restorers /\ work'[b].ref \in MemberIds
              /\ member[work'[b].ref].status = "removed"
              /\ member[work'[b].ref].user = work'[b].user
              /\ member[work'[b].ref].role = work'[b].role
  PROVE  SeatInv'
<1>1. OneRowEach' /\ Held'
  BY DEF SeatInv, OneRowEach, Held, IsOrg
<1>2. Counted' = Counted
  BY DEF Counted, ActiveMembers, RowsEver, IsOrg
<1>3. \A b \in Actors : Owes(b)' => Owes(b)
  BY DEF Owes, IsOrg
<1>4. Owed' <= Owed
  BY <1>3 DEF Owed
<1>5. pool.used \in Int /\ Balanced
  BY DEF SeatInv, SeatTypeOK
<1>6. Balanced'
  BY <1>2, <1>4, <1>5, Counted_Finite DEF Balanced
<1> QED
  BY <1>1, <1>6 DEF SeatInv

\* The seats that are counted grow by one row at most when somebody is let in.
LEMMA Joined_Seats ==
  ASSUME SeatInv, NEW m, Counted' \subseteq Counted \cup {m}
  PROVE  Cardinality(Counted') <= Cardinality(Counted) + 1
<1>1. /\ IsFiniteSet(Counted \cup {m})
      /\ Cardinality(Counted \cup {m}) <= Cardinality(Counted) + 1
  BY Counted_Finite, FS_AddElement
<1>2. Cardinality(Counted') <= Cardinality(Counted \cup {m})
  BY <1>1, FS_Subset
<1>3. Cardinality(Counted \cup {m}) \in Nat
  BY <1>1, FS_CardinalityType
<1> QED
  BY <1>1, <1>2, <1>3, Counted_Finite

\* What a claim makes of the rows.
LEMMA Upserted_Rows ==
  ASSUME SeatInv, NEW u \in People \cup {Boss}, NEW role \in Roles, MemberUpserted(u, role)
  PROVE  \E m \in MemberIds :
           /\ \A n \in MemberIds : n # m => member'[n] = member[n]
           /\ member'[m].status = "active" /\ member'[m].user = u /\ member'[m].role = role
           /\ \/ member[m].status = "active" /\ member[m].user = u
              \/ member[m].status = "none" /\ ActiveRowsOf(u) = {}
<1>1. CASE ActiveRowsOf(u) # {}
  <2>1. PICK m \in MemberIds : m \in ActiveRowsOf(u)
    BY <1>1 DEF ActiveRowsOf
  <2>2. \A n \in ActiveRowsOf(u) : n = m
    BY <2>1 DEF SeatInv, OneRowEach, ActiveRowsOf
  <2> QED
    BY <1>1, <2>1, <2>2 DEF MemberUpserted, ActiveRowsOf, SeatInv, SeatTypeOK, MemberRow
<1>2. CASE ActiveRowsOf(u) = {}
  BY <1>2 DEF MemberUpserted, SeatInv, SeatTypeOK
<1> QED
  BY <1>1, <1>2

LEMMA Claim_Seats ==
  ASSUME SeatInv, SeatTypeOK', MembersOnly', NEW a \in Actors, CommitClaim(a)
  PROVE  SeatInv'
<1>0. /\ SeatTypeOK /\ pool.used \in Int /\ pool'.kind = pool.kind
      /\ work'[a] = NoWork /\ \A b \in Actors : b # a => work'[b] = work[b]
      /\ work[a].user \in People \cup {Boss} /\ work[a].role \in Roles
  BY Work_Type DEF SeatInv, SeatTypeOK, CommitClaim, End
<1>1. PICK m \in MemberIds :
        /\ \A n \in MemberIds : n # m => member'[n] = member[n]
        /\ member'[m].status = "active" /\ member'[m].user = work[a].user
        /\ member'[m].role = work[a].role
        /\ \/ member[m].status = "active" /\ member[m].user = work[a].user
           \/ member[m].status = "none" /\ ActiveRowsOf(work[a].user) = {}
  BY <1>0, Upserted_Rows DEF CommitClaim
<1>2. OneRowEach'
  BY <1>1 DEF SeatInv, OneRowEach, ActiveRowsOf
<1>3. Held'
  <2>1. ASSUME NEW b \in Actors, work'[b].doing \in {"remove", "decrement", "restore"}
        PROVE  work'[b] = work[b] /\ b # a
    BY <1>0, <2>1 DEF NoWork
  <2> QED
    BY <1>0, <1>1, <2>1 DEF SeatInv, Held, IsOrg
<1>4. CASE IsOrg /\ work[a].role = "ADMIN"
  <2>1. pool'.used = pool.used
    BY <1>0, <1>4 DEF CommitClaim, SeatTypeOK
  <2>2. Counted' = Counted \ {m}
    BY <1>0, <1>1, <1>4 DEF Counted, ActiveMembers, IsOrg
  <2>3. CASE m \in Counted
    <3>1. Cardinality(Counted') = Cardinality(Counted) - 1
      BY <2>2, <2>3, Counted_Finite, FS_RemoveElement
    <3>2. Balanced'
      BY <1>0, <2>1, <3>1, Counted_Finite DEF Balanced, SeatInv, Owed
    <3> QED
      BY <1>2, <1>3, <3>2 DEF SeatInv
  <2>4. CASE m \notin Counted
    <3>1. Counted' = Counted
      BY <2>2, <2>4
    <3>2. ASSUME NEW b \in Actors, Owes(b)' PROVE Owes(b)
      <4>1. b # a /\ work'[b] = work[b]
        BY <1>0, <3>2 DEF Owes, NoWork
      <4>2. CASE work[b].doing = "remove" /\ work[b].ref = m
        <5>1. member[m].status = "active" /\ member[m].role \in Roles
          BY <4>2, Row_Type, <1>0 DEF SeatInv, Held
        <5>2. member[m].role = "ADMIN"
          BY <1>4, <2>4, <5>1 DEF Counted, ActiveMembers, Roles
        <5> QED
          BY <3>2, <4>1, <4>2, <5>2, <1>0 DEF Owes, IsOrg
      <4>3. CASE ~ (work[b].doing = "remove" /\ work[b].ref = m)
        BY <1>0, <1>1, <3>2, <4>1, <4>3 DEF Owes, IsOrg, SeatInv, Held
      <4> QED
        BY <4>2, <4>3
    <3>3. Owed' <= Owed
      BY <3>2 DEF Owed
    <3>4. Balanced'
      BY <1>0, <2>1, <3>1, <3>3, Counted_Finite DEF Balanced, SeatInv
    <3> QED
      BY <1>2, <1>3, <3>4 DEF SeatInv
  <2> QED
    BY <2>3, <2>4
<1>5. CASE ~ (IsOrg /\ work[a].role = "ADMIN")
  <2>1. work[a].role = "MEMBER"
    BY <1>0, <1>5 DEF SeatInv, MembersOnly, Roles
  <2>2. pool'.used = pool.used + 1
    BY <1>0, <2>1 DEF CommitClaim, SeatTypeOK
  <2>3. Counted' \subseteq Counted \cup {m}
    BY <1>0, <1>1 DEF Counted, ActiveMembers, RowsEver, IsOrg
  <2>4. ASSUME NEW b \in Actors, Owes(b)' PROVE Owes(b)
    <3>1. b # a /\ work'[b] = work[b]
      BY <1>0, <2>4 DEF Owes, NoWork
    <3> QED
      BY <1>0, <1>1, <2>1, <2>4, <3>1 DEF Owes, IsOrg, SeatInv, Held
  <2>5. Owed' <= Owed
    BY <2>4 DEF Owed
  <2>6. Balanced'
    BY <1>0, <2>2, <2>3, <2>5, Joined_Seats, Counted_Finite DEF Balanced, SeatInv
  <2> QED
    BY <1>2, <1>3, <2>6 DEF SeatInv
<1> QED
  BY <1>4, <1>5

LEMMA Remove_Seats ==
  ASSUME OneOfAKind, SeatInv, SeatTypeOK', MembersOnly', NEW a \in Removers,
         RemoveFromOrg(a) \/ RemoveFromCourse(a)
  PROVE  SeatInv'
<1> DEFINE r == work[a].ref
<1>0. /\ a \in Actors /\ SeatTypeOK /\ pool' = pool /\ pool.used \in Int
      /\ work[a].doing = "remove" /\ r \in MemberIds /\ member[r].status = "active"
      /\ work[a].role \in Roles /\ member[r].role \in Roles
      /\ \A b \in Actors : b # a => work'[b] = work[b]
      /\ work'[a].doing \in {"idle", "decrement"}
  BY Work_Type, Row_Type
     DEF SeatInv, Held, SeatTypeOK, Actors, RemoveFromOrg, RemoveFromCourse, Do, End, NoWork
<1>1. /\ \A n \in MemberIds : n # r => member'[n] = member[n]
      /\ member'[r].status = "removed"
      /\ member'[r].user = member[r].user /\ member'[r].role = member[r].role
  BY <1>0 DEF RemoveFromOrg, RemoveFromCourse, SeatTypeOK, MemberRow
<1>2. OneRowEach'
  BY <1>1 DEF SeatInv, OneRowEach
<1>3. /\ \A b \in Actors : work[b].doing \in {"remove", "decrement"} => b = a
      /\ \A b \in Actors : work'[b].doing \in {"remove", "decrement"} => b = a
  BY <1>0 DEF OneOfAKind, SeatInv, Held
<1>4. Held'
  <2>1. work'[a].doing = "decrement" => IsOrg' /\ work'[a].role = "MEMBER"
    BY <1>0 DEF RemoveFromOrg, RemoveFromCourse, Do, End, NoWork, SeatTypeOK, IsOrg
  <2> QED
    BY <1>0, <1>1, <1>3, <2>1 DEF SeatInv, Held
<1>5. CASE IsOrg /\ work[a].role = "MEMBER" /\ member[r].role = "MEMBER"
  <2>1. Counted' = Counted \ {r} /\ r \in Counted
    BY <1>0, <1>1, <1>5 DEF Counted, ActiveMembers, IsOrg
  <2>2. Cardinality(Counted') = Cardinality(Counted) - 1
    BY <2>1, Counted_Finite, FS_RemoveElement
  <2>3. Owed = 0
    BY <1>0, <1>3, <1>5 DEF Owed, Owes, Roles
  <2>4. Balanced'
    BY <1>0, <2>2, <2>3, Counted_Finite DEF Balanced, SeatInv
  <2> QED
    BY <1>2, <1>4, <2>4 DEF SeatInv
<1>6. CASE IsOrg /\ work[a].role = "MEMBER" /\ member[r].role = "ADMIN"
  <2>1. Counted' = Counted
    BY <1>0, <1>1, <1>6 DEF Counted, ActiveMembers, IsOrg
  <2>2. Owed = 1
    BY <1>0, <1>6 DEF Owed, Owes
  <2>3. Balanced'
    BY <1>0, <2>1, <2>2, Counted_Finite DEF Balanced, SeatInv
  <2> QED
    BY <1>2, <1>4, <2>3 DEF SeatInv
<1>7. CASE ~ IsOrg \/ work[a].role = "ADMIN"
  <2>1. Counted' \subseteq Counted
    BY <1>0, <1>1 DEF Counted, ActiveMembers, RowsEver, IsOrg
  <2>2. Cardinality(Counted') <= Cardinality(Counted)
    BY <2>1, Counted_Finite, FS_Subset
  <2>3. work'[a].doing = "idle"
    BY <1>0, <1>7 DEF RemoveFromOrg, RemoveFromCourse, End, NoWork, SeatTypeOK
  <2>4. Owed' = 0
    BY <1>3, <2>3 DEF Owed, Owes
  <2>5. Balanced'
    BY <1>0, <2>2, <2>4, Counted_Finite DEF Balanced, SeatInv
  <2> QED
    BY <1>2, <1>4, <2>5 DEF SeatInv
<1> QED
  BY <1>0, <1>5, <1>6, <1>7 DEF Roles

LEMMA Return_Seats ==
  ASSUME OneOfAKind, SeatInv, SeatTypeOK', MembersOnly', NEW a \in Removers, ReturnSeat(a)
  PROVE  SeatInv'
<1>0. /\ a \in Actors /\ SeatTypeOK /\ pool'.kind = pool.kind /\ pool.used \in Int
      /\ pool'.used = pool.used - 1 /\ member' = member
      /\ work[a].doing = "decrement" /\ work[a].role = "MEMBER" /\ IsOrg
      /\ \A b \in Actors : b # a => work'[b] = work[b]
      /\ work'[a] = NoWork
  BY DEF SeatInv, Held, SeatTypeOK, Actors, ReturnSeat, End
<1>1. OneRowEach'
  BY <1>0 DEF SeatInv, OneRowEach
<1>2. Held'
  BY <1>0 DEF SeatInv, Held, NoWork, IsOrg
<1>3. Counted' = Counted
  BY <1>0 DEF Counted, ActiveMembers, RowsEver, IsOrg
<1>4. Owed = 1
  BY <1>0 DEF Owed, Owes
<1>5. \A b \in Actors : ~ Owes(b)'
  <2> SUFFICES ASSUME NEW b \in Actors, Owes(b)' PROVE FALSE
    OBVIOUS
  <2>1. b # a /\ work'[b] = work[b]
    BY <1>0 DEF Owes, NoWork
  <2>2. b \in Removers
    BY <2>1 DEF Owes, SeatInv, Held
  <2> QED
    BY <2>1, <2>2 DEF OneOfAKind
<1>6. Owed' = 0
  BY <1>5 DEF Owed
<1>7. Balanced'
  BY <1>0, <1>3, <1>4, <1>6, Counted_Finite DEF Balanced, SeatInv
<1> QED
  BY <1>1, <1>2, <1>7 DEF SeatInv

LEMMA Restore_Seats ==
  ASSUME OneOfAKind, SeatInv, SeatTypeOK', MembersOnly', NEW a \in Restorers,
         RestoreToOrg(a) \/ RestoreToCourse(a)
  PROVE  SeatInv'
<1> DEFINE r == work[a].ref
<1>0. /\ a \in Actors /\ SeatTypeOK /\ pool'.kind = pool.kind /\ pool.used \in Int
      /\ work[a].doing = "restore" /\ r \in MemberIds /\ member[r].status = "removed"
      /\ member[r].user = work[a].user /\ member[r].role = work[a].role
      /\ work[a].role \in Roles
      /\ ActiveRowsOf(work[a].user) \subseteq {r}
      /\ \A b \in Actors : b # a => work'[b] = work[b]
      /\ work'[a] = NoWork
      /\ pool'.used = IF IsOrg /\ work[a].role = "MEMBER" THEN pool.used + 1 ELSE pool.used
  BY Work_Type
     DEF SeatInv, Held, SeatTypeOK, Actors, RestoreToOrg, RestoreToCourse, MayRestore, End, IsOrg
<1>1. /\ \A n \in MemberIds : n # r => member'[n] = member[n]
      /\ member'[r].status = "active"
      /\ member'[r].user = member[r].user /\ member'[r].role = member[r].role
  BY <1>0 DEF RestoreToOrg, RestoreToCourse, SeatTypeOK, MemberRow
<1>2. OneRowEach'
  BY <1>0, <1>1 DEF SeatInv, OneRowEach, ActiveRowsOf
<1>3. \A b \in Actors : work'[b].doing = "restore" => FALSE
  BY <1>0 DEF OneOfAKind, SeatInv, Held, NoWork
<1>4. Held'
  BY <1>0, <1>1, <1>3 DEF SeatInv, Held, NoWork, IsOrg
<1>5. ASSUME NEW b \in Actors, Owes(b)' PROVE Owes(b)
  <2>1. b # a /\ work'[b] = work[b]
    BY <1>0, <1>5 DEF Owes, NoWork
  <2>2. work[b].doing = "remove" => work[b].ref # r /\ work[b].ref \in MemberIds
    BY <1>0 DEF SeatInv, Held
  <2> QED
    BY <1>0, <1>1, <1>5, <2>1, <2>2 DEF Owes, IsOrg
<1>6. Owed' <= Owed
  BY <1>5 DEF Owed
<1>7. CASE IsOrg /\ work[a].role = "MEMBER"
  <2>1. Counted' \subseteq Counted \cup {r}
    BY <1>0, <1>1 DEF Counted, ActiveMembers, RowsEver, IsOrg
  <2>2. Balanced'
    BY <1>0, <1>6, <1>7, <2>1, Joined_Seats, Counted_Finite DEF Balanced, SeatInv
  <2> QED
    BY <1>2, <1>4, <2>2 DEF SeatInv
<1>8. CASE ~ (IsOrg /\ work[a].role = "MEMBER")
  <2>1. Counted' = Counted
    BY <1>0, <1>1, <1>8 DEF Counted, ActiveMembers, RowsEver, IsOrg, Roles
  <2>2. Balanced'
    BY <1>0, <1>6, <1>8, <2>1, Counted_Finite DEF Balanced, SeatInv
  <2> QED
    BY <1>2, <1>4, <2>2 DEF SeatInv
<1> QED
  BY <1>7, <1>8

LEMMA SeatInv_Next ==
  ASSUME OneOfAKind, SeatInv, [SeatNext]_seatVars
  PROVE  SeatInv'
<1>0. SeatTypeOK /\ SeatTypeOK' /\ MembersOnly' /\ pool'.kind = pool.kind
  BY SeatNext_Type, MembersOnly_Next DEF SeatInv
<1>1. ASSUME NEW a \in Claimants, ClaimantStep(a) PROVE SeatInv'
  <2>0. a \in Actors
    BY DEF Actors
  <2>1. CASE CommitClaim(a)
    BY <1>0, <2>0, <2>1, Claim_Seats
  <2>2. CASE \/ \E i \in InviteIds : BeginClaim(a, i) \/ BeginDecline(a, i)
             \/ CheckSeats(a) \/ CommitDecline(a)
    <3>1. /\ UNCHANGED <<pool, member>>
          /\ \A b \in Actors : b # a => work'[b] = work[b]
          /\ work'[a].doing \in {"idle", "claim", "decline", "seated"}
      BY <1>0, <2>0, <2>2
         DEF BeginClaim, BeginDecline, CheckSeats, CommitDecline, Do, End, NoWork, SeatTypeOK
    <3> QED
      BY <1>0, <3>1, Calm_Seats
  <2> QED
    BY <1>1, <2>1, <2>2 DEF ClaimantStep
<1>2. ASSUME NEW a \in Inviters, InviterStep(a) PROVE SeatInv'
  <2>1. /\ a \in Actors /\ UNCHANGED <<pool, member>>
        /\ \A b \in Actors : b # a => work'[b] = work[b]
        /\ work'[a].doing \in {"idle", "invite"}
    BY <1>0, <1>2
       DEF InviterStep, BeginInvite, CommitInvite, Do, End, NoWork, SeatTypeOK, Actors
  <2> QED
    BY <1>0, <2>1, Calm_Seats
<1>3. ASSUME NEW a \in Removers, RemoverStep(a) PROVE SeatInv'
  <2>1. ASSUME NEW m \in MemberIds, BeginRemove(a, m) PROVE SeatInv'
    <3>1. /\ a \in Actors /\ UNCHANGED <<pool, member>>
          /\ \A b \in Actors : b # a => work'[b] = work[b]
          /\ work'[a].doing = "remove" /\ work'[a].ref = m
          /\ work'[a].role = member[m].role /\ member[m].status = "active"
      BY <1>0, <2>1 DEF BeginRemove, Do, SeatTypeOK, Actors
    <3> QED
      BY <1>0, <3>1, Calm_Seats
  <2>2. CASE RemoveFromOrg(a) \/ RemoveFromCourse(a)
    BY <1>0, <2>2, Remove_Seats
  <2>3. CASE ReturnSeat(a)
    BY <1>0, <2>3, Return_Seats
  <2> QED
    BY <1>3, <2>1, <2>2, <2>3 DEF RemoverStep
<1>4. ASSUME NEW a \in Restorers, RestorerStep(a) PROVE SeatInv'
  <2>1. ASSUME NEW m \in MemberIds, BeginRestore(a, m) PROVE SeatInv'
    <3>1. /\ a \in Actors /\ UNCHANGED <<pool, member>>
          /\ \A b \in Actors : b # a => work'[b] = work[b]
          /\ work'[a].doing = "restore" /\ work'[a].ref = m
          /\ work'[a].user = member[m].user /\ work'[a].role = member[m].role
          /\ member[m].status = "removed"
      BY <1>0, <2>1 DEF BeginRestore, Do, SeatTypeOK, Actors
    <3> QED
      BY <1>0, <3>1, Calm_Seats
  <2>2. CASE RestoreToOrg(a) \/ RestoreToCourse(a)
    BY <1>0, <2>2, Restore_Seats
  <2> QED
    BY <1>4, <2>1, <2>2 DEF RestorerStep
<1>5. ASSUME NEW a \in Actors, GiveUp(a) PROVE SeatInv'
  <2>1. /\ UNCHANGED <<pool, member>>
        /\ \A b \in Actors : b # a => work'[b] = work[b]
        /\ work'[a].doing = "idle"
    BY <1>0, <1>5 DEF GiveUp, End, NoWork, SeatTypeOK
  <2> QED
    BY <1>0, <2>1, Calm_Seats
<1>6. CASE \/ \E i \in InviteIds : ExpireInvite(i) \/ RevokeInvite(i)
           \/ \E cap \in Caps : SetCap(cap)
           \/ UNCHANGED seatVars
  <2>1. UNCHANGED <<member, work>> /\ pool'.used = pool.used
    BY <1>0, <1>6 DEF ExpireInvite, RevokeInvite, SetCap, seatVars, SeatTypeOK
  <2> QED
    BY <1>0, <2>1, Calm_Seats
<1> QED
  BY <1>1, <1>2, <1>3, <1>4, <1>5, <1>6 DEF SeatNext

\* With one removal and one restoration at a time, the seats cover the members and
\* the seat that a removal has still to give back.
THEOREM SeatInvAlways ==
  ASSUME OneOfAKind
  PROVE  SeatSpec => []SeatInv
<1>1. SeatInv /\ [SeatNext]_seatVars => SeatInv'
  BY SeatInv_Next
<1> QED
  BY <1>1, Init_Seats, PTL DEF SeatSpec

\* Then claimInvitation, removeMember and adminRestoreMember leave no member without
\* a seat that usedSeats counts.
THEOREM SeatsAreAlwaysCounted ==
  ASSUME OneOfAKind
  PROVE  SeatSpec => []SeatsAreCounted
<1>1. SeatInv => SeatsAreCounted
  BY Counted_Finite DEF SeatInv, SeatTypeOK, Balanced, SeatsAreCounted, Counted
<1> QED
  BY <1>1, SeatInvAlways, PTL
=============================================================================
