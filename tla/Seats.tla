------------------------------- MODULE Seats --------------------------------
(***************************************************************************)
(* A capped roster that people join by invitation, in its two forms: the   *)
(* members of an organization (OrganizationsService, "org") and the        *)
(* members that a delivery partner brings into one course                  *)
(* (DeliveryPartnerService, "partner").  The requests interleave at their  *)
(* awaits; a transaction is cut where it reads a row that it does not      *)
(* lock.  An organization is not suspended and a partner stays approved.   *)
(***************************************************************************)
EXTENDS Integers, FiniteSetsExt

CONSTANTS
  Boss, People,    \* the organization's first admin; the people to invite
  MaxInvites,      \* bound: how many invitations may ever be created
  MaxMembers,      \* bound: how many membership rows may ever be created
  MaxUsed,         \* bound: how far usedSeats may be counted up
  Caps,            \* seat counts that the platform sets; for a partner 0: no cap
  Inviters, Removers, Restorers, Claimants   \* requests of each kind in flight

InviteIds == 1..MaxInvites
MemberIds == 1..MaxMembers
Actors == Inviters \cup Removers \cup Restorers \cup Claimants

ASSUME SeatsAssumption ==
  /\ Boss \notin People
  /\ MaxInvites \in Nat /\ MaxMembers \in Nat \ {0} /\ MaxUsed \in Nat
  /\ Caps \subseteq Nat /\ Caps # {}

VARIABLES
  pool,       \* the Organization or DeliveryPartnerCourseAssignment row
  invite,     \* InviteIds -> invitation row
  member,     \* MemberIds -> membership row
  work        \* Actors -> the request in flight

seatVars == <<pool, invite, member, work>>

Roles == {"MEMBER", "ADMIN"}

InviteRow == [status : {"none", "pending", "claimed", "declined", "expired", "deleted"},
              user : People \cup {Boss}, role : Roles]
MemberRow == [status : {"none", "active", "removed"}, user : People \cup {Boss}, role : Roles]
WorkState == [doing : {"idle", "invite", "claim", "seated", "decline", "remove",
                       "decrement", "restore"},
              ref : 0..(MaxInvites + MaxMembers), user : People \cup {Boss}, role : Roles]

NoInvite == [status |-> "none", user |-> Boss, role |-> "MEMBER"]
NoMember == [status |-> "none", user |-> Boss, role |-> "MEMBER"]
NoWork == [doing |-> "idle", ref |-> 0, user |-> Boss, role |-> "MEMBER"]

SeatTypeOK ==
  /\ pool \in [kind : {"org", "partner"}, cap : Caps, used : Int]
  /\ invite \in [InviteIds -> InviteRow]
  /\ member \in [MemberIds -> MemberRow]
  /\ work \in [Actors -> WorkState]

\* createOrganizationWithAdmin provisions an admin, who takes no seat.
SeatInit ==
  /\ \E kind \in {"org", "partner"}, cap \in Caps :
       /\ pool = [kind |-> kind, cap |-> cap, used |-> 0]
       /\ member = [m \in MemberIds |->
                      IF m = 1 /\ kind = "org" THEN [status |-> "active", user |-> Boss,
                                                     role |-> "ADMIN"]
                                               ELSE NoMember]
  /\ invite = [i \in InviteIds |-> NoInvite]
  /\ work = [a \in Actors |-> NoWork]

-----------------------------------------------------------------------------
IsOrg == pool.kind = "org"

\* An organization's cap is a number of seats; a partner's may be "no cap".
Full == (IsOrg \/ pool.cap > 0) /\ pool.used >= pool.cap

ActiveRowsOf(u) == {m \in MemberIds : member[m].status = "active" /\ member[m].user = u}
PendingFor(u) == {i \in InviteIds : invite[i].status = "pending" /\ invite[i].user = u}
AdminRows == {m \in MemberIds : member[m].status = "active" /\ member[m].role = "ADMIN"}

Do(a, what, ref, u, role) ==
  work' = [work EXCEPT ![a] = [doing |-> what, ref |-> ref, user |-> u, role |-> role]]
End(a) == work' = [work EXCEPT ![a] = NoWork]

\* A transaction rolls back, a row is gone, or the process dies.
GiveUp(a) ==
  /\ work[a] # NoWork
  /\ End(a)
  /\ UNCHANGED <<pool, invite, member>>

-----------------------------------------------------------------------------
(* Invitations: invite and inviteMember; only an organization has admins. *)

BeginInvite(a, u, role) ==
  /\ work[a] = NoWork
  /\ ~ Full
  /\ role = "ADMIN" => IsOrg
  /\ ActiveRowsOf(u) = {} /\ PendingFor(u) = {}
  /\ Do(a, "invite", 0, u, role)
  /\ UNCHANGED <<pool, invite, member>>

CommitInvite(a) ==
  /\ work[a].doing = "invite"
  /\ \E i \in InviteIds :
       /\ invite[i].status = "none" /\ \A j \in 1..(i - 1) : invite[j].status # "none"
       /\ invite' = [invite EXCEPT ![i] = [status |-> "pending", user |-> work[a].user,
                                           role |-> work[a].role]]
  /\ End(a)
  /\ UNCHANGED <<pool, member>>

ExpireInvite(i) ==
  /\ invite[i].status = "pending"
  /\ invite' = [invite EXCEPT ![i].status = "expired"]
  /\ UNCHANGED <<pool, member, work>>

\* revokeInvitation deletes the row, whatever became of the invitation.
RevokeInvite(i) ==
  /\ invite[i].status \notin {"none", "deleted"}
  /\ invite' = [invite EXCEPT ![i].status = "deleted"]
  /\ UNCHANGED <<pool, member, work>>

BeginDecline(a, i) ==
  /\ work[a] = NoWork /\ invite[i].status = "pending"
  /\ Do(a, "decline", i, invite[i].user, "MEMBER")
  /\ UNCHANGED <<pool, invite, member>>

\* The update throws when the row is gone.  A claimed invitation stays claimed.
CommitDecline(a) ==
  /\ work[a].doing = "decline"
  /\ invite' = IF invite[work[a].ref].status \in {"claimed", "deleted"} THEN invite
               ELSE [invite EXCEPT ![work[a].ref].status = "declined"]
  /\ End(a)
  /\ UNCHANGED <<pool, member>>

-----------------------------------------------------------------------------
(* Claims: claimInvitation. *)

BeginClaim(a, i) ==
  /\ work[a] = NoWork /\ invite[i].status = "pending"
  /\ Do(a, "claim", i, invite[i].user, invite[i].role)
  /\ UNCHANGED <<pool, invite, member>>

\* The transaction reads the seats; nothing is locked.
CheckSeats(a) ==
  /\ work[a].doing = "claim"
  /\ IF Full THEN End(a) ELSE Do(a, "seated", work[a].ref, work[a].user, work[a].role)
  /\ UNCHANGED <<pool, invite, member>>

\* upsertOrgMember, upsertMember: the active row, or a new one.  The partial unique
\* index keeps a person from having two active rows.
MemberUpserted(u, role) ==
  IF ActiveRowsOf(u) # {}
  THEN member' = [m \in MemberIds |-> IF m \in ActiveRowsOf(u)
                    THEN [member[m] EXCEPT !.role = role] ELSE member[m]]
  ELSE \E m \in MemberIds :
         /\ member[m].status = "none" /\ \A n \in 1..(m - 1) : member[n].status # "none"
         /\ member' = [member EXCEPT ![m] = [status |-> "active", user |-> u, role |-> role]]

\* The rest of the transaction.  It takes a seat, but for an admin, and marks the
\* invitation by its token, which rolls everything back when the row is gone.
CommitClaim(a) ==
  /\ work[a].doing = "seated" /\ pool.used < MaxUsed
  /\ invite[work[a].ref].status # "deleted"
  /\ MemberUpserted(work[a].user, work[a].role)
  /\ pool' = [pool EXCEPT !.used = IF work[a].role = "MEMBER" THEN @ + 1 ELSE @]
  /\ invite' = [invite EXCEPT ![work[a].ref].status = "claimed"]
  /\ End(a)

-----------------------------------------------------------------------------
(* Removals: removeMember. *)

BeginRemove(a, m) ==
  /\ work[a] = NoWork /\ member[m].status = "active"
  /\ IsOrg /\ member[m].role = "ADMIN" => Cardinality(AdminRows) > 1
  /\ Do(a, "remove", m, member[m].user, member[m].role)
  /\ UNCHANGED <<pool, invite, member>>

\* OrganizationsService: the row first, the seat in a statement of its own.
RemoveFromOrg(a) ==
  /\ IsOrg /\ work[a].doing = "remove"
  /\ member' = [member EXCEPT ![work[a].ref].status = "removed"]
  /\ IF work[a].role = "MEMBER"
     THEN Do(a, "decrement", work[a].ref, work[a].user, "MEMBER")
     ELSE End(a)
  /\ UNCHANGED <<pool, invite>>

ReturnSeat(a) ==
  /\ work[a].doing = "decrement"
  /\ pool' = [pool EXCEPT !.used = @ - 1]
  /\ End(a)
  /\ UNCHANGED <<invite, member>>

\* DeliveryPartnerService: "once accepted, a seat is spent for good".
RemoveFromCourse(a) ==
  /\ ~ IsOrg /\ work[a].doing = "remove"
  /\ member' = [member EXCEPT ![work[a].ref].status = "removed"]
  /\ End(a)
  /\ UNCHANGED <<pool, invite>>

-----------------------------------------------------------------------------
(* Restores, by a platform admin: adminRestoreMember. *)

\* One of the person's removed rows (the code takes the one removed last).
BeginRestore(a, m) ==
  /\ work[a] = NoWork /\ member[m].status = "removed"
  /\ Do(a, "restore", m, member[m].user, member[m].role)
  /\ UNCHANGED <<pool, invite, member>>

\* The unique index refuses a second active row.
MayRestore(a) ==
  /\ work[a].doing = "restore"
  /\ ActiveRowsOf(work[a].user) \subseteq {work[a].ref}
  /\ pool.used < MaxUsed

\* Mutant: the seat is not taken again.
RestoreWithoutSeat(a) ==
  /\ IsOrg /\ MayRestore(a)
  /\ member' = [member EXCEPT ![work[a].ref].status = "active"]
  /\ End(a)
  /\ UNCHANGED <<pool, invite>>

\* OrganizationsService: it takes a seat again, "even over the org's cap".
RestoreToOrg(a) ==
  /\ IsOrg /\ MayRestore(a)
  /\ member' = [member EXCEPT ![work[a].ref].status = "active"]
  /\ pool' = [pool EXCEPT !.used = IF work[a].role = "MEMBER" THEN @ + 1 ELSE @]
  /\ End(a)
  /\ UNCHANGED invite

\* DeliveryPartnerService: the seat was never given back.
RestoreToCourse(a) ==
  /\ ~ IsOrg /\ MayRestore(a)
  /\ member' = [member EXCEPT ![work[a].ref].status = "active"]
  /\ End(a)
  /\ UNCHANGED <<pool, invite>>

\* update and updateCourseAssignment: any number, also one below what is used.
SetCap(cap) ==
  /\ pool.cap # cap
  /\ pool' = [pool EXCEPT !.cap = cap]
  /\ UNCHANGED <<invite, member, work>>

-----------------------------------------------------------------------------
ClaimantStep(a) ==
  \/ \E i \in InviteIds : BeginClaim(a, i) \/ BeginDecline(a, i)
  \/ CheckSeats(a) \/ CommitClaim(a) \/ CommitDecline(a)

InviterStep(a) ==
  \/ \E u \in People, role \in Roles : BeginInvite(a, u, role)
  \/ CommitInvite(a)

RemoverStep(a) ==
  \/ \E m \in MemberIds : BeginRemove(a, m)
  \/ RemoveFromOrg(a) \/ ReturnSeat(a) \/ RemoveFromCourse(a)

RestorerStep(a) ==
  \/ \E m \in MemberIds : BeginRestore(a, m)
  \/ RestoreToOrg(a) \/ RestoreToCourse(a)

SeatNext ==
  \/ \E a \in Claimants : ClaimantStep(a)
  \/ \E a \in Inviters : InviterStep(a)
  \/ \E a \in Removers : RemoverStep(a)
  \/ \E a \in Restorers : RestorerStep(a)
  \/ \E a \in Actors : GiveUp(a)
  \/ \E i \in InviteIds : ExpireInvite(i) \/ RevokeInvite(i)
  \/ \E cap \in Caps : SetCap(cap)

SeatSpec == SeatInit /\ [][SeatNext]_seatVars

-----------------------------------------------------------------------------
(* Properties. *)

ActiveMembers == {m \in MemberIds : member[m].status = "active" /\ member[m].role = "MEMBER"}
RowsEver == {m \in MemberIds : member[m].status # "none"}

\* schema.prisma, Organization.usedSeats: "Billable member seats in use".  While
\* one member is removed and one is restored at a time, crashes, doubled claims
\* and changes of role may count a seat too many, but nobody sits on one that is
\* not counted.  Of a partner, delivery-partner.service.ts, removeMember, says more:
\* "a partner can't cycle members through a capped course", so whoever was ever let
\* in, even if removed, restored or invited again since, has a seat of their own.
SeatsAreCounted == Cardinality(IF IsOrg THEN ActiveMembers ELSE RowsEver) <= pool.used
=============================================================================
