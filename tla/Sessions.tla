------------------------------ MODULE Sessions ------------------------------
(***************************************************************************)
(* The sessions of one user (TokenService, AuthService): RefreshToken      *)
(* rows, the browsers that hold them in a cookie, the tabs that log in,    *)
(* refresh and log out, and the replies to a password-reset link.  The     *)
(* tabs of one browser share its cookies; a tab has one auth request in    *)
(* flight (refreshInFlight in the web client).  Access tokens, which no    *)
(* row records, are left out.                                              *)
(*                                                                         *)
(* Token ids are given out in the order the rows are created.              *)
(***************************************************************************)
EXTENDS Integers, FiniteSetsExt

CONSTANTS
  Tabs, Browsers,
  BrowserOf,       \* Tabs -> Browsers
  MaxTokens,       \* bound: how many RefreshToken rows may ever be created
  MaxActive,       \* MAX_ACTIVE_SESSIONS
  Resetters,       \* submissions of the one password-reset link
  MayCrashAuth     \* may the process die in the middle of a request?

TokenIds == 1..MaxTokens

ASSUME SessionsAssumption ==
  /\ BrowserOf \in [Tabs -> Browsers]
  /\ MaxTokens \in Nat
  /\ MaxActive \in Nat \ {0}
  /\ MayCrashAuth \in BOOLEAN

VARIABLES
  token,           \* TokenIds -> RefreshToken row
  cookie,          \* Browsers -> the refresh_token cookie, 0: none
  request,         \* Tabs -> the auth request in flight
  resetLink,       \* PasswordResetToken.usedAt of the link, as a flag
  resetter,        \* Resetters -> progress of resetPassword
  passwordSet      \* how often the link has set the password

sessionVars == <<token, cookie, request, resetLink, resetter, passwordSet>>

\* A revoked row is "stale" once REUSE_GRACE_MS have passed.  "parent" is history
\* that the rows do not keep: the token it was rotated from.
TokenRow == [status : {"none", "live", "revoked", "stale", "expired", "deleted"},
             parent : TokenIds \cup {0}]

NoToken == [status |-> "none", parent |-> 0]

RequestState ==
  [doing : {"idle", "reissue", "evict", "create", "rotate", "endAll", "clear", "reply"},
   tok : TokenIds \cup {0}, seen : SUBSET TokenIds]

NoRequest == [doing |-> "idle", tok |-> 0, seen |-> {}]

ResetState == [at : {"start", "claimed", "updated", "deleting", "done"},
               seen : SUBSET TokenIds]

SessionTypeOK ==
  /\ token \in [TokenIds -> TokenRow]
  /\ cookie \in [Browsers -> TokenIds \cup {0}]
  /\ request \in [Tabs -> RequestState]
  /\ resetLink \in {"unused", "used"}
  /\ resetter \in [Resetters -> ResetState]
  /\ passwordSet \in Nat

SessionInit ==
  /\ token = [k \in TokenIds |-> NoToken]
  /\ cookie = [b \in Browsers |-> 0]
  /\ request = [t \in Tabs |-> NoRequest]
  /\ resetLink = "unused"
  /\ resetter = [h \in Resetters |-> [at |-> "start", seen |-> {}]]
  /\ passwordSet = 0

-----------------------------------------------------------------------------
Rows == {k \in TokenIds : token[k].status \notin {"none", "deleted"}}
Live == {k \in TokenIds : token[k].status = "live"}
Unused == {k \in TokenIds : token[k].status = "none"}

\* revokeRefreshTokenByHash, for the rows R that exist.
Revoked(R) ==
  [k \in TokenIds |-> IF k \in R THEN [token[k] EXCEPT !.status = "revoked"] ELSE token[k]]

Gone == [NoToken EXCEPT !.status = "deleted"]

Deleted(R) == [k \in TokenIds |-> IF k \in R THEN Gone ELSE token[k]]

Go(t, what, tok, seen) ==
  request' = [request EXCEPT ![t] = [doing |-> what, tok |-> tok, seen |-> seen]]
Done(t) == request' = [request EXCEPT ![t] = NoRequest]

resetVars == <<resetLink, resetter, passwordSet>>

-----------------------------------------------------------------------------
(* Logging in: AuthService.login, issueSession, issueRefreshToken. *)

\* The n oldest of the live sessions.
Oldest(n) == {k \in Live : Cardinality({l \in Live : l < k}) < n}

\* The password is right.  enforceSessionCap lists the live sessions and chooses
\* those over the cap ...
ListSessions(t) ==
  /\ request[t] = NoRequest \/ request[t].doing = "reissue"
  /\ Go(t, "evict", 0, Oldest(Cardinality(Live) - MaxActive + 1))
  /\ UNCHANGED <<token, cookie, resetVars>>

\* ... and revoke them by hash.  The update of a row that is gone throws, and the
\* login fails, after the other updates.
Evict(t) ==
  /\ request[t].doing = "evict"
  /\ token' = Revoked(request[t].seen \cap Rows)
  /\ IF request[t].seen \subseteq Rows THEN Go(t, "create", 0, {}) ELSE Done(t)
  /\ UNCHANGED <<cookie, resetVars>>

CreateToken(t) ==
  /\ request[t].doing = "create"
  /\ \E k \in Unused :
       /\ \A l \in Unused : k <= l
       /\ token' = [token EXCEPT ![k].status = "live"]
       /\ Go(t, "reply", k, {})
  /\ UNCHANGED <<cookie, resetVars>>

\* The response sets the cookie of the whole browser; or it is lost.
Reply(t) ==
  /\ request[t].doing = "reply"
  /\ cookie' = [cookie EXCEPT ![BrowserOf[t]] = request[t].tok]
  /\ Done(t)
  /\ UNCHANGED <<token, resetVars>>

\* The process dies, the pool refuses, or the response is lost.
FailRequest(t) ==
  /\ MayCrashAuth /\ request[t] # NoRequest
  /\ Done(t)
  /\ UNCHANGED <<token, cookie, resetVars>>

-----------------------------------------------------------------------------
(* Refreshing: rotateRefreshToken. *)

\* The row is read.  A token revoked longer than the grace period ago is taken
\* for a stolen one; one that is missing, expired or revoked just now fails.
BeginRefresh(t) ==
  LET k == cookie[BrowserOf[t]] IN
  /\ request[t] = NoRequest /\ k # 0
  /\ token[k].status \in {"live", "stale"}
  /\ Go(t, IF token[k].status = "live" THEN "rotate" ELSE "endAll", k, {})
  /\ UNCHANGED <<token, cookie, resetVars>>

\* Mutant: the rotation revokes whatever matches, and does not fail when nothing
\* does.
RotateAnyway(t) ==
  LET k == request[t].tok IN
  /\ request[t].doing = "rotate"
  /\ \E new \in Unused :
       /\ \A l \in Unused : new <= l
       /\ token' = [Revoked({k} \cap Rows) EXCEPT
                      ![new] = [status |-> "live", parent |-> k]]
       /\ Go(t, "reply", new, {})
  /\ UNCHANGED <<cookie, resetVars>>

\* The transaction: revoke the token by hash, whatever became of it since, and
\* create its successor.  It rolls back when the row is gone.
Rotate(t) ==
  LET k == request[t].tok IN
  /\ request[t].doing = "rotate"
  /\ IF k \in Rows
     THEN \E new \in Unused :
            /\ \A l \in Unused : new <= l
            /\ token' = [Revoked({k}) EXCEPT
                           ![new] = [status |-> "live", parent |-> k]]
            /\ Go(t, "reply", new, {})
     ELSE /\ Done(t)
          /\ UNCHANGED token
  /\ UNCHANGED <<cookie, resetVars>>

\* revokeActiveRefreshTokensForUser.
EndAll(t) ==
  /\ request[t].doing = "endAll"
  /\ token' = Revoked(Live)
  /\ Done(t)
  /\ UNCHANGED <<cookie, resetVars>>

\* The row is deleted; the reply clears the cookie.
Logout(t) ==
  /\ request[t] = NoRequest /\ cookie[BrowserOf[t]] # 0
  /\ token' = Deleted({cookie[BrowserOf[t]]} \cap Rows)
  /\ cookie' = [cookie EXCEPT ![BrowserOf[t]] = 0]
  /\ UNCHANGED <<request, resetVars>>

\* forcePasswordChange: every session goes, and one is issued.
ForceChange(t) ==
  /\ request[t] = NoRequest /\ cookie[BrowserOf[t]] # 0
  /\ Go(t, "clear", 0, Rows)
  /\ UNCHANGED <<token, cookie, resetVars>>

\* deleteMany deletes the rows that its statement saw.
ClearSessions(t) ==
  /\ request[t].doing = "clear"
  /\ token' = Deleted(request[t].seen \cap Rows)
  /\ Go(t, "reissue", 0, {})
  /\ UNCHANGED <<cookie, resetVars>>

-----------------------------------------------------------------------------
(* Time. *)

GracePasses(k) ==
  /\ token[k].status = "revoked"
  /\ token' = [token EXCEPT ![k].status = "stale"]
  /\ UNCHANGED <<cookie, request, resetVars>>

Expire(k) ==
  /\ token[k].status = "live"
  /\ token' = [token EXCEPT ![k].status = "expired"]
  /\ UNCHANGED <<cookie, request, resetVars>>

\* The maintenance rollup, for one of the rows past their expiry; a revoked one
\* outlives its grace period by far before it is.
PruneToken(k) ==
  /\ token[k].status \in {"expired", "stale"}
  /\ token' = Deleted({k})
  /\ UNCHANGED <<cookie, request, resetVars>>

-----------------------------------------------------------------------------
(* Password reset: AuthService.resetPassword. *)

ResetGoes(h, at, seen) == resetter' = [resetter EXCEPT ![h] = [at |-> at, seen |-> seen]]

\* Mutant: the link is checked like the page checks it, and not claimed.
CheckLink(h) ==
  /\ resetter[h].at = "start"
  /\ resetLink = "unused"
  /\ ResetGoes(h, "claimed", {})
  /\ UNCHANGED <<resetLink, token, cookie, request, passwordSet>>

\* consumePasswordResetToken: UPDATE ... WHERE usedAt IS NULL.
ClaimLink(h) ==
  /\ resetter[h].at = "start"
  /\ resetLink = "unused"
  /\ resetLink' = "used"
  /\ ResetGoes(h, "claimed", {})
  /\ UNCHANGED <<token, cookie, request, passwordSet>>

UpdatePassword(h) ==
  /\ resetter[h].at = "claimed"
  /\ passwordSet' = passwordSet + 1
  /\ ResetGoes(h, "updated", {})
  /\ UNCHANGED <<token, cookie, request, resetLink>>

\* deleteRefreshTokensByUser: the statement begins, and ends.
BeginDelete(h) ==
  /\ resetter[h].at = "updated"
  /\ ResetGoes(h, "deleting", Rows)
  /\ UNCHANGED <<token, cookie, request, resetLink, passwordSet>>

EndDelete(h) ==
  /\ resetter[h].at = "deleting"
  /\ token' = Deleted(resetter[h].seen \cap Rows)
  /\ ResetGoes(h, "done", {})
  /\ UNCHANGED <<cookie, request, resetLink, passwordSet>>

-----------------------------------------------------------------------------
TabStep(t) ==
  \/ ListSessions(t) \/ Evict(t) \/ CreateToken(t)
  \/ BeginRefresh(t) \/ Rotate(t) \/ EndAll(t)
  \/ Logout(t)
  \/ ForceChange(t) \/ ClearSessions(t)
  \/ Reply(t) \/ FailRequest(t)

ResetStep(h) == ClaimLink(h) \/ UpdatePassword(h) \/ BeginDelete(h) \/ EndDelete(h)

SessionNext ==
  \/ \E t \in Tabs : TabStep(t)
  \/ \E h \in Resetters : ResetStep(h)
  \/ \E k \in TokenIds : GracePasses(k) \/ Expire(k) \/ PruneToken(k)

SessionSpec == SessionInit /\ [][SessionNext]_sessionVars

-----------------------------------------------------------------------------
(* Properties. *)

\* auth.service.ts, resetPassword: a "link can never reset the password a second
\* time", however many submissions of it are in flight.
LinkSetsPasswordOnce == passwordSet <= 1

\* A session that was logged out, reset away or pruned is not brought back by a
\* refresh that had read it before: a token never has a successor that was made
\* after its own row was deleted.
DeletedHasNoSuccessor ==
  [][\A k \in TokenIds :
       token[k].status = "none" /\ token'[k].parent # 0
         => token[token'[k].parent].status # "deleted"]_sessionVars
=============================================================================
