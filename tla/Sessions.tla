------------------------------ MODULE Sessions ------------------------------
(***************************************************************************)
(* The sessions of one user (src/src/modules/auth): refresh tokens and     *)
(* their rotation, logout, password reset, API keys, and the purge of dead *)
(* credentials.  The checks before a login are in LoginChecks.             *)
(*                                                                         *)
(* Every request is a call of a caller's slot; a step of a call runs from  *)
(* one await to the next.  Rows are numbered in the order of insertion and *)
(* hold their status: a credential is live (or unused) until it is revoked *)
(* (or used), expires, or is deleted.  What bcrypt and HMAC compute is     *)
(* left out: a caller holds the credential of the row it names.            *)
(***************************************************************************)
EXTENDS Integers, Sequences, FiniteSets

CONSTANTS
    SessionCallers,         \* the requests in flight at a time
    MaxTokens, MaxResets,   \* bounds on the rows inserted
    MaxSessionCrashes       \* bound on the calls that end between two steps

VARIABLES
    registered,     \* whether the user exists
    password,       \* how often the password was changed
    refreshTokens,  \* refresh_tokens: [status, born, late]
    resetTokens,    \* password_reset_tokens: statuses
    apiKey,         \* the API key of one name: "none", "live", "revoked" or "expired"
    sessionCalls,   \* the calls in flight
    sessionCrashes

rows == <<refreshTokens, resetTokens, apiKey>>
vars == <<registered, password, refreshTokens, resetTokens, apiKey, sessionCalls, sessionCrashes>>

\* The rows.  born and late are history: the password in force when the
\* session's credential was checked, and whether it has changed by the insert.
RefreshToken == [status : {"live", "revoked", "expired", "deleted"}, born : Nat, late : BOOLEAN]
PasswordResetToken == {"unused", "used", "expired", "deleted"}
ApiKey == {"none", "live", "revoked", "expired"}

TypeOK ==
    /\ registered \in BOOLEAN /\ password \in Nat
    /\ refreshTokens \in Seq(RefreshToken)
    /\ resetTokens \in Seq(PasswordResetToken)
    /\ apiKey \in ApiKey

NoCall == [at |-> "idle", id |-> 0, born |-> 0]

Init ==
    /\ registered = FALSE /\ password = 0
    /\ refreshTokens = <<>> /\ resetTokens = <<>> /\ apiKey = "none"
    /\ sessionCalls = [c \in SessionCallers |-> NoCall]
    /\ sessionCrashes = 0

At(c, step) == sessionCalls[c].at = step

\* A request reaches the service: a call starts at step, about row id.  born
\* is the password in force when the caller's credential is checked.
Start(c, step, id) ==
    /\ At(c, "idle")
    /\ sessionCalls' = [sessionCalls EXCEPT ![c] = [at |-> step, id |-> id, born |-> password]]

Goto(c, step) == sessionCalls' = [sessionCalls EXCEPT ![c].at = step]
Finish(c) == sessionCalls' = [sessionCalls EXCEPT ![c] = NoCall]

----------------------------------------------------------------------------
(* Login *)

\* register: the unique email lets one insert through.
Register(c) ==
    /\ ~registered
    /\ registered' = TRUE
    /\ Start(c, "issue", 0)
    /\ UNCHANGED <<password, rows, sessionCrashes>>

\* login: the password is compared with the stored hash (LoginChecks has the
\* attempts and the lockout).
Login(c) ==
    /\ registered
    /\ Start(c, "issue", 0)
    /\ UNCHANGED <<registered, password, rows, sessionCrashes>>

\* stellarVerify after the challenge: the user is found or created.
StellarVerify(c) ==
    /\ registered' = TRUE
    /\ Start(c, "issue", 0)
    /\ UNCHANGED <<password, rows, sessionCrashes>>

\* issueTokenPair, the end of every way to log in: a new refresh token.  late
\* says that the password has changed since the credential was checked.
IssueTokenPair(c) ==
    /\ At(c, "issue")
    /\ Len(refreshTokens) < MaxTokens
    /\ refreshTokens' = Append(refreshTokens,
          [status |-> "live", born |-> sessionCalls[c].born, late |-> sessionCalls[c].born < password])
    /\ Finish(c)
    /\ UNCHANGED <<registered, password, resetTokens, apiKey, sessionCrashes>>

----------------------------------------------------------------------------
(* Refresh and logout *)

\* refreshAccessToken: the row of a live token is read ...
RefreshFind(c, t) ==
    /\ refreshTokens[t].status = "live"
    /\ Start(c, "rotate", t)
    /\ UNCHANGED <<registered, password, rows, sessionCrashes>>

\* ... and, after the comparison, saved as revoked without looking again.
RefreshRotate(c) ==
    /\ At(c, "rotate")
    /\ refreshTokens' = [refreshTokens EXCEPT ![sessionCalls[c].id].status = "revoked"]
    /\ Goto(c, "issue")
    /\ UNCHANGED <<registered, password, resetTokens, apiKey, sessionCrashes>>

\* logout: an expired token is found as well.
LogoutFind(c, t) ==
    /\ refreshTokens[t].status \in {"live", "expired"}
    /\ Start(c, "logout", t)
    /\ UNCHANGED <<registered, password, rows, sessionCrashes>>

LogoutSave(c) ==
    /\ At(c, "logout")
    /\ refreshTokens' = [refreshTokens EXCEPT ![sessionCalls[c].id].status = "revoked"]
    /\ Finish(c)
    /\ UNCHANGED <<registered, password, resetTokens, apiKey, sessionCrashes>>

\* The UPDATE of logoutAll: every token not revoked.
RevokeAll ==
    refreshTokens' = [t \in DOMAIN refreshTokens |->
        [refreshTokens[t] EXCEPT !.status = IF @ = "deleted" THEN @ ELSE "revoked"]]

LogoutAll ==
    /\ registered /\ RevokeAll
    /\ UNCHANGED <<registered, password, resetTokens, apiKey, sessionCalls, sessionCrashes>>

----------------------------------------------------------------------------
(* Password reset *)

\* requestPasswordReset: the tokens not used are retired ...
ResetRetire(c) ==
    /\ registered
    /\ Start(c, "newReset", 0)
    /\ resetTokens' = [r \in DOMAIN resetTokens |->
                         IF resetTokens[r] = "unused" THEN "used" ELSE resetTokens[r]]
    /\ UNCHANGED <<registered, password, refreshTokens, apiKey, sessionCrashes>>

\* ... and, after hashing, the new one is stored.
ResetStore(c) ==
    /\ At(c, "newReset")
    /\ Len(resetTokens) < MaxResets
    /\ resetTokens' = Append(resetTokens, "unused")
    /\ Finish(c)
    /\ UNCHANGED <<registered, password, refreshTokens, apiKey, sessionCrashes>>

\* confirmPasswordReset: the token is read, ...
ConfirmFind(c, r) ==
    /\ resetTokens[r] = "unused"
    /\ Start(c, "password", r)
    /\ UNCHANGED <<registered, password, rows, sessionCrashes>>

\* ... the password changed, ...
ConfirmPassword(c) ==
    /\ At(c, "password")
    /\ password' = password + 1
    /\ Goto(c, "spend")
    /\ UNCHANGED <<registered, rows, sessionCrashes>>

\* ... the token saved as used, ...
ConfirmSpend(c) ==
    /\ At(c, "spend")
    /\ resetTokens' = [resetTokens EXCEPT ![sessionCalls[c].id] = "used"]
    /\ Goto(c, "revokeAll")
    /\ UNCHANGED <<registered, password, refreshTokens, apiKey, sessionCrashes>>

\* Mutant: only the newest session is ended.
ConfirmRevokeNewest(c) ==
    /\ At(c, "revokeAll")
    /\ refreshTokens' = [t \in DOMAIN refreshTokens |->
          IF t = Len(refreshTokens) THEN [refreshTokens[t] EXCEPT !.status = "revoked"] ELSE refreshTokens[t]]
    /\ Finish(c)
    /\ UNCHANGED <<registered, password, resetTokens, apiKey, sessionCrashes>>

\* ... and every session ended.
ConfirmRevoke(c) ==
    /\ At(c, "revokeAll")
    /\ RevokeAll /\ Finish(c)
    /\ UNCHANGED <<registered, password, resetTokens, apiKey, sessionCrashes>>

----------------------------------------------------------------------------
(* API keys *)

\* ApiKeysService.create: the name is free ...
KeyCreate(c) ==
    /\ registered /\ apiKey = "none"
    /\ Start(c, "keyInsert", 0)
    /\ UNCHANGED <<registered, password, rows, sessionCrashes>>

\* ... and the row is inserted, once for a user and a name.
KeyInsert(c) ==
    /\ At(c, "keyInsert")
    /\ apiKey' = IF apiKey = "none" THEN "live" ELSE apiKey
    /\ Finish(c)
    /\ UNCHANGED <<registered, password, refreshTokens, resetTokens, sessionCrashes>>

\* validate, as ApiKeyAuthGuard calls it: an active key is read ...
KeyValidate(c) ==
    /\ apiKey = "live"
    /\ Start(c, "keyTouch", 0)
    /\ UNCHANGED <<registered, password, rows, sessionCrashes>>

\* Mutant: the late update stores the key as it was read.
KeyTouchStale(c) ==
    /\ At(c, "keyTouch")
    /\ apiKey' = "live"
    /\ Finish(c)
    /\ UNCHANGED <<registered, password, refreshTokens, resetTokens, sessionCrashes>>

\* ... and lastUsedAt updated later, nobody waiting for it.
KeyTouch(c) ==
    /\ At(c, "keyTouch")
    /\ Finish(c)
    /\ UNCHANGED <<registered, password, rows, sessionCrashes>>

KeyRevoke ==
    /\ apiKey # "none"
    /\ apiKey' = "revoked"
    /\ UNCHANGED <<registered, password, refreshTokens, resetTokens, sessionCalls, sessionCrashes>>

----------------------------------------------------------------------------
(* Time and failures *)

\* A credential expires.
Expires ==
    /\ \/ /\ \E t \in DOMAIN refreshTokens :
                /\ refreshTokens[t].status = "live"
                /\ refreshTokens' = [refreshTokens EXCEPT ![t].status = "expired"]
          /\ UNCHANGED <<resetTokens, apiKey>>
       \/ /\ \E r \in DOMAIN resetTokens :
                /\ resetTokens[r] = "unused"
                /\ resetTokens' = [resetTokens EXCEPT ![r] = "expired"]
          /\ UNCHANGED <<refreshTokens, apiKey>>
       \/ /\ apiKey = "live" /\ apiKey' = "expired"
          /\ UNCHANGED <<refreshTokens, resetTokens>>
    /\ UNCHANGED <<registered, password, sessionCalls, sessionCrashes>>

\* cleanupExpiredCredentials.  Revoked refresh tokens go after the retention,
\* here at once.
Cleanup ==
    LET Purge(s) == IF s \in {"expired", "used", "revoked"} THEN "deleted" ELSE s IN
    /\ refreshTokens' = [t \in DOMAIN refreshTokens |-> [refreshTokens[t] EXCEPT !.status = Purge(@)]]
    /\ resetTokens' = [r \in DOMAIN resetTokens |-> Purge(resetTokens[r])]
    /\ UNCHANGED <<registered, password, apiKey, sessionCalls, sessionCrashes>>

\* A call ends between two of its steps: an error, or the end of the process.
CallEnds(c) ==
    /\ sessionCrashes < MaxSessionCrashes
    /\ ~At(c, "idle")
    /\ sessionCrashes' = sessionCrashes + 1
    /\ Finish(c)
    /\ UNCHANGED <<registered, password, rows>>

Next ==
    \/ \E c \in SessionCallers :
          \/ Register(c) \/ Login(c) \/ StellarVerify(c) \/ IssueTokenPair(c)
          \/ \E t \in DOMAIN refreshTokens : RefreshFind(c, t) \/ LogoutFind(c, t)
          \/ RefreshRotate(c) \/ LogoutSave(c)
          \/ ResetRetire(c) \/ ResetStore(c)
          \/ \E r \in DOMAIN resetTokens : ConfirmFind(c, r)
          \/ ConfirmPassword(c) \/ ConfirmSpend(c) \/ ConfirmRevoke(c)
          \/ KeyCreate(c) \/ KeyInsert(c) \/ KeyValidate(c) \/ KeyTouch(c)
          \/ CallEnds(c)
    \/ LogoutAll \/ KeyRevoke \/ Expires \/ Cleanup

Spec == Init /\ [][Next]_vars

----------------------------------------------------------------------------
(* Properties *)

\* Once a reset is confirmed, no session is left whose credential was checked
\* under an older password, except one whose request was still in flight when
\* the password changed (confirmPasswordReset changes the password first and
\* revokes last).
ResetEndsSessions ==
    (sessionCrashes = 0 /\ \A c \in SessionCallers : sessionCalls[c].at \notin {"spend", "revokeAll"}) =>
        \A t \in DOMAIN refreshTokens :
            refreshTokens[t].status = "live" /\ refreshTokens[t].born < password
                => refreshTokens[t].late

\* A credential that was revoked, used or expired never authenticates again,
\* whatever copy of its row a request in flight still holds (the saves of
\* refreshAccessToken, logout and confirmPasswordReset, the late update of
\* validate).
DeadStaysDead ==
    [][/\ \A t \in DOMAIN refreshTokens :
            refreshTokens'[t].status = "live" => refreshTokens[t].status = "live"
       /\ \A r \in DOMAIN resetTokens : resetTokens'[r] = "unused" => resetTokens[r] = "unused"
       /\ apiKey' = "live" => apiKey \in {"none", "live"}]_vars
=============================================================================
