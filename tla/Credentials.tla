----------------------------- MODULE Credentials -----------------------------
(***************************************************************************)
(* What lets a caller in: the row of an API key, which the requests made   *)
(* with it, the administrator and the daily reset change side by side      *)
(* (APIKeyAuth, APIKeyStore, admin_apikey.go), and the administrator's     *)
(* sessions, which are signed and not stored: only those logged out of     *)
(* are remembered (admin_auth.go).  Two keys share nothing, so the row of  *)
(* one is enough.                                                          *)
(***************************************************************************)
EXTENDS Integers, FiniteSets

CONSTANTS
  Callers,     \* requests in progress at a time, used again and again
  DailyLimit,  \* DailyLimit of the key, 0 = none
  TTL,         \* adminSessionTTL in ticks
  MaxTime,     \* bound: the clock stops here
  MaxServed,   \* bound: uses of the key that are counted
  Secrets      \* bound: the secrets and application keys ever used, 1..n

ASSUME CredentialsAssumption ==
  /\ IsFiniteSet(Callers)
  /\ DailyLimit \in Nat /\ TTL \in Nat /\ MaxTime \in Nat \ {0}
  /\ Secrets \subseteq Nat \ {0} /\ 1 \in Secrets

NoCopy == [state |-> "none"]

(* The uses IncrementUsage has counted, ever and since the daily reset.    *)
NoUses == [ever |-> 0, today |-> 0]

VARIABLES
  serving,     \* the requests APIKeyAuth has let in
  row,         \* the API key's row
  copy,        \* the row a PATCH has read
  counts,      \* history: uses of the key, see NoUses
  overwritten, \* history: a PATCH has saved a row that had changed meanwhile
  time, appKey, issued, revoked, \* the application key, sessions, revokedSessions
  loggedOut    \* history: sessions logged out of since the process started

keyVars        == <<serving, row, copy, counts, overwritten>>
sessionVars    == <<time, appKey, issued, revoked, loggedOut>>
credentialVars == <<keyVars, sessionVars>>

CredentialsTypeOK ==
  /\ serving \subseteq Callers
  /\ row.state \in {"none", "live", "deleted"} /\ row.status \in {"active", "inactive"}
  /\ row.secret \in Secrets /\ row.daily \in Nat /\ row.total \in Nat
  /\ time \in 1..MaxTime /\ appKey \in Secrets
  /\ issued \subseteq (1..time) \X Secrets /\ revoked \subseteq issued

CredentialsInit ==
  /\ serving = {}
  /\ row = [state |-> "none", status |-> "active", secret |-> 1, daily |-> 0, total |-> 0]
  /\ copy = NoCopy
  /\ counts = NoUses /\ overwritten = FALSE
  /\ time = 1 /\ appKey = 1 /\ issued = {} /\ revoked = {} /\ loggedOut = {}

-----------------------------------------------------------------------------
(* Requests made with the key.                                             *)

(* GetByKey, the status and the daily limit, all of the row as read here;  *)
(* a request that is refused changes nothing.                              *)
Authenticate(p, secret) ==
  /\ p \notin serving
  /\ row.state = "live" /\ row.status = "active" /\ row.secret = secret
  /\ DailyLimit = 0 \/ row.daily < DailyLimit
  /\ serving' = serving \cup {p}
  /\ UNCHANGED <<row, copy, counts, overwritten, sessionVars>>

(* Mutant: IncrementUsage leaves the daily count alone.                    *)
SucceedTotalOnly(p) ==
  /\ p \in serving /\ counts.ever < MaxServed
  /\ IF row.state = "live"
     THEN /\ row' = [row EXCEPT !.total = @ + 1]
          /\ counts' = [ever |-> counts.ever + 1, today |-> counts.today + 1]
     ELSE UNCHANGED <<row, counts>>
  /\ serving' = serving \ {p}
  /\ UNCHANGED <<copy, overwritten, sessionVars>>

(* A chat succeeds: IncrementUsage, which finds no row that is deleted.    *)
Succeed(p) ==
  /\ p \in serving /\ counts.ever < MaxServed
  /\ IF row.state = "live"
     THEN /\ row' = [row EXCEPT !.daily = @ + 1, !.total = @ + 1]
          /\ counts' = [ever |-> counts.ever + 1, today |-> counts.today + 1]
     ELSE UNCHANGED <<row, counts>>
  /\ serving' = serving \ {p}
  /\ UNCHANGED <<copy, overwritten, sessionVars>>

Uncounted(p) ==
  /\ p \in serving
  /\ serving' = serving \ {p}
  /\ UNCHANGED <<row, copy, counts, overwritten, sessionVars>>

(* IncrementUsage fails: the context is the request's and its client may   *)
(* have left, or the database is busy.  incAPIKeyUsage drops the error.    *)
IncrementFails(p) == row.state = "live" /\ Uncounted(p)

(* An image or a video: these flows were given no way to count a use.      *)
ServeMedia(p) == Uncounted(p)

(* The limiter refuses, or the flow reports a failure.                     *)
FailUpstream(p) == Uncounted(p)

-----------------------------------------------------------------------------
(* The administrator and the daily reset change the row.                   *)

CreateKey ==
  /\ row.state = "none"
  /\ row' = [row EXCEPT !.state = "live"]
  /\ UNCHANGED <<serving, copy, counts, overwritten, sessionVars>>

PatchRead ==
  /\ row.state = "live" /\ copy = NoCopy
  /\ copy' = row
  /\ UNCHANGED <<serving, row, counts, overwritten, sessionVars>>

(* Update saves every column of the copy; gorm's Save inserts the row when *)
(* its update finds none, so a key deleted meanwhile is back.              *)
PatchSave(status) ==
  /\ copy # NoCopy
  /\ row' = [copy EXCEPT !.status = status]
  /\ overwritten' = (overwritten \/ copy # row)
  /\ copy' = NoCopy
  /\ UNCHANGED <<serving, counts, sessionVars>>

(* A new random secret; the id and the counters stay.                      *)
Regenerate(secret) ==
  /\ row.state = "live" /\ secret > row.secret
  /\ row' = [row EXCEPT !.secret = secret]
  /\ UNCHANGED <<serving, copy, counts, overwritten, sessionVars>>

DeleteKey ==
  /\ row.state = "live"
  /\ row' = [row EXCEPT !.state = "deleted"]
  /\ UNCHANGED <<serving, copy, counts, overwritten, sessionVars>>

(* Every key that is not deleted, at midnight.                             *)
ResetDailyUsage ==
  /\ row.state = "live"
  /\ row' = [row EXCEPT !.daily = 0]
  /\ counts' = [counts EXCEPT !.today = 0]
  /\ UNCHANGED <<serving, copy, overwritten, sessionVars>>

-----------------------------------------------------------------------------
(* The login, the sessions and AppKeyAuth.                                 *)

PassTime ==
  /\ time < MaxTime
  /\ time' = time + 1
  /\ UNCHANGED <<keyVars, appKey, issued, revoked, loggedOut>>

Expired(session) == time - session[1] > TTL

(* verifyAdminSession *)
Verifies(session) ==
  /\ session[2] = appKey
  /\ ~Expired(session)
  /\ session \notin revoked

(* AppKeyAuth: the cookie's session first, then the key itself.            *)
LetsIn(session, key) == Verifies(session) \/ key = appKey

(* A session names its second and is signed with the key, so that two      *)
(* logins of one second get the same.                                      *)
SignedNow == <<time, appKey>>

(* handleAdminLogin *)
Login ==
  /\ issued' = issued \cup {SignedNow}
  /\ UNCHANGED <<keyVars, time, appKey, revoked, loggedOut>>

Revoke(session) == revoked' = revoked \cup {session}

(* handleAdminLogout revokes whatever session the cookie holds.            *)
Logout(session) ==
  /\ Revoke(session)
  /\ loggedOut' = loggedOut \cup {session}
  /\ UNCHANGED <<keyVars, time, appKey, issued>>

(* purgeExpiredRevokedSessions *)
Purge ==
  /\ revoked' = {s \in revoked : ~Expired(s)}
  /\ UNCHANGED <<keyVars, time, appKey, issued, loggedOut>>

SetAppKey(key) ==
  /\ key # appKey
  /\ appKey' = key
  /\ UNCHANGED <<keyVars, time, issued, revoked, loggedOut>>

-----------------------------------------------------------------------------
(* A restart ends the requests; the revocations live in memory.            *)
KeysRestart ==
  /\ serving' = {} /\ copy' = NoCopy
  /\ UNCHANGED <<row, counts, overwritten, sessionVars>>

SessionsRestart ==
  /\ revoked' = {} /\ loggedOut' = {}
  /\ UNCHANGED <<keyVars, time, appKey, issued>>

KeysNext ==
  \/ CreateKey \/ PatchRead \/ DeleteKey \/ ResetDailyUsage \/ KeysRestart
  \/ \E status \in {"active", "inactive"} : PatchSave(status)
  \/ \E secret \in Secrets : Regenerate(secret)
  \/ \E p \in Callers : \/ ServeMedia(p) \/ IncrementFails(p) \/ Succeed(p) \/ FailUpstream(p)
                        \/ \E secret \in Secrets : Authenticate(p, secret)

SessionsNext ==
  \/ PassTime \/ Login \/ Purge \/ SessionsRestart
  \/ \E session \in issued : Logout(session)
  \/ \E key \in Secrets : SetAppKey(key)

-----------------------------------------------------------------------------
(* Properties.                                                             *)

(* Every use the database counted stays counted: no reset, new secret,     *)
(* status change, deletion or restart takes one away, and the uses counted *)
(* in a day go over the daily limit by no more than the requests in        *)
(* progress when it was reached.  Only a PATCH whose copy was out of date  *)
(* breaks the count.  Uses that are not counted (images, videos, failed    *)
(* increments) are not limited, and nothing is said of them.               *)
CountedUsesStay ==
  ~overwritten =>
    /\ row.daily = counts.today /\ row.total = counts.ever
    /\ DailyLimit > 0 => counts.today <= DailyLimit - 1 + Cardinality(Callers)

(* A session that was logged out is refused until it expires, however the  *)
(* purge of revocations, changes of the application key and back and the   *)
(* clock fall.  (A restart forgets the revocation.)                        *)
LoggedOutStaysOut ==
  \A session \in loggedOut : \A key \in Secrets \ {appKey} : ~LetsIn(session, key)

==============================================================================
