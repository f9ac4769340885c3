----------------------------- MODULE OAuth2Token -----------------------------
(***************************************************************************)
(* The access token with which a user is authenticated to a database       *)
(* (superset/utils/oauth2.py): the requests that need it and refresh it    *)
(* when it has expired, the lock under which they do so                    *)
(* (superset/utils/lock.py, a row of the key-value store with an expiry),  *)
(* and the page to which the provider sends the user to grant a new one    *)
(* (databases/api.py).                                                     *)
(*                                                                         *)
(* A step ends where the code commits, waits for the provider, or sleeps.  *)
(* A commit makes a session read its rows again: a request uses the        *)
(* refresh token as it is after it has got the lock, and fails if the row  *)
(* is gone.  Time is counted in ticks, down to an expiry.                  *)
(***************************************************************************)
EXTENDS Integers

CONSTANTS
  Requests,         \* requests that may need the token at once
  LOCK_EXPIRATION,
  Lifetimes,        \* values of expires_in
  max_tries,
  MaxGrants         \* bound: how often the user grants access

ASSUME OAuth2Assumption ==
  /\ LOCK_EXPIRATION \in Nat \ {0} /\ max_tries \in Nat \ {0} /\ MaxGrants \in Nat
  /\ Lifetimes \subseteq Nat \ {0}

VARIABLES
  lock,       \* the ticks until the row of the lock expires, or NoRow
  token,      \* the row with the user's token: its id, the ticks until the access
              \* token expires, whether it has a refresh token
  grants,     \* rows of tokens so far
  at,         \* what each request does next
  tries, seen,    \* its tries so far, and the id of the row it has read
  outlasted,  \* history: a lock has expired while its holder was refreshing
  lost        \* history: a new access token was not stored

oauthVars == <<lock, token, grants, at, tries, seen, outlasted, lost>>

NoRow   == -1
NoToken == [id |-> 0, left |-> 0, refresh |-> FALSE]
Places  == {"idle", "read", "expire", "create", "sleep", "locked", "refresh"}
Holding == {r \in Requests : at[r] \in {"locked", "refresh"}}

-----------------------------------------------------------------------------
At(r, place) == at' = [at EXCEPT ![r] = place]

(* The request returns, or fails. *)
Leave(r) ==
  /\ At(r, "idle")
  /\ tries' = [tries EXCEPT ![r] = 0] /\ seen' = [seen EXCEPT ![r] = 0]

Ask(r) ==
  /\ at[r] = "idle" /\ At(r, "read") /\ tries' = [tries EXCEPT ![r] = 1]
  /\ UNCHANGED <<lock, token, grants, seen, outlasted, lost>>

(* get_oauth2_access_token: without a refresh token the row is deleted, if   *)
(* the request commits later on.                                             *)
Read(r) ==
  /\ at[r] = "read"
  /\ \/ /\ token.left = 0 /\ token.refresh
        /\ At(r, "expire") /\ seen' = [seen EXCEPT ![r] = token.id]
        /\ UNCHANGED <<token, tries>>
     \/ (token.left > 0 \/ token = NoToken) /\ Leave(r) /\ UNCHANGED token
     \/ token.left = 0 /\ ~token.refresh /\ Leave(r) /\ token' \in {token, NoToken}
  /\ UNCHANGED <<lock, grants, outlasted, lost>>

DeleteExpired_all(r) ==
  /\ at[r] = "expire" /\ At(r, "create")
  /\ lock' = NoRow
  /\ UNCHANGED <<token, grants, tries, seen, outlasted, lost>>

(* KeyValueDistributedLock: expired locks are deleted, *)
DeleteExpired(r) ==
  /\ at[r] = "expire" /\ At(r, "create")
  /\ lock' = IF lock = 0 THEN NoRow ELSE lock
  /\ UNCHANGED <<token, grants, tries, seen, outlasted, lost>>

Create_oneMore(r) ==
  /\ at[r] = "create"
  /\ IF lock = NoRow
     THEN lock' = LOCK_EXPIRATION /\ At(r, "locked") /\ UNCHANGED <<tries, seen>>
     ELSE /\ UNCHANGED lock
          /\ IF tries[r] <= max_tries
             THEN At(r, "sleep") /\ tries' = [tries EXCEPT ![r] = @ + 1] /\ UNCHANGED seen
             ELSE Leave(r)
  /\ UNCHANGED <<token, grants, outlasted, lost>>

Create_uncounted(r) ==
  /\ at[r] = "create"
  /\ IF lock = NoRow
     THEN lock' = LOCK_EXPIRATION /\ At(r, "locked") /\ UNCHANGED <<tries, seen>>
     ELSE UNCHANGED lock /\ At(r, "sleep") /\ UNCHANGED <<tries, seen>>
  /\ UNCHANGED <<token, grants, outlasted, lost>>

(* and a new one is created, unless there is one: the request sleeps and     *)
(* tries again, or gives up.                                                 *)
Create(r) ==
  /\ at[r] = "create"
  /\ IF lock = NoRow
     THEN lock' = LOCK_EXPIRATION /\ At(r, "locked") /\ UNCHANGED <<tries, seen>>
     ELSE /\ UNCHANGED lock
          /\ IF tries[r] < max_tries
             THEN At(r, "sleep") /\ tries' = [tries EXCEPT ![r] = @ + 1] /\ UNCHANGED seen
             ELSE Leave(r)
  /\ UNCHANGED <<token, grants, outlasted, lost>>

Retry(r) ==
  /\ at[r] = "sleep" /\ At(r, "read") /\ seen' = [seen EXCEPT ![r] = 0]
  /\ UNCHANGED <<lock, token, grants, tries, outlasted, lost>>

(* refresh_oauth2_token: what the row says of the access token now is not    *)
(* looked at.                                                                *)
Refresh(r) ==
  /\ at[r] = "locked"
  /\ IF token.id = seen[r] THEN At(r, "refresh") /\ UNCHANGED <<tries, seen>> ELSE Leave(r)
  /\ UNCHANGED <<lock, token, grants, outlasted, lost>>

Release_uncommitted(r, ttl) ==
  /\ at[r] = "refresh" /\ Leave(r)
  /\ IF token.id = seen[r]
     THEN /\ lock' = NoRow
          /\ \/ token' = [token EXCEPT !.left = ttl] /\ UNCHANGED lost
             \/ UNCHANGED token /\ lost' = TRUE
     ELSE UNCHANGED <<lock, token, lost>>
  /\ UNCHANGED <<grants, outlasted>>

(* The answer has an access token, and the lock is deleted, whoever created  *)
(* it: that commits the token too.  If there is no lock the token is stored  *)
(* only if the request commits later on; and the update of a row that is     *)
(* gone fails and leaves the lock.                                           *)
Release(r, ttl) ==
  /\ at[r] = "refresh" /\ Leave(r)
  /\ IF token.id = seen[r]
     THEN /\ lock' = NoRow
          /\ \/ token' = [token EXCEPT !.left = ttl] /\ UNCHANGED lost
             \/ lock = NoRow /\ UNCHANGED token /\ lost' = TRUE
     ELSE UNCHANGED <<lock, token, lost>>
  /\ UNCHANGED <<grants, outlasted>>

(* The answer has none. *)
Revoked(r) ==
  /\ at[r] = "refresh" /\ Leave(r) /\ lock' = NoRow
  /\ UNCHANGED <<token, grants, outlasted, lost>>

(* The provider does not answer, or not as expected; or the process dies:    *)
(* the lock stays.                                                           *)
Fails(r) ==
  /\ at[r] \in {"locked", "refresh"} /\ Leave(r)
  /\ UNCHANGED <<lock, token, grants, outlasted, lost>>

-----------------------------------------------------------------------------
(* DatabaseRestApi.oauth2: the old row is deleted, then a new one created. *)
DeleteOldToken ==
  /\ token # NoToken /\ token' = NoToken
  /\ UNCHANGED <<lock, grants, at, tries, seen, outlasted, lost>>

StoreToken ==
  /\ token = NoToken /\ grants < MaxGrants /\ grants' = grants + 1
  /\ \E ttl \in Lifetimes, refresh \in BOOLEAN :
        token' = [id |-> grants', left |-> ttl, refresh |-> refresh]
  /\ UNCHANGED <<lock, at, tries, seen, outlasted, lost>>

TimePasses ==
  /\ lock' = IF lock > 0 THEN lock - 1 ELSE lock
  /\ token' = [token EXCEPT !.left = IF @ > 0 THEN @ - 1 ELSE @]
  /\ outlasted' = (outlasted \/ (lock' = 0 /\ Holding # {}))
  /\ UNCHANGED <<grants, at, tries, seen, lost>>

-----------------------------------------------------------------------------
OAuth2Init ==
  /\ lock = NoRow /\ token = NoToken /\ grants = 0
  /\ at = [r \in Requests |-> "idle"]
  /\ tries = [r \in Requests |-> 0] /\ seen = [r \in Requests |-> 0]
  /\ outlasted = FALSE /\ lost = FALSE

GoesOn(r) ==
  \/ Read(r) \/ DeleteExpired(r) \/ Create(r) \/ Retry(r) \/ Refresh(r)
  \/ (\E ttl \in Lifetimes : Release(r, ttl)) \/ Revoked(r) \/ Fails(r)

OAuth2Next ==
  \/ \E r \in Requests : Ask(r) \/ GoesOn(r)
  \/ DeleteOldToken \/ StoreToken \/ TimePasses

OAuth2Spec == OAuth2Init /\ [][OAuth2Next]_oauthVars

(* What a request waits for comes or fails: the provider has a timeout.      *)
OAuth2Fairness == \A r \in Requests : WF_oauthVars(GoesOn(r))

OAuth2FairSpec == OAuth2Spec /\ OAuth2Fairness

-----------------------------------------------------------------------------
OAuth2TypeOK ==
  /\ lock \in {NoRow} \cup 0 .. LOCK_EXPIRATION
  /\ token \in [id : Nat, left : Nat, refresh : BOOLEAN]
  /\ grants \in 0 .. MaxGrants
  /\ at \in [Requests -> Places]
  /\ tries \in [Requests -> 0 .. max_tries] /\ seen \in [Requests -> Nat]
  /\ outlasted \in BOOLEAN /\ lost \in BOOLEAN

(* lock.py: one request refreshes the token at a time, whatever others fail, *)
(* give up or find expired: as long as no refresh has outlasted its lock.    *)
(* After one has, its release deletes the lock of whoever came next.         *)
OneRefreshAtATime ==
  ~outlasted => \A r, s \in Holding : r = s

(* oauth2.py:58: a new access token is stored, unless the user grants a      *)
(* newer one meanwhile: only a request whose lock is gone when it releases   *)
(* it may drop what it got.                                                  *)
NothingLost == lost => outlasted

(* What makes both so: whoever refreshes has the lock. *)
HolderHasLock == ~outlasted => (Holding # {} => lock > 0)

OAuth2Inv == OAuth2TypeOK /\ OneRefreshAtATime /\ NothingLost /\ HolderHasLock

(* backoff.on_exception: no request waits for the lock for ever. *)
RequestsEnd == \A r \in Requests : at[r] # "idle" ~> at[r] = "idle"

(* oauth2.py:59-61: "in that case only the first process to acquire the lock *)
(* will perform the refresh": no request refreshes a token that another has  *)
(* refreshed.                                                                *)
OnlyExpiredIsRefreshed ==
  [][\A r \in Requests :
       at[r] = "locked" /\ at'[r] = "refresh" => token.left = 0]_oauthVars
=============================================================================
