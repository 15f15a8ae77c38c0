------------------------------ MODULE OAuthRefresh ------------------------------
(***************************************************************************)
(* The OAuth credentials of one upstream account and the goroutines that   *)
(* renew them: the refreshers of TokenRefreshService, the requests that    *)
(* ask ClaudeTokenProvider for a token, and an administrator's refresh.    *)
(* The upstream gives a new refresh token at each use and refuses a used   *)
(* one, so the tokens of an account are numbered; an access token goes by  *)
(* the number of the refresh token it came with.                           *)
(*                                                                         *)
(* expires_at is abstracted to what NeedsRefresh makes of it: a token is   *)
(* due when its time has come (expired) or when its copy was marked so.    *)
(* Temporary unschedulability and the scheduler's copy are left out.       *)
(***************************************************************************)
EXTENDS Naturals, FiniteSets

CONSTANTS
  Refreshers,      \* refreshLoop, one in each instance
  Providers,       \* requests in ClaudeTokenProvider.GetAccessToken, then forwarded
  Admins,          \* AccountHandler.Refresh
  Instances,
  Home(_),
  None,
  MaxRetries,      \* cfg.MaxRetries
  MaxExpiries,     \* bound: times the newest stored token comes due
  MaxRequests,     \* bound: rounds of a request, or of an administrator
  MaxUnauthorized, \* bound: answers 401
  MaxGone,         \* bound: clients that disconnect
  MaxFaults,       \* bound: calls that fail, locks that run out under their holder
  MaxCrashes

Workers == Refreshers \cup Providers \cup Admins

ASSUME RefreshConstants ==
  /\ Refreshers \cap Providers = {} /\ (Refreshers \cup Providers) \cap Admins = {}
  /\ IsFiniteSet(Admins)
  /\ None \notin Workers /\ None \notin Nat
  /\ \A w \in Workers : Home(w) \in Instances
  /\ MaxRetries \in Nat \ {0}
  /\ {MaxExpiries, MaxRequests, MaxUnauthorized, MaxGone, MaxFaults, MaxCrashes} \subseteq Nat

VARIABLES
  row,      \* accounts.credentials: refresh token, _token_version, expires_at set to now
  status,   \* accounts.status
  cache,    \* oauth:token:{key}
  lock,     \* oauth:refresh_lock:{key} and who set it; the key itself only holds 1
  mutex,    \* localLocks of each instance
  valid,    \* the refresh token the upstream accepts
  expired,  \* the tokens whose expires_at is within the refresh window: 1 .. expired
  pc,
  given,    \* the account a caller passed in
  acct,     \* freshAccount, then result.Account
  has,      \* lockAcquired
  out,      \* how RefreshIfNeeded returns
  tries,    \* attempt, of a refresher
  gone,     \* requests whose context is cancelled
  rounds,   \* history: rounds begun
  slips,    \* history: what has happened that the lock does not protect from
  unauthorized, faults, crashes

stored  == <<row, status>>
redis   == <<cache, lock>>
world   == <<valid, expired>>
local   == <<mutex, given, acct, has, out, tries>>
bounds  == <<unauthorized, faults, crashes>>
vars    == <<stored, redis, world, pc, local, gone, rounds, slips, bounds>>

Tokens   == 1 .. 1 + MaxExpiries + MaxUnauthorized + MaxRequests * Cardinality(Admins)
Accounts == [token : Tokens, version : Tokens \cup {0}, marked : BOOLEAN]
Outcomes == {"held", "current", "refreshed", "dead", "failed"}
Slips    == {"lost", "unguarded", "restored", "blind"}

\* Between the two locks; with the refresh lock, unless Redis failed.
Locked == {"lock", "reread", "refresh", "recover", "persist", "release"}
Inside == Locked \ {"lock"}

Labels == Locked \cup {"idle", "get", "mutex", "wait", "check", "set", "serve",
                       "forget", "mark", "invalidate", "setError"}

TypeOK ==
  /\ row \in Accounts /\ status \in {"active", "error"}
  /\ cache \in Tokens \cup {None} /\ lock \in Workers \cup {None}
  /\ mutex \in [Instances -> Workers \cup {None}]
  /\ valid \in Tokens /\ expired \in Tokens \cup {0}
  /\ pc \in [Workers -> Labels]
  /\ given \in [Workers -> Accounts] /\ acct \in [Workers -> Accounts]
  /\ has \in [Workers -> BOOLEAN] /\ out \in [Workers -> Outcomes]
  /\ tries \in [Workers -> 0 .. MaxRetries]
  /\ gone \subseteq Providers /\ rounds \in [Workers -> 0 .. MaxRequests]
  /\ slips \subseteq Slips /\ unauthorized \in 0 .. MaxUnauthorized
  /\ faults \in 0 .. MaxFaults /\ crashes \in 0 .. MaxCrashes

Registered == [token |-> 1, version |-> 0, marked |-> FALSE]

Init ==
  /\ row = Registered /\ status = "active" /\ cache = None /\ lock = None
  /\ mutex = [i \in Instances |-> None] /\ valid = 1 /\ expired = 0
  /\ pc = [w \in Workers |-> "idle"]
  /\ given = [w \in Workers |-> Registered] /\ acct = [w \in Workers |-> Registered]
  /\ has = [w \in Workers |-> FALSE] /\ out = [w \in Workers |-> "failed"]
  /\ tries = [w \in Workers |-> 0] /\ gone = {} /\ rounds = [w \in Workers |-> 0]
  /\ slips = {} /\ unauthorized = 0 /\ faults = 0 /\ crashes = 0

-----------------------------------------------------------------------------
(* Control *)

Goto(w, label) == pc' = [pc EXCEPT ![w] = label]

\* RefreshIfNeeded returns by its deferred ReleaseRefreshLock and Unlock.
Return(w, outcome) == Goto(w, "release") /\ out' = [out EXCEPT ![w] = outcome]

Slip(new) == slips' = slips \cup new

\* A call to Redis, the database or the upstream gets through, or does not: it
\* fails of itself, or because the request's context is cancelled.
Works(w) == w \notin gone /\ UNCHANGED faults
Fails(w) ==
  \/ w \in gone /\ UNCHANGED faults
  \/ faults < MaxFaults /\ faults' = faults + 1

\* NeedsRefresh with its comparison turned round.
Due_Early(account) == account.marked \/ account.token > expired

\* NeedsRefresh
Due(account) == account.marked \/ account.token <= expired

\* What stays as it is while a goroutine takes a step of its own.
Environment == <<expired, gone, rounds, unauthorized, crashes>>

-----------------------------------------------------------------------------
(* OAuthRefreshAPI.RefreshIfNeeded *)

LockLocal(w) ==
  /\ pc[w] = "mutex" /\ mutex[Home(w)] = None
  /\ mutex' = [mutex EXCEPT ![Home(w)] = w] /\ Goto(w, "lock")
  /\ UNCHANGED <<stored, redis, valid, given, acct, has, out, tries, slips, faults, Environment>>

\* SetNX; !acquired returns LockHeld, an error goes on without the lock, although
\* the key may have been set.
AcquireRefreshLock_Shared(w) ==
  /\ pc[w] = "lock"
  /\ \/ /\ Works(w) /\ lock' = w /\ has' = [has EXCEPT ![w] = TRUE]
        /\ Goto(w, "reread") /\ UNCHANGED <<out, slips>>
     \/ /\ Fails(w) /\ UNCHANGED <<lock, has, out>> /\ Goto(w, "reread") /\ Slip({"unguarded"})
  /\ UNCHANGED <<stored, cache, valid, mutex, given, acct, tries, Environment>>

AcquireRefreshLock(w) ==
  /\ pc[w] = "lock"
  /\ \/ /\ Works(w) /\ lock = None /\ lock' = w /\ has' = [has EXCEPT ![w] = TRUE]
        /\ Goto(w, "reread") /\ UNCHANGED <<out, slips>>
     \/ /\ Works(w) /\ lock # None /\ Return(w, "held") /\ UNCHANGED <<lock, has, slips>>
     \/ /\ Fails(w) /\ lock' \in {lock} \cup (IF lock = None /\ w \notin gone THEN {w} ELSE {})
        /\ UNCHANGED <<has, out>> /\ Goto(w, "reread") /\ Slip({"unguarded"})
  /\ UNCHANGED <<stored, cache, valid, mutex, given, acct, tries, Environment>>

\* Without an answer of the database the account passed in serves.
Reread(w) ==
  /\ pc[w] = "reread"
  /\ \/ Works(w) /\ acct' = [acct EXCEPT ![w] = row]
     \/ Fails(w) /\ acct' = [acct EXCEPT ![w] = given[w]]
  /\ IF Due(acct'[w]) THEN Goto(w, "refresh") /\ UNCHANGED out ELSE Return(w, "current")
  /\ UNCHANGED <<stored, redis, valid, mutex, given, has, tries, slips, Environment>>

\* The upstream's part of executor.Refresh.
Granted(w)  == acct[w].token = valid /\ valid' = valid + 1
Rejected(w) == acct[w].token # valid /\ valid' = valid

\* executor.Refresh: new credentials, invalid_grant, or an error that can be
\* retried: the answer is lost, or the request.
Refresh(w) ==
  /\ pc[w] = "refresh" /\ w \notin Admins
  /\ \/ Works(w) /\ Granted(w) /\ Goto(w, "persist") /\ UNCHANGED <<out, slips>>
     \/ Works(w) /\ Rejected(w) /\ Goto(w, "recover") /\ UNCHANGED <<out, slips>>
     \/ Fails(w) /\ Granted(w) /\ Return(w, "failed") /\ Slip({"lost"})
     \/ Fails(w) /\ Return(w, "failed") /\ UNCHANGED <<valid, slips>>
  /\ UNCHANGED <<stored, redis, mutex, given, acct, has, tries, Environment>>

\* Any invalid_grant is final.
Recover_Never(w) ==
  /\ pc[w] = "recover" /\ Works(w) /\ Return(w, "dead")
  /\ UNCHANGED <<stored, redis, valid, mutex, given, acct, has, tries, slips, Environment>>

\* tryRecoverFromRefreshRace: a token that has changed was changed by another worker.
Recover(w) ==
  /\ pc[w] = "recover"
  /\ \/ /\ Works(w) /\ row.token # acct[w].token /\ acct' = [acct EXCEPT ![w] = row]
        /\ Return(w, "current") /\ UNCHANGED slips
     \/ /\ Works(w) /\ row.token = acct[w].token /\ Return(w, "dead") /\ UNCHANGED <<acct, slips>>
     \/ /\ Fails(w) /\ Return(w, "dead") /\ Slip({"blind"}) /\ UNCHANGED acct
  /\ UNCHANGED <<stored, redis, valid, mutex, given, has, tries, Environment>>

\* MergeCredentials with its arguments swapped: the old tokens stay.
Renewed_OldWins(account) == [token |-> account.token, version |-> account.token + 1, marked |-> FALSE]

\* The credentials of a refresh: the new tokens, and a new _token_version.
Renewed(account) == [token |-> account.token + 1, version |-> account.token + 1, marked |-> FALSE]

\* persistAccountCredentials replaces the whole map; a failure may have written it.
Persist(w) ==
  /\ pc[w] = "persist" /\ w \notin Admins
  /\ \/ /\ Works(w) /\ row' = Renewed(acct[w]) /\ acct' = [acct EXCEPT ![w] = row']
        /\ Return(w, "refreshed") /\ UNCHANGED slips
     \/ /\ Fails(w) /\ Return(w, "failed") /\ UNCHANGED acct
        /\ \/ row' = row /\ Slip({"lost"})
           \/ row' = Renewed(acct[w]) /\ w \notin gone /\ UNCHANGED slips
  /\ UNCHANGED <<status, redis, valid, mutex, given, has, tries, Environment>>

\* ReleaseRefreshLock deletes the key, whoever has set it since; its error is ignored.
ReleaseRefreshLock(w) ==
  \/ has[w] /\ Works(w) /\ lock' = None
  \/ has[w] /\ Fails(w) /\ lock' = lock
  \/ ~has[w] /\ UNCHANGED <<lock, faults>>

\* refreshWithRetry: tries the account it was given again, unless the attempts are used up.
RetryOrGiveUp(w) ==
  IF out[w] = "failed" /\ tries[w] < MaxRetries
  THEN Goto(w, "mutex") /\ tries' = [tries EXCEPT ![w] = @ + 1]
  ELSE /\ Goto(w, CASE out[w] = "refreshed" -> "invalidate" [] out[w] = "dead" -> "setError" [] OTHER -> "idle")
       /\ UNCHANGED tries

\* GetAccessToken: with the account of the result, or after an error with the one given.
UseResult(w) ==
  /\ Goto(w, IF out[w] = "held" THEN "wait" ELSE "check")
  /\ acct' = [acct EXCEPT ![w] = IF out[w] \in {"current", "refreshed"} THEN @ ELSE given[w]]

Release(w) ==
  /\ pc[w] = "release" /\ ReleaseRefreshLock(w)
  /\ mutex' = [mutex EXCEPT ![Home(w)] = None] /\ has' = [has EXCEPT ![w] = FALSE]
  /\ IF w \in Refreshers THEN RetryOrGiveUp(w) /\ UNCHANGED acct ELSE UseResult(w) /\ UNCHANGED tries
  /\ UNCHANGED <<stored, cache, valid, given, out, slips, Environment>>

-----------------------------------------------------------------------------
(* TokenRefreshService *)

\* processRefresh: ListActive, then NeedsRefresh of the copy listed.
StartCycle(w) ==
  /\ w \in Refreshers /\ pc[w] = "idle" /\ status = "active" /\ Due(row)
  /\ given' = [given EXCEPT ![w] = row] /\ tries' = [tries EXCEPT ![w] = 1] /\ Goto(w, "mutex")
  /\ UNCHANGED <<stored, redis, valid, mutex, acct, has, out, slips, faults, Environment>>

\* InvalidateToken, after a refresh by a refresher or an administrator.
Invalidate(w) ==
  /\ pc[w] = "invalidate" /\ Goto(w, "idle")
  /\ \/ Works(w) /\ cache' = None
     \/ Fails(w) /\ cache' = cache
  /\ UNCHANGED <<stored, lock, valid, local, slips, Environment>>

\* SetError, for an error that no retry can mend.
SetError(w) ==
  /\ pc[w] = "setError" /\ Goto(w, "idle")
  /\ \/ Works(w) /\ status' = "error"
     \/ Fails(w) /\ status' = status
  /\ UNCHANGED <<row, redis, valid, local, slips, Environment>>

-----------------------------------------------------------------------------
(* ClaudeTokenProvider and the request it serves *)

\* A request has picked the account and asks for its token.
StartRequest(w) ==
  /\ w \in Providers /\ pc[w] = "idle" /\ status = "active" /\ rounds[w] < MaxRequests
  /\ rounds' = [rounds EXCEPT ![w] = @ + 1] /\ gone' = gone \ {w}
  /\ given' = [given EXCEPT ![w] = row] /\ Goto(w, "get")
  /\ UNCHANGED <<stored, redis, world, mutex, acct, has, out, tries, slips, bounds>>

\* The cache; without a token there, RefreshIfNeeded for an account that is due.
GetCached(w) ==
  /\ pc[w] = "get"
  /\ \/ Works(w) /\ cache # None /\ Goto(w, "serve") /\ UNCHANGED acct
     \/ /\ (Works(w) /\ cache = None) \/ Fails(w)
        /\ IF Due(given[w]) THEN Goto(w, "mutex") ELSE Goto(w, "check")
        /\ acct' = [acct EXCEPT ![w] = given[w]]
  /\ UNCHANGED <<stored, redis, valid, mutex, given, has, out, tries, slips, Environment>>

\* ProviderLockHeldWaitForCache: sleeps, looks once more, or uses the token it has.
WaitForCache(w) ==
  /\ pc[w] = "wait"
  /\ \/ Works(w) /\ Goto(w, IF cache # None THEN "serve" ELSE "check")
     \/ Fails(w) /\ Goto(w, "check")
  /\ UNCHANGED <<stored, redis, valid, local, slips, Environment>>

\* CheckTokenVersion: an account that is older than the stored one is not cached.
CheckTokenVersion(w) ==
  /\ pc[w] = "check"
  /\ \/ Works(w) /\ Goto(w, IF row.version > acct[w].version THEN "serve" ELSE "set")
     \/ Fails(w) /\ Goto(w, "set")
  /\ UNCHANGED <<stored, redis, valid, local, slips, Environment>>

SetAccessToken(w) ==
  /\ pc[w] = "set" /\ Goto(w, "serve")
  /\ \/ Works(w) /\ cache' = acct[w].token
     \/ Fails(w) /\ cache' = cache
  /\ UNCHANGED <<stored, lock, valid, local, slips, Environment>>

\* The upstream serves the request, or fails it for another reason than its token.
Serve(w) ==
  /\ pc[w] = "serve" /\ Goto(w, "idle")
  /\ UNCHANGED <<stored, redis, valid, local, slips, faults, Environment>>

\* The upstream answers 401.
Unauthorized(w) ==
  /\ pc[w] = "serve" /\ unauthorized < MaxUnauthorized /\ unauthorized' = unauthorized + 1
  /\ Goto(w, "forget")
  /\ UNCHANGED <<stored, redis, world, local, gone, rounds, slips, faults, crashes>>

\* HandleUpstreamError, 401: InvalidateToken, ...
ForgetToken(w) ==
  /\ pc[w] = "forget" /\ Goto(w, "mark")
  /\ \/ Works(w) /\ cache' = None
     \/ Fails(w) /\ cache' = cache
  /\ UNCHANGED <<stored, lock, valid, local, slips, Environment>>

\* ... then the request's own copy of the credentials, with expires_at set to now,
\* replaces the stored ones.
MarkExpired(w) ==
  /\ pc[w] = "mark" /\ Goto(w, "idle")
  /\ \/ /\ Works(w) /\ row' = [given[w] EXCEPT !.marked = TRUE]
        /\ Slip(IF given[w].token # row.token THEN {"restored"} ELSE {})
     \/ Fails(w) /\ UNCHANGED <<row, slips>>
  /\ UNCHANGED <<status, redis, valid, local, Environment>>

-----------------------------------------------------------------------------
(* AccountHandler.Refresh *)

\* GetAccount, then refreshSingleAccount, which takes neither lock.
StartManual(w) ==
  /\ w \in Admins /\ pc[w] = "idle" /\ rounds[w] < MaxRequests
  /\ rounds' = [rounds EXCEPT ![w] = @ + 1] /\ Slip({"unguarded"})
  /\ acct' = [acct EXCEPT ![w] = row] /\ Goto(w, "refresh")
  /\ UNCHANGED <<stored, redis, world, mutex, given, has, out, tries, gone, bounds>>

\* RefreshAccountToken; its errors end the administrator's request.
ManualRefresh(w) ==
  /\ pc[w] = "refresh" /\ w \in Admins
  /\ \/ Works(w) /\ Granted(w) /\ Goto(w, "persist") /\ UNCHANGED slips
     \/ Works(w) /\ Rejected(w) /\ Goto(w, "idle") /\ UNCHANGED slips
     \/ Fails(w) /\ Granted(w) /\ Goto(w, "idle") /\ Slip({"lost"})
     \/ Fails(w) /\ Goto(w, "idle") /\ UNCHANGED <<valid, slips>>
  /\ UNCHANGED <<stored, redis, local, Environment>>

\* UpdateAccount with the new tokens, under the _token_version the account had.
UpdateAccount(w) ==
  /\ pc[w] = "persist" /\ w \in Admins
  /\ \/ /\ Works(w) /\ Goto(w, "invalidate") /\ UNCHANGED slips
        /\ row' = [Renewed(acct[w]) EXCEPT !.version = acct[w].version]
     \/ /\ Fails(w) /\ Goto(w, "idle")
        /\ \/ row' = row /\ Slip({"lost"})
           \/ row' = [Renewed(acct[w]) EXCEPT !.version = acct[w].version] /\ UNCHANGED slips
  /\ UNCHANGED <<status, redis, valid, local, Environment>>

-----------------------------------------------------------------------------
(* The surroundings *)

\* The newest stored token comes within the refresh window.
Expire ==
  /\ expired < row.token /\ row.token <= MaxExpiries /\ expired' = row.token
  /\ UNCHANGED <<stored, redis, valid, pc, local, gone, rounds, slips, bounds>>

\* The lock's time to live: of a lock nobody will release, or, as a fault, of one
\* whose holder is still at work.
LockExpires_Never ==
  /\ lock # None /\ has[lock] /\ lock' = None
  /\ Slip({"unguarded"}) /\ faults < MaxFaults /\ faults' = faults + 1
  /\ UNCHANGED <<stored, cache, world, pc, local, gone, rounds, unauthorized, crashes>>

LockExpires ==
  /\ lock # None /\ lock' = None
  /\ IF has[lock] THEN Slip({"unguarded"}) /\ faults < MaxFaults /\ faults' = faults + 1
                  ELSE UNCHANGED <<slips, faults>>
  /\ UNCHANGED <<stored, cache, world, pc, local, gone, rounds, unauthorized, crashes>>

\* The cached token's time to live.
CacheExpires ==
  /\ cache # None /\ cache' = None
  /\ UNCHANGED <<stored, lock, world, pc, local, gone, rounds, slips, bounds>>

\* The client of a request goes away: the request's context is cancelled.
Disconnect(w) ==
  /\ w \in Providers \ gone /\ pc[w] # "idle" /\ Cardinality(gone) < MaxGone
  /\ gone' = gone \cup {w}
  /\ UNCHANGED <<stored, redis, world, pc, local, rounds, slips, bounds>>

\* An instance stops; the goroutines that replace its own have no lock.
Crash(i) ==
  /\ crashes < MaxCrashes /\ crashes' = crashes + 1
  /\ LET hit == {w \in Workers : Home(w) = i /\ pc[w] # "idle"} IN
     /\ hit # {}
     /\ pc'  = [w \in Workers |-> IF w \in hit THEN "idle" ELSE pc[w]]
     /\ has' = [w \in Workers |-> w \notin hit /\ has[w]]
     /\ Slip(IF \E w \in hit : pc[w] = "persist" THEN {"lost"} ELSE {})
  /\ mutex' = [mutex EXCEPT ![i] = None]
  /\ UNCHANGED <<stored, redis, world, given, acct, out, tries, gone, rounds, unauthorized, faults>>

-----------------------------------------------------------------------------
RefreshStep(w) ==
  LockLocal(w) \/ AcquireRefreshLock(w) \/ Reread(w) \/ Refresh(w) \/ Recover(w) \/ Persist(w) \/ Release(w)

RefresherStep(w) == StartCycle(w) \/ Invalidate(w) \/ SetError(w)

ProviderStep(w) ==
  \/ GetCached(w) \/ WaitForCache(w) \/ CheckTokenVersion(w) \/ SetAccessToken(w)
  \/ ForgetToken(w) \/ MarkExpired(w)

ManualStep(w) == ManualRefresh(w) \/ UpdateAccount(w)

Starts(w) == StartRequest(w) \/ StartManual(w)

Next ==
  \/ \E w \in Workers :
       \/ RefreshStep(w) \/ RefresherStep(w) \/ ProviderStep(w) \/ ManualStep(w)
       \/ Starts(w) \/ Serve(w) \/ Unauthorized(w) \/ Disconnect(w)
  \/ \E i \in Instances : Crash(i)
  \/ Expire \/ LockExpires \/ CacheExpires

Spec == Init /\ [][Next]_vars

\* Goroutines go on, refreshLoop comes round, a lock without a holder runs out.
\* Requests and administrators need not come, tokens need not expire.
FairSpec ==
  /\ Spec /\ WF_vars(LockExpires)
  /\ \A w \in Workers : WF_vars(RefreshStep(w) \/ RefresherStep(w) \/ ProviderStep(w) \/ ManualStep(w))

-----------------------------------------------------------------------------
(* Properties *)

\* While no refresh has run beside the lock (Redis failed, the lock ran out under its
\* holder, an administrator refreshed), one goroutine at most is between RefreshIfNeeded's
\* acquisition of the lock and its release, whatever DEL has deleted.
OneRefresh ==
  "unguarded" \notin slips => Cardinality({w \in Workers : pc[w] \in Inside \ {"release"}}) <= 1

\* The stored refresh token is the one the upstream accepts, or its successor is on its
\* way to the database, unless an answer or a write was lost or a 401 brought an older
\* copy back: no interleaving of refreshes, guarded or not, loses a token by itself.
StoredIsValid ==
  \/ row.token = valid \/ slips \cap {"lost", "restored"} # {}
  \/ \E w \in Workers : pc[w] = "persist" /\ acct[w].token = row.token /\ valid = row.token + 1

\* SetError marks only an account whose stored token the upstream no longer accepts,
\* although a refresher may have used an old copy: the race is recovered from, unless
\* the refresh ran beside the lock or the second look at the database failed.
ErrorMeansDead ==
  status = "error" => row.token # valid \/ slips \cap {"unguarded", "restored", "blind"} # {}

\* An account whose token comes due is refreshed, or taken out of service.
RefreshedOrRetired == Due(row) ~> ~Due(row) \/ status = "error"

\* A 401 never costs the account its active status (HandleUpstreamError "keeps
\* status=active so that the refresh service can pick it up").
StaysActive == status = "active"

=============================================================================
