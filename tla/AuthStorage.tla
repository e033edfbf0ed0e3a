----------------------------- MODULE AuthStorage -----------------------------
(***************************************************************************)
(* class AuthStorage over FileAuthStorageBackend (packages/coding-agent/src/  *)
(* core/auth-storage.ts): several processes keep credentials in auth.json,     *)
(* and refresh a login whose access token has expired.  A refresh token is      *)
(* exchanged once; the exchange is a network call made under the lock.          *)
(*                                                                           *)
(* Synchronous code of a process is interrupted by other processes only; at a   *)
(* file operation an action ends.  proper-lockfile and the login provider are    *)
(* external.                                                                    *)
(***************************************************************************)
EXTENDS Integers, FiniteSets

CONSTANTS Processes, MaxTokens, \* bound: refresh tokens the provider hands out
          MaxWrites             \* bound: calls of set()
ASSUME AuthAssumption == MaxTokens \in Nat \ {0} /\ MaxWrites \in Nat

VARIABLES
  authFile,   \* auth.json: the refresh token, and whose API keys it holds
  locks,      \* the lock directories
  authSymlink,\* auth.json is a symbolic link
  data, loadError, \* of each process
  at,         \* of each process: the next file operation of its synchronous call
  purpose,    \* ... and that call
  current,    \* ... and what it has read
  refresh,    \* of each process: "none", "locking", "asking"
  base,       \* ... and what it has read
  reply,      \* what the provider answered
  compromised,\* onCompromised was called
  serverToken, expired, \* the provider's refresh token, and the last expired one
  \* history and bounds
  loggedIn,   \* auth.json held a login when the processes started
  stored,     \* keys whose set() wrote them
  writes,
  spent,      \* a refresh token was sent that had been exchanged
  stolen, blanked, lost \* what the locks do not prevent
authVars == <<authFile, locks, authSymlink, data, loadError, at, purpose, current, refresh, base,
              reply, compromised, serverToken, expired, loggedIn, stored, writes, spent,
              stolen, blanked, lost>>

NoToken == 0
EmptyData == [oauth |-> NoToken, keys |-> {}]
NoFileYet == [oauth |-> -1, keys |-> {}]
Credentials == [oauth : 0..MaxTokens, keys : SUBSET Processes]
Unlocked == [held |-> FALSE]
Held(p, async) == [held |-> TRUE, by |-> p, async |-> async, aged |-> FALSE]

AuthTypeOK ==
  /\ authFile \in Credentials \cup {NoFileYet}
  /\ locks \in [{"path", "real"} -> {Unlocked} \cup
                  [held : {TRUE}, by : Processes, async : BOOLEAN, aged : BOOLEAN]]
  /\ authSymlink \in BOOLEAN
  /\ data \in [Processes -> Credentials] /\ loadError \in [Processes -> BOOLEAN]
  /\ at \in [Processes -> {"idle", "create", "lock", "write"}]
  /\ purpose \in [Processes -> {"set", "reload", "refresh"}]
  /\ current \in [Processes -> Credentials]
  /\ refresh \in [Processes -> {"none", "locking", "asking"}]
  /\ base \in [Processes -> Credentials]
  /\ reply \in [Processes -> 0..MaxTokens] /\ compromised \in [Processes -> BOOLEAN]
  /\ serverToken \in 1..MaxTokens /\ expired \in 0..MaxTokens
  /\ loggedIn \in BOOLEAN /\ stored \subseteq Processes /\ writes \in 0..MaxWrites
  /\ {spent, stolen, blanked, lost} \subseteq BOOLEAN

AuthInit ==
  /\ authFile \in {NoFileYet, [oauth |-> 1, keys |-> {}]}
  /\ locks = [n \in {"path", "real"} |-> Unlocked]
  /\ authSymlink \in {FALSE, authFile # NoFileYet}
  /\ data = [p \in Processes |-> IF authFile = NoFileYet THEN EmptyData ELSE authFile]
  /\ loadError = [p \in Processes |-> FALSE]
  /\ at = [p \in Processes |-> "idle"] /\ purpose = [p \in Processes |-> "set"]
  /\ current = [p \in Processes |-> EmptyData]
  /\ refresh = [p \in Processes |-> "none"] /\ base = [p \in Processes |-> EmptyData]
  /\ reply = [p \in Processes |-> NoToken]
  /\ compromised = [p \in Processes |-> FALSE]
  /\ serverToken = 1 /\ expired = 0
  /\ loggedIn = (authFile # NoFileYet)
  /\ stored = {} /\ writes = 0
  /\ spent = FALSE /\ stolen = FALSE /\ blanked = FALSE /\ lost = FALSE

-----------------------------------------------------------------------------
(* The lock: lockSync is told not to resolve links, lock() does.              *)
LockName(async) == IF authSymlink /\ async THEN "real" ELSE "path"
Lock(p, async) == [locks EXCEPT ![LockName(async)] = Held(p, async)]
Released(async) == [locks EXCEPT ![LockName(async)] = Unlocked]

\* A lock untouched for as long as the taker's `stale` is taken over: ten seconds
\* for lockSync, while lock() touches its own every fifteen.
MayLockSync == locks["path"].held => (locks["path"].async /\ locks["path"].aged)
Steals == locks["path"].held

\* Mutant: what the process remembers stands for the file.
Remembered(p) == data[p]

\* What is read under the lock.
UnderLock(p) == authFile

\* A synchronous call starts: ensureFileExists looks.
EnsureFileExists(p, why) ==
  /\ purpose' = [purpose EXCEPT ![p] = why]
  /\ at' = [at EXCEPT ![p] = IF authFile = NoFileYet THEN "create" ELSE "lock"]

\* ... and is over.
Returns(p) ==
  at' = [at EXCEPT ![p] = "idle"] /\ purpose' = [purpose EXCEPT ![p] = "set"]

\* set(): in memory at once, and into the file unless the last reload failed.
Set(p) ==
  /\ at[p] = "idle" /\ writes < MaxWrites
  /\ writes' = writes + 1
  /\ data' = [data EXCEPT ![p].keys = @ \cup {p}]
  /\ IF loadError[p] THEN UNCHANGED <<at, purpose>> ELSE EnsureFileExists(p, "set")
  /\ UNCHANGED <<authFile, locks, authSymlink, loadError, current, refresh, base, reply,
                 compromised, serverToken, expired, stored, spent, stolen, blanked, lost>>

\* getApiKey() finds the access token expired.
GetApiKey(p) ==
  /\ at[p] = "idle" /\ refresh[p] = "none"
  /\ data[p].oauth # NoToken /\ data[p].oauth <= expired
  /\ EnsureFileExists(p, "refresh")
  /\ UNCHANGED <<authFile, locks, authSymlink, data, loadError, current, refresh, base, reply,
                 compromised, serverToken, expired, stored, writes, spent, stolen, blanked, lost>>

\* writeFileSync(authPath, "{}"), whatever another process has made of the file since.
CreateFile(p) ==
  /\ at[p] = "create"
  /\ at' = [at EXCEPT ![p] = "lock"]
  /\ authFile' = EmptyData
  /\ blanked' = (blanked \/ authFile \notin {NoFileYet, EmptyData})
  /\ UNCHANGED <<locks, authSymlink, data, loadError, purpose, current, refresh, base, reply,
                 compromised, serverToken, expired, stored, writes, spent, stolen, lost>>

\* withLock up to the write; a reload only reads.
LockSync(p) ==
  /\ at[p] = "lock" /\ purpose[p] # "refresh" /\ MayLockSync
  /\ stolen' = (stolen \/ Steals)
  /\ IF purpose[p] = "reload"
     THEN /\ data' = [data EXCEPT ![p] = UnderLock(p)]
          /\ loadError' = [loadError EXCEPT ![p] = FALSE]
          /\ locks' = Released(FALSE)
          /\ Returns(p)
          /\ UNCHANGED current
     ELSE /\ locks' = Lock(p, FALSE)
          /\ current' = [current EXCEPT ![p] = UnderLock(p)]
          /\ at' = [at EXCEPT ![p] = "write"]
          /\ UNCHANGED <<data, loadError, purpose>>
  /\ UNCHANGED <<authFile, authSymlink, refresh, base, reply, compromised, serverToken,
                 expired, stored, writes, spent, blanked, lost>>

\* Ten attempts within 200 ms outlast a synchronous holder, not a refresh.
LockSyncFails(p) ==
  /\ at[p] = "lock" /\ purpose[p] # "refresh"
  /\ locks["path"].held /\ locks["path"].async
  /\ Returns(p)
  /\ loadError' = [loadError EXCEPT ![p] = (@ \/ purpose[p] = "reload")]
  /\ UNCHANGED <<authFile, locks, authSymlink, data, current, refresh, base, reply,
                 compromised, serverToken, expired, stored, writes, spent, stolen, blanked, lost>>

WriteSync(p) ==
  /\ at[p] = "write"
  /\ Returns(p) /\ current' = [current EXCEPT ![p] = EmptyData]
  /\ authFile' = [current[p] EXCEPT !.keys = @ \cup {p}]
  /\ stored' = stored \cup {p}
  /\ locks' = Released(FALSE)
  /\ UNCHANGED <<authSymlink, data, loadError, refresh, base, reply, compromised, serverToken,
                 expired, writes, spent, stolen, blanked, lost>>

-----------------------------------------------------------------------------
(* refreshOAuthTokenWithLock.                                                *)

\* withLockAsync starts to wait for the lock.
StartLocking(p) ==
  /\ at[p] = "lock" /\ purpose[p] = "refresh"
  /\ Returns(p)
  /\ refresh' = [refresh EXCEPT ![p] = "locking"]
  /\ UNCHANGED <<authFile, locks, authSymlink, data, loadError, current, base,
                 reply, compromised, serverToken, expired, stored, writes, spent, stolen, blanked,
                 lost>>

\* Under the lock the file is read again; only a token that is still expired is sent.
\* The provider exchanges it, refuses it, or cannot be reached, or its answer is lost.
LockAndAsk(p) ==
  LET cred == UnderLock(p)
      exchange == /\ cred.oauth = serverToken /\ serverToken < MaxTokens
                  /\ serverToken' = serverToken + 1
  IN /\ refresh[p] = "locking" /\ at[p] = "idle"
     /\ ~locks[LockName(TRUE)].held
     /\ data' = [data EXCEPT ![p] = cred] /\ loadError' = [loadError EXCEPT ![p] = FALSE]
     /\ IF cred.oauth = NoToken \/ cred.oauth > expired
        THEN /\ refresh' = [refresh EXCEPT ![p] = "none"]
             /\ UNCHANGED <<locks, base, reply, serverToken, spent, lost>>
        ELSE /\ refresh' = [refresh EXCEPT ![p] = "asking"]
             /\ base' = [base EXCEPT ![p] = cred]
             /\ locks' = Lock(p, TRUE)
             /\ spent' = (spent \/ cred.oauth # serverToken)
             /\ \/ exchange /\ reply' = [reply EXCEPT ![p] = serverToken'] /\ UNCHANGED lost
                \/ exchange /\ reply' = [reply EXCEPT ![p] = NoToken] /\ lost' = TRUE
                \/ reply' = [reply EXCEPT ![p] = NoToken] /\ UNCHANGED <<serverToken, lost>>
     /\ UNCHANGED <<authFile, authSymlink, at, purpose, current, compromised, expired, stored,
                    writes, stolen, blanked>>

\* getApiKey()'s catch: reload(), to see whether another process succeeded.
Fail(p) ==
  /\ refresh' = [refresh EXCEPT ![p] = "none"]
  /\ EnsureFileExists(p, "reload")

LockAsyncFails(p) ==
  /\ refresh[p] = "locking" /\ at[p] = "idle" /\ locks[LockName(TRUE)].held
  /\ Fail(p)
  /\ UNCHANGED <<authFile, locks, authSymlink, data, loadError, current, base, reply, compromised,
                 serverToken, expired, stored, writes, spent, stolen, blanked, lost>>

\* The answer is there: written, unless the lock is known to be lost.
Refreshed(p) ==
  LET merged == [base[p] EXCEPT !.oauth = reply[p]] IN
  /\ refresh[p] = "asking" /\ at[p] = "idle"
  /\ locks' = Released(TRUE)
  /\ base' = [base EXCEPT ![p] = EmptyData] /\ reply' = [reply EXCEPT ![p] = NoToken]
  /\ compromised' = [compromised EXCEPT ![p] = FALSE]
  /\ IF reply[p] = NoToken
     THEN Fail(p) /\ UNCHANGED <<authFile, data>>
     ELSE /\ data' = [data EXCEPT ![p] = merged]
          /\ IF compromised[p]
             THEN Fail(p) /\ UNCHANGED authFile
             ELSE /\ authFile' = merged
                  /\ refresh' = [refresh EXCEPT ![p] = "none"]
                  /\ UNCHANGED <<at, purpose>>
  /\ UNCHANGED <<authSymlink, loadError, current, serverToken, expired, stored, writes, spent,
                 stolen, blanked, lost>>

\* Ten seconds pass; then the holder touches its lock, or finds it gone.
LockAges(n) ==
  /\ locks[n].held /\ locks[n].async /\ ~locks[n].aged
  /\ locks' = [locks EXCEPT ![n].aged = TRUE]
  /\ UNCHANGED <<authFile, authSymlink, data, loadError, at, purpose, current, refresh, base,
                 reply, compromised, serverToken, expired, stored, writes, spent, stolen,
                 blanked, lost>>

LockUpdate(p) ==
  LET n == LockName(TRUE)
      mine == locks[n].held /\ locks[n].async /\ locks[n].by = p
  IN /\ refresh[p] = "asking" /\ at[p] = "idle"
     /\ mine => locks[n].aged
     /\ locks' = IF mine THEN [locks EXCEPT ![n].aged = FALSE] ELSE locks
     /\ compromised' = [compromised EXCEPT ![p] = ~mine]
     /\ UNCHANGED <<authFile, authSymlink, data, loadError, at, purpose, current, refresh, base,
                    reply, serverToken, expired, stored, writes, spent, stolen, blanked, lost>>

\* The access token of the last login expires.
Expires ==
  /\ expired < serverToken /\ serverToken < MaxTokens
  /\ expired' = serverToken
  /\ UNCHANGED <<authFile, locks, authSymlink, data, loadError, at, purpose, current, refresh, base,
                 reply, compromised, serverToken, stored, writes, spent, stolen, blanked, lost>>

AuthNext ==
  /\ \/ \E p \in Processes :
          \/ Set(p) \/ GetApiKey(p) \/ CreateFile(p) \/ LockSync(p) \/ LockSyncFails(p)
          \/ WriteSync(p) \/ StartLocking(p) \/ LockAndAsk(p) \/ LockAsyncFails(p)
          \/ Refreshed(p) \/ LockUpdate(p)
     \/ \E n \in {"path", "real"} : LockAges(n)
     \/ Expires
  /\ UNCHANGED loggedIn

AuthSpec == AuthInit /\ [][AuthNext]_authVars

-----------------------------------------------------------------------------
\* "Refresh OAuth token with backend locking to prevent race conditions"
\* (auth-storage.ts:397): no process sends a refresh token another has exchanged,
\* as long as the lock is not taken over and the answer to an exchange not lost.
NoSpentTokenSent == spent => stolen \/ authSymlink \/ lost

\* Concurrent writers keep each other's credentials.  A login is never dropped from
\* the file, whatever becomes of the locks.  The file has every key that was set, and
\* the very token the provider accepts, unless that is still on its way; but not
\* where the lock was taken over, has two names, a file was blanked or an answer lost.
CredentialsKept ==
  /\ loggedIn => authFile.oauth > NoToken
  /\ \/ stolen \/ authSymlink \/ blanked \/ lost
     \/ /\ stored \subseteq authFile.keys
        /\ loggedIn => \/ authFile.oauth = serverToken
                       \/ \E p \in Processes : refresh[p] = "asking" /\ reply[p] = serverToken

\* Nobody is logged out: the login is in the file, its token is good, and all the
\* keys are there.
LoginsKept == NoSpentTokenSent /\ CredentialsKept

\* "Uses file locking to prevent race conditions when multiple pi instances try to
\* refresh tokens simultaneously" (auth-storage.ts:5): checked by no run, because a
\* synchronous call takes a refresh's lock over when it is ten seconds old.
LocksPreventRaces == spent => authSymlink \/ lost
=============================================================================
