-------------------------------- MODULE Auth --------------------------------
(***************************************************************************)
(* Accounts and tokens: AuthService registers users and logs them in,      *)
(* TokenManager issues, verifies, revokes and refreshes their tokens.      *)
(*                                                                         *)
(* Nothing in the program calls invalidateToken or refreshToken yet: no    *)
(* HTTP request of today revokes or refreshes a token.  The model calls    *)
(* them as a handler would, with tokens that were issued, so what it shows *)
(* of revocation is shown of TokenManager's interface.                     *)
(*                                                                         *)
(* HTTP threads run the requests concurrently.  Every call to Redis or     *)
(* MySQL is one step.  A registration writes the account to the cache and  *)
(* publishes its INSERT, which is executed at some later time (the way of  *)
(* the message is SubmissionFlow's).  A cache entry may lapse at any time. *)
(*                                                                         *)
(* Time is counted in ticks, PerSecond of them a second, because a token   *)
(* knows seconds only: two tokens of one user issued in one second are the *)
(* same string.  The clocks of the server and of Redis agree.              *)
(*                                                                         *)
(* Faults, at most MaxFaults of them: a call that throws and so ends its   *)
(* request, a published INSERT that is lost.                               *)
(***************************************************************************)
EXTENDS Naturals, FiniteSets

CONSTANTS Threads,     \* HTTP threads
          Names,       \* user names
          Passwords,   \* passwords
          PerSecond,   \* ticks of a second
          ExpireTime,  \* JWT_EXPIRE, in seconds
          MaxAccounts, \* bound: registrations that reach the cache
          MaxTime,     \* bound: ticks
          MaxRequests, \* bound: requests in a behaviour
          MaxFaults,   \* bound: faults in a behaviour
          None         \* nothing stored, nothing held

ASSUME TimeAssumption == PerSecond \in Nat \ {0} /\ ExpireTime \in Nat \ {0}

ASSUME BoundsAssumption == {MaxAccounts, MaxTime, MaxRequests, MaxFaults} \subseteq Nat

VARIABLES now,      \* the time
          cache,    \* name -> account in Redis (by user name), or None
          users,    \* name -> row of the table users, or None
          inserts,  \* accounts whose INSERT is published
          active,   \* user -> [token, until]: the key m_ActivePrefix + user
          black,    \* token -> until: the key m_BlacklistPrefix + token
          req,      \* thread -> the request it is handling
          accounts, \* accounts that were put into the cache
          logins,   \* users that were logged in, and with which password
          granted,  \* tokens that were returned
          ended,    \* tokens that were replaced or whose entry was deleted
          revoked,  \* tokens for which invalidateToken returned true
          requests, \* number of requests so far
          faults    \* number of faults so far

store == <<cache, users, inserts>>
keys  == <<active, black>>
books == <<accounts, logins, granted, ended, revoked>>
vars  == <<now, store, keys, req, books, requests, faults>>

Users    == 1..MaxAccounts
Accounts == [user : Users, name : Names, pwd : Passwords]
Seconds  == 0..(MaxTime \div PerSecond)
Tokens   == [user : Users, iat : Seconds]

Forever == MaxTime + 1 + PerSecond * ExpireTime

Times == 0..Forever

ASSUME NoneAssumption == None \notin Accounts \cup [tok : Tokens, until : Times] \cup Times

(* A token is good up to the instant Exp. *)
Exp(t) == PerSecond * (t.iat + ExpireTime)

Idle == [at |-> "idle", name |-> None, pwd |-> None, acct |-> None, tok |-> None,
         ttl |-> 0, refresh |-> FALSE, stale |-> FALSE]

Goto(h, pc) == req' = [req EXCEPT ![h].at = pc]

Done(h) == req' = [req EXCEPT ![h] = Idle]

(* Thread h begins to handle request r. *)
Begin(h, r) == /\ req[h] = Idle
               /\ requests < MaxRequests
               /\ requests' = requests + 1
               /\ req' = [req EXCEPT ![h] = r]

Fault == faults < MaxFaults /\ faults' = faults + 1

-----------------------------------------------------------------------------
Init == /\ now = 0
        /\ cache = [n \in Names |-> None]
        /\ users = [n \in Names |-> None]
        /\ inserts = {}
        /\ active = [u \in Users |-> None]
        /\ black = [t \in Tokens |-> None]
        /\ req = [h \in Threads |-> Idle]
        /\ accounts = {} /\ logins = {} /\ granted = {} /\ ended = {} /\ revoked = {}
        /\ requests = 0 /\ faults = 0

-----------------------------------------------------------------------------
(* registryService.                                                        *)

(* queryUserNameExist: who is in the cache does not exist.  The password   *)
(* is hashed on the way to the cache.                                      *)
RegisterExists(h, n, p) ==
    /\ Begin(h, [Idle EXCEPT
                 !.at = IF cache[n] # None THEN "r_cache" ELSE "r_query",
                 !.name = n, !.pwd = p])
    /\ UNCHANGED <<now, store, keys, books, faults>>

(* queryUserNameExist: the table.  A known name is answered 409.           *)
RegisterQuery(h) ==
    /\ req[h].at = "r_query"
    /\ IF users[req[h].name] # None THEN Done(h) ELSE Goto(h, "r_cache")
    /\ UNCHANGED <<now, store, keys, books, requests, faults>>

(* The registration that gives a name that is known to the cache the       *)
(* user_uuid that the name has there.                                      *)
RegisterCacheKeepsId(h) ==
    /\ req[h].at = "r_cache"
    /\ Cardinality(accounts) < MaxAccounts
    /\ LET a == [user |-> IF cache[req[h].name] = None THEN Cardinality(accounts) + 1
                         ELSE cache[req[h].name].user,
                 name |-> req[h].name, pwd |-> req[h].pwd]
       IN  /\ cache' = [cache EXCEPT ![a.name] = a]
           /\ accounts' = accounts \cup {a}
           /\ req' = [req EXCEPT ![h].at = "r_publish", ![h].acct = a]
    /\ UNCHANGED <<now, users, inserts, keys, logins, granted, ended, revoked,
                   requests, faults>>

(* The account gets a fresh user_uuid and replaces what the cache has.     *)
RegisterCache(h) ==
    /\ req[h].at = "r_cache"
    /\ Cardinality(accounts) < MaxAccounts
    /\ LET a == [user |-> Cardinality(accounts) + 1, name |-> req[h].name,
                 pwd |-> req[h].pwd]
       IN  /\ cache' = [cache EXCEPT ![a.name] = a]
           /\ accounts' = accounts \cup {a}
           /\ req' = [req EXCEPT ![h].at = "r_publish", ![h].acct = a]
    /\ UNCHANGED <<now, users, inserts, keys, logins, granted, ended, revoked,
                   requests, faults>>

(* The INSERT is published, and the request answered 201.                  *)
RegisterPublish(h) ==
    /\ req[h].at = "r_publish"
    /\ inserts' = inserts \cup {req[h].acct}
    /\ Done(h)
    /\ UNCHANGED <<now, cache, users, keys, books, requests, faults>>

(* A published INSERT is executed: users.username is unique.               *)
ExecuteInsert ==
    /\ \E a \in inserts :
          /\ inserts' = inserts \ {a}
          /\ users' = [users EXCEPT ![a.name] = IF @ = None THEN a ELSE @]
    /\ UNCHANGED <<now, cache, keys, req, books, requests, faults>>

LoseInsert ==
    /\ Fault
    /\ \E a \in inserts : inserts' = inserts \ {a}
    /\ UNCHANGED <<now, cache, users, keys, req, books, requests>>

CacheLapses ==
    /\ \E n \in Names : cache[n] # None /\ cache' = [cache EXCEPT ![n] = None]
    /\ UNCHANGED <<now, users, inserts, keys, req, books, requests, faults>>

-----------------------------------------------------------------------------
(* loginService.                                                           *)

(* The queryUserNameExist that believes the cache.                         *)
LoginExistsCached(h, n, p) ==
    /\ Begin(h, [Idle EXCEPT
                 !.at = IF cache[n] # None THEN "l_get" ELSE "l_query",
                 !.name = n, !.pwd = p])
    /\ UNCHANGED <<now, store, keys, books, faults>>

(* queryUserNameExist: who is in the cache is answered 401, unknown.       *)
LoginExists(h, n, p) ==
    /\ cache[n] = None
    /\ Begin(h, [Idle EXCEPT !.at = "l_query", !.name = n, !.pwd = p])
    /\ UNCHANGED <<now, store, keys, books, faults>>

(* queryUserNameExist: the table.  An unknown name is answered 401.        *)
LoginQuery(h) ==
    /\ req[h].at = "l_query"
    /\ IF users[req[h].name] = None THEN Done(h) ELSE Goto(h, "l_get")
    /\ UNCHANGED <<now, store, keys, books, requests, faults>>

(* The account is read again, from the cache if it is there by now.        *)
LoginGet(h) ==
    /\ req[h].at = "l_get"
    /\ LET a == cache[req[h].name]
       IN  req' = [req EXCEPT ![h].at = IF a = None THEN "l_read" ELSE "l_verify",
                              ![h].acct = a]
    /\ UNCHANGED <<now, store, keys, books, requests, faults>>

LoginRead(h) ==
    /\ req[h].at = "l_read"
    /\ req' = [req EXCEPT ![h].at = "l_verify", ![h].acct = users[req[h].name]]
    /\ UNCHANGED <<now, store, keys, books, requests, faults>>

(* generateToken: issued and expiring in whole seconds.                    *)
Issue(h, u) == req' = [req EXCEPT ![h].at = "activate",
                                  ![h].tok = [user |-> u, iat |-> now \div PerSecond]]

(* The login that compares the password with itself: the one of the        *)
(* request is overwritten by the one of the account.                       *)
LoginVerifyItself(h) ==
    /\ req[h].at = "l_verify"
    /\ Issue(h, req[h].acct.user)
    /\ UNCHANGED <<now, store, keys, books, requests, faults>>

(* verifyPassword, then generateToken.  A wrong password is answered 401.  *)
LoginVerify(h) ==
    /\ req[h].at = "l_verify"
    /\ IF req[h].acct.pwd = req[h].pwd THEN Issue(h, req[h].acct.user) ELSE Done(h)
    /\ UNCHANGED <<now, store, keys, books, requests, faults>>

-----------------------------------------------------------------------------
(* TokenManager.                                                           *)

(* The token t becomes the active one of its user, for the given time.     *)
SetActive(h, seconds) ==
    LET t == req[h].tok
        old == active[t.user]
    IN  /\ active' = [active EXCEPT ![t.user] =
                        [tok |-> t, until |-> now + PerSecond * seconds]]
        /\ ended' = IF old # None /\ old.tok # t THEN ended \cup {old.tok} ELSE ended
        /\ granted' = granted \cup {t}
        /\ logins' = IF req[h].acct = None THEN logins
                     ELSE logins \cup {[user |-> t.user, pwd |-> req[h].pwd]}

(* generateToken whose entry lapses a second before the token.             *)
ActivateShort(h) ==
    /\ req[h].at = "activate"
    /\ SetActive(h, ExpireTime - 1)
    /\ Done(h)
    /\ UNCHANGED <<now, store, black, accounts, revoked, requests, faults>>

(* generateToken stores the token and returns it.                          *)
Activate(h) ==
    /\ req[h].at = "activate"
    /\ SetActive(h, ExpireTime)
    /\ Done(h)
    /\ UNCHANGED <<now, store, black, accounts, revoked, requests, faults>>

(* verifyToken: signature, issuer and expiry are good, no blacklist entry. *)
(* authenticate ends there and in VerifyActive, refreshToken begins so.    *)
VerifyBlacklist(h, t, refresh) ==
    /\ now <= Exp(t) /\ black[t] = None
    /\ Begin(h, [Idle EXCEPT !.at = "v_active", !.tok = t,
                 !.refresh = refresh, !.stale = t \in revoked])
    /\ UNCHANGED <<now, store, keys, books, faults>>

IsActive(t) == active[t.user] # None /\ active[t.user].tok = t

(* verifyToken: the token is still the active one of its user, or refused. *)
VerifyActive(h) ==
    /\ req[h].at = "v_active"
    /\ IF IsActive(req[h].tok)
       THEN Goto(h, IF req[h].refresh THEN "i_expiry" ELSE "serve")
       ELSE Done(h)
    /\ UNCHANGED <<now, store, keys, books, requests, faults>>

(* The service that the request was accepted for. *)
Serve(h) ==
    /\ req[h].at = "serve"
    /\ Done(h)
    /\ UNCHANGED <<now, store, keys, books, requests, faults>>

(* invalidateToken, called for any token that was returned.  It has no     *)
(* caller in the program.                                                  *)
Invalidate(h, t) ==
    /\ Begin(h, [Idle EXCEPT !.at = "i_expiry", !.tok = t])
    /\ UNCHANGED <<now, store, keys, books, faults>>

(* invalidateToken has returned true: refreshToken issues a new token.     *)
Invalidated(h) == IF req[h].refresh THEN Issue(h, req[h].tok.user) ELSE Done(h)

(* The whole seconds that are left, unless there is nothing to revoke.     *)
InvalidateExpiry(h) ==
    /\ req[h].at = "i_expiry"
    /\ LET t == req[h].tok
       IN  IF Exp(t) <= now
           THEN Invalidated(h)
           ELSE req' = [req EXCEPT ![h].at = "i_black",
                                   ![h].ttl = (Exp(t) - now) \div PerSecond]
    /\ UNCHANGED <<now, store, keys, books, requests, faults>>

(* invalidateToken that leaves the blacklist alone.                        *)
InvalidateNoBlacklist(h) ==
    /\ req[h].at = "i_black"
    /\ req' = [req EXCEPT ![h].at = "i_del", ![h].ttl = 0]
    /\ UNCHANGED <<now, store, keys, books, requests, faults>>

(* A ttl of 0 is no ttl to redis++: the entry stays.                       *)
InvalidateBlacklist(h) ==
    /\ req[h].at = "i_black"
    /\ black' = [black EXCEPT ![req[h].tok] =
                   IF req[h].ttl = 0 THEN Forever ELSE now + PerSecond * req[h].ttl]
    /\ req' = [req EXCEPT ![h].at = "i_del", ![h].ttl = 0]
    /\ UNCHANGED <<now, store, active, books, requests, faults>>

(* The active entry of the user is deleted, whichever token it holds; if   *)
(* there is none, invalidateToken returns false.                           *)
InvalidateDel(h) ==
    /\ req[h].at = "i_del"
    /\ LET t == req[h].tok
           entry == active[t.user]
       IN  IF entry = None
           THEN Done(h) /\ UNCHANGED <<active, ended, revoked>>
           ELSE /\ active' = [active EXCEPT ![t.user] = None]
                /\ ended' = ended \cup {entry.tok}
                /\ revoked' = revoked \cup {t}
                /\ Invalidated(h)
    /\ UNCHANGED <<now, store, black, accounts, logins, granted, requests, faults>>

-----------------------------------------------------------------------------
(* A call to Redis throws; the request ends there.  (A query that fails    *)
(* ends the process: see DbPool.)                                          *)
RequestFails(h) ==
    /\ req[h].at \notin {"idle", "r_query", "l_query", "l_read"}
    /\ Fault
    /\ Done(h)
    /\ UNCHANGED <<now, store, keys, books, requests>>

(* Time passes, and Redis drops what has lapsed.                           *)
Tick ==
    /\ now < MaxTime
    /\ now' = now + 1
    /\ active' = [u \in Users |-> IF active[u] # None /\ active[u].until <= now'
                                  THEN None ELSE active[u]]
    /\ black' = [t \in Tokens |-> IF black[t] # None /\ black[t] <= now'
                                  THEN None ELSE black[t]]
    /\ UNCHANGED <<store, req, books, requests, faults>>

AccountStep(h) ==
    \/ \E n \in Names, p \in Passwords : RegisterExists(h, n, p) \/ LoginExists(h, n, p)
    \/ RegisterQuery(h) \/ RegisterCache(h) \/ RegisterPublish(h)
    \/ LoginQuery(h) \/ LoginGet(h) \/ LoginRead(h) \/ LoginVerify(h)

TokenStep(h) ==
    \/ \E t \in granted : \/ \E refresh \in BOOLEAN : VerifyBlacklist(h, t, refresh)
                          \/ Invalidate(h, t)
    \/ Activate(h) \/ VerifyActive(h) \/ Serve(h)
    \/ InvalidateExpiry(h) \/ InvalidateBlacklist(h) \/ InvalidateDel(h)

Next == \/ \E h \in Threads : AccountStep(h) \/ TokenStep(h) \/ RequestFails(h)
        \/ ExecuteInsert \/ LoseInsert \/ CacheLapses
        \/ Tick

Spec == Init /\ [][Next]_vars

-----------------------------------------------------------------------------
Places == {"idle", "r_query", "r_cache", "r_publish", "l_query", "l_get", "l_read",
           "l_verify", "activate", "v_active", "serve", "i_expiry", "i_black", "i_del"}

(* Types; an account has one user_uuid, and no INSERT is published of one  *)
(* that was not cached.                                                    *)
TypeOK ==
    /\ now \in 0..MaxTime
    /\ cache \in [Names -> Accounts \cup {None}]
    /\ users \in [Names -> Accounts \cup {None}]
    /\ inserts \subseteq accounts
    /\ active \in [Users -> [tok : Tokens, until : Times] \cup {None}]
    /\ black \in [Tokens -> Times \cup {None}]
    /\ req \in [Threads -> [at : Places, name : Names \cup {None},
                            pwd : Passwords \cup {None}, acct : Accounts \cup {None},
                            tok : Tokens \cup {None}, ttl : 0..ExpireTime,
                            refresh : BOOLEAN, stale : BOOLEAN]]
    /\ accounts \subseteq Accounts
    /\ \A a, b \in accounts : a.user = b.user => a = b
    /\ logins \subseteq [user : Users, pwd : Passwords]
    /\ granted \subseteq Tokens
    /\ ended \subseteq Tokens
    /\ revoked \subseteq Tokens
    /\ requests \in 0..MaxRequests
    /\ faults \in 0..MaxFaults

(* A request whose token had been revoked when it came is not accepted:    *)
(* verifyToken's two keys keep it out also when a login of the same second *)
(* makes the same token active again.  The last second of the token is     *)
(* left out: the blacklist entry lives for whole seconds.                  *)
RevokedIsRefused ==
    [][\A h \in Threads :
          req[h].at = "v_active" /\ req'[h].at \in {"serve", "i_expiry"} /\ req[h].stale
             => now > Exp(req[h].tok) - PerSecond]_vars

(* A token that was returned by a login or a refresh stays the active one  *)
(* until it expires, unless another token of the user replaces it or a     *)
(* revocation, perhaps of another token of the user, deletes it: the entry *)
(* in Redis never lapses before the token.                                 *)
SessionLasts ==
    \A t \in granted \ ended : now < Exp(t) => IsActive(t)

(* Whoever was logged in gave the password that the very account was       *)
(* registered with, also when several registrations of the name compete    *)
(* in the cache and in the table.                                          *)
LoginNeedsPassword ==
    \A l \in logins : \E a \in accounts : a.user = l.user /\ a.pwd = l.pwd

(* A login is one to an account of the table, although the cache has       *)
(* accounts whose INSERT is late or lost: only two accepted registrations  *)
(* of one name can let a user in who is not the one of the table.          *)
SessionHasAccount ==
    \A l \in logins : \A a \in accounts :
       a.user = l.user =>
          \/ users[a.name] = a
          \/ \E b \in accounts : b.name = a.name /\ b # a
=============================================================================
