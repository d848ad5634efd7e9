----------------------------- MODULE AuthProofs -----------------------------
(***************************************************************************)
(* Proofs about Auth, for every number of threads, users and passwords and *)
(* for every unit of time: the types and the four properties.  They follow *)
(* from one invariant, AuthInv, which says what a request has found out so *)
(* far and how long the keys in Redis live.                                *)
(***************************************************************************)
EXTENDS Auth, FiniteSetTheorems, TLAPS

(* The token was issued at this time or before. *)
Issued(t) == PerSecond * t.iat <= now

(* The last second of the token has begun. *)
LastSecond(t) == Exp(t) < now + PerSecond

(* A revoked token is on the blacklist, but for its last second. *)
Barred(t) == black[t] # None \/ LastSecond(t)

(* What a request that looked up a name has found. *)
Looked(r) ==
    /\ r.at \in {"r_query", "r_cache", "l_query", "l_get", "l_read", "l_verify"} =>
          r.name \in Names /\ r.pwd \in Passwords
    /\ r.at \in {"l_get", "l_read", "l_verify"} => users[r.name] # None
    /\ r.at = "r_publish" => r.acct \in accounts
    /\ r.at = "l_verify" => r.acct \in accounts /\ r.acct.name = r.name

(* Who is logged in was found in the cache or the table.  A refresh has no *)
(* account.                                                                *)
Admitted(r) ==
    r.at = "activate" /\ r.acct # None =>
       /\ r.acct \in accounts /\ r.acct.user = r.tok.user
       /\ r.pwd = r.acct.pwd /\ users[r.acct.name] # None

TokenPlaces == {"activate", "v_active", "serve", "i_expiry", "i_black", "i_del"}

(* What a request knows of its token. *)
Holds(r) ==
    /\ r.at \in TokenPlaces => r.tok \in Tokens /\ Issued(r.tok)
    /\ r.at \in TokenPlaces \ {"activate"} => r.acct = None
    /\ r.at = "v_active" /\ r.stale => LastSecond(r.tok)
    /\ r.at = "i_black" => Exp(r.tok) < now + PerSecond * r.ttl + PerSecond
    /\ r.at = "i_del" => Barred(r.tok)

Handled == \A h \in Threads : Looked(req[h]) /\ Admitted(req[h]) /\ Holds(req[h])

(* Accounts are numbered in the order of their registration. *)
Registered ==
    /\ IsFiniteSet(accounts)
    /\ \A a \in accounts : a.user <= Cardinality(accounts)
    /\ \A n \in Names : /\ cache[n] # None => cache[n] \in accounts /\ cache[n].name = n
                        /\ users[n] # None => users[n] \in accounts /\ users[n].name = n

(* The active entry lives as long as its token, and an entry of the        *)
(* blacklist until the last second of its token at least.                  *)
Keys ==
    /\ \A u \in Users : active[u] # None =>
          Issued(active[u].tok) /\ Exp(active[u].tok) <= active[u].until
    /\ \A t \in Tokens : black[t] # None => Exp(t) < black[t] + PerSecond
    /\ \A t \in granted : Issued(t)
    /\ \A t \in revoked : Barred(t)

AuthInv == TypeOK /\ Registered /\ Handled /\ Keys
-----------------------------------------------------------------------------
(* Time.                                                                   *)

(* What is issued now was issued, and not a second ago. *)
LEMMA WholeSeconds ==
    ASSUME NEW x \in Nat
    PROVE  /\ x \div PerSecond \in Nat
           /\ PerSecond * (x \div PerSecond) \in Nat
           /\ PerSecond * (x \div PerSecond) <= x
           /\ x < PerSecond * (x \div PerSecond) + PerSecond
BY TimeAssumption

LEMMA Product ==
    ASSUME NEW x \in Nat, NEW y \in Nat
    PROVE  /\ PerSecond * x \in Nat
           /\ PerSecond * (x + y) = PerSecond * x + PerSecond * y
           /\ x <= y => PerSecond * x <= PerSecond * y
           /\ PerSecond * x < PerSecond * y + PerSecond => x <= y
BY TimeAssumption

LEMMA Later ==
    ASSUME NEW x \in Nat, NEW y \in Nat, x <= y
    PROVE  x \div PerSecond <= y \div PerSecond
<1>. DEFINE a == x \div PerSecond  b == y \div PerSecond
<1>1. a \in Nat /\ b \in Nat /\ PerSecond * a <= x /\ y < PerSecond * b + PerSecond
      /\ PerSecond * a \in Nat /\ PerSecond * b \in Nat
  BY WholeSeconds
<1>. HIDE DEF a, b
<1>2. PerSecond * a < PerSecond * b + PerSecond
  BY <1>1, TimeAssumption
<1>3. a <= b
  BY <1>1, <1>2, Product
<1>. QED BY <1>3 DEF a, b

(* Tokens, their expiry, and the entries made for them. *)
LEMMA TokenTimes ==
    ASSUME NEW t \in Tokens
    PROVE  /\ t.iat \in Nat /\ Exp(t) \in Nat /\ PerSecond * t.iat \in Nat
           /\ PerSecond * ExpireTime \in Nat
           /\ Exp(t) = PerSecond * t.iat + PerSecond * ExpireTime
           /\ PerSecond <= PerSecond * ExpireTime
<1>1. t.iat \in Nat
  BY BoundsAssumption, TimeAssumption, WholeSeconds DEF Tokens, Seconds
<1>2. 1 <= ExpireTime /\ ExpireTime \in Nat /\ PerSecond * 1 = PerSecond
  BY TimeAssumption
<1>. QED BY <1>1, <1>2, Product, TimeAssumption DEF Exp

LEMMA NowIsToken ==
    ASSUME TypeOK, NEW u \in Users
    PROVE  LET t == [user |-> u, iat |-> now \div PerSecond] IN t \in Tokens /\ Issued(t)
BY Later, WholeSeconds, BoundsAssumption, TimeAssumption DEF TypeOK, Tokens, Seconds, Issued

(* What is left of a token, in whole seconds. *)
LEMMA LeftOver ==
    ASSUME TypeOK, NEW t \in Tokens, Issued(t), ~(Exp(t) <= now)
    PROVE  LET n == (Exp(t) - now) \div PerSecond
           IN n \in 0..ExpireTime /\ Exp(t) < now + PerSecond * n + PerSecond
<1>. DEFINE x == Exp(t) - now  n == x \div PerSecond
<1>1. now \in Nat /\ Exp(t) \in Nat /\ PerSecond \in Nat /\ ExpireTime \in Nat
  BY TokenTimes, TimeAssumption DEF TypeOK
<1>2. x \in Nat /\ x <= PerSecond * ExpireTime
  BY <1>1, TokenTimes DEF Issued
<1>3. n \in Nat /\ PerSecond * n \in Nat /\ PerSecond * n <= x /\ x < PerSecond * n + PerSecond
  BY <1>2, WholeSeconds
<1>. HIDE DEF n
<1>4. PerSecond * n < PerSecond * ExpireTime + PerSecond
  BY <1>1, <1>2, <1>3, TokenTimes, TimeAssumption
<1>5. n <= ExpireTime
  BY <1>1, <1>3, <1>4, Product
<1>. QED BY <1>1, <1>3, <1>5 DEF n

(* When the keys in Redis lapse: within the times of the model, and of the *)
(* entries that InvalidateBlacklist makes, not before the last second.     *)
LEMMA Expiries ==
    ASSUME TypeOK
    PROVE  /\ Forever \in Times
           /\ \A n \in 0..ExpireTime : now + PerSecond * n \in Times
           /\ \A t \in Tokens : Exp(t) < Forever + PerSecond
<1>1. MaxTime \in Nat /\ now \in 0..MaxTime /\ PerSecond * ExpireTime \in Nat
  BY BoundsAssumption, TimeAssumption, Product DEF TypeOK
<1>2. Forever \in Nat
  BY <1>1 DEF Forever
<1>3. ASSUME NEW n \in 0..ExpireTime PROVE now + PerSecond * n \in Times
  <2>1. PerSecond * n \in Nat /\ PerSecond * n <= PerSecond * ExpireTime
    BY Product, TimeAssumption
  <2>. QED BY <1>1, <2>1 DEF Times, Forever
<1>4. ASSUME NEW t \in Tokens PROVE Exp(t) < Forever + PerSecond
  <2>. DEFINE last == MaxTime \div PerSecond
  <2>1. t.iat \in 0..last
    BY DEF Tokens, Seconds
  <2>2. last \in Nat /\ PerSecond * last \in Nat /\ PerSecond * last <= MaxTime
    BY WholeSeconds, BoundsAssumption
  <2>. HIDE DEF last
  <2>3. t.iat \in Nat /\ t.iat <= last
    BY <2>1, <2>2
  <2>4. PerSecond * t.iat \in Nat /\ PerSecond * t.iat <= PerSecond * last
    BY <2>2, <2>3, Product
  <2>. QED BY <1>1, <2>2, <2>4, TokenTimes, TimeAssumption DEF Forever
<1>. QED BY <1>2, <1>3, <1>4 DEF Times

-----------------------------------------------------------------------------
(* Types.                                                                  *)

Requests == [at : Places, name : Names \cup {None}, pwd : Passwords \cup {None},
             acct : Accounts \cup {None}, tok : Tokens \cup {None}, ttl : 0..ExpireTime,
             refresh : BOOLEAN, stale : BOOLEAN]

LEMMA IdleIsRequest == Idle \in Requests
BY TimeAssumption DEF Idle, Requests, Places


LEMMA Fields ==
    /\ \A r \in Requests, pc \in Places :
          /\ \A a \in Accounts \cup {None} : [r EXCEPT !.at = pc, !.acct = a] \in Requests
          /\ \A t \in Tokens : [r EXCEPT !.at = pc, !.tok = t] \in Requests
          /\ \A s \in 0..ExpireTime : [r EXCEPT !.at = pc, !.ttl = s] \in Requests
    /\ \A n \in Names, p \in Passwords, pc \in Places :
          [Idle EXCEPT !.at = pc, !.name = n, !.pwd = p] \in Requests
    /\ \A t \in Tokens, pc \in Places :
          /\ [Idle EXCEPT !.at = pc, !.tok = t] \in Requests
          /\ \A x, y \in BOOLEAN :
                [Idle EXCEPT !.at = pc, !.tok = t, !.refresh = x, !.stale = y] \in Requests
<1>1. ASSUME NEW r \in Requests, NEW pc \in Places, NEW a \in Accounts \cup {None}
      PROVE  [r EXCEPT !.at = pc, !.acct = a] \in Requests
  BY DEF Requests
<1>2. ASSUME NEW r \in Requests, NEW pc \in Places, NEW t \in Tokens
      PROVE  [r EXCEPT !.at = pc, !.tok = t] \in Requests
  BY DEF Requests
<1>3. ASSUME NEW r \in Requests, NEW pc \in Places, NEW s \in 0..ExpireTime
      PROVE  [r EXCEPT !.at = pc, !.ttl = s] \in Requests
  BY DEF Requests
<1>4. ASSUME NEW n \in Names, NEW p \in Passwords, NEW pc \in Places
      PROVE  [Idle EXCEPT !.at = pc, !.name = n, !.pwd = p] \in Requests
  BY IdleIsRequest DEF Requests
<1>5. ASSUME NEW t \in Tokens, NEW pc \in Places
      PROVE  [Idle EXCEPT !.at = pc, !.tok = t] \in Requests
  BY IdleIsRequest DEF Requests
<1>6. ASSUME NEW t \in Tokens, NEW pc \in Places, NEW x \in BOOLEAN, NEW y \in BOOLEAN
      PROVE  [Idle EXCEPT !.at = pc, !.tok = t, !.refresh = x, !.stale = y] \in Requests
  BY IdleIsRequest DEF Requests
<1>. QED BY <1>1, <1>2, <1>3, <1>4, <1>5, <1>6

LEMMA ReqSet ==
    ASSUME req \in [Threads -> Requests], NEW h \in Threads,
           NEW r \in Requests, req' = [req EXCEPT ![h] = r]
    PROVE  /\ req' \in [Threads -> Requests] /\ req'[h] = r
           /\ \A g \in Threads \ {h} : req'[g] = req[g]
OBVIOUS


LEMMA ReqAt ==
    ASSUME req \in [Threads -> Requests], NEW h \in Threads, NEW pc
    PROVE  /\ \A a : [req EXCEPT ![h].at = pc, ![h].acct = a]
                     = [req EXCEPT ![h] = [req[h] EXCEPT !.at = pc, !.acct = a]]
           /\ \A t : [req EXCEPT ![h].at = pc, ![h].tok = t]
                     = [req EXCEPT ![h] = [req[h] EXCEPT !.at = pc, !.tok = t]]
           /\ \A s : [req EXCEPT ![h].at = pc, ![h].ttl = s]
                     = [req EXCEPT ![h] = [req[h] EXCEPT !.at = pc, !.ttl = s]]
OBVIOUS

-----------------------------------------------------------------------------
(* Requests.                                                               *)

(* A step of thread h changes its own request only, and what the request   *)
(* knows then is true.                                                     *)
Handles(h) ==
    /\ req' \in [Threads -> Requests]
    /\ \A g \in Threads \ {h} : req'[g] = req[g]
    /\ Looked(req[h])' /\ Admitted(req[h])' /\ Holds(req[h])'

LEMMA GoesIdle ==
    ASSUME req \in [Threads -> Requests], NEW h \in Threads, Done(h)
    PROVE  Handles(h)
<1>1. req' \in [Threads -> Requests] /\ req'[h] = Idle /\ \A g \in Threads \ {h} : req'[g] = req[g]
  BY IdleIsRequest, ReqSet DEF Done
<1>2. req'[h].at = "idle"
  BY <1>1 DEF Idle
<1>. QED BY <1>1, <1>2 DEF Handles, Looked, Admitted, Holds, TokenPlaces

LEMMA RegisterHandles ==
    ASSUME AuthInv, NEW h \in Threads,
           \/ \E n \in Names, p \in Passwords : RegisterExists(h, n, p)
           \/ RegisterQuery(h) \/ RegisterCache(h) \/ RegisterPublish(h)
    PROVE  Handles(h)
<1>0. req \in [Threads -> Requests] /\ req[h] \in Requests
  BY DEF AuthInv, TypeOK, Requests
<1>1. ASSUME NEW n \in Names, NEW p \in Passwords, RegisterExists(h, n, p) PROVE Handles(h)
  <2>. DEFINE pc == IF cache[n] # None THEN "r_cache" ELSE "r_query"
              r  == [Idle EXCEPT !.at = pc, !.name = n, !.pwd = p]
  <2>1. pc \in Places /\ req' = [req EXCEPT ![h] = r]
    BY <1>1 DEF RegisterExists, Begin, Places
  <2>2. r \in Requests
    BY <2>1, TimeAssumption, Fields
  <2>3. r.at = pc /\ r.name = n /\ r.pwd = p
    BY DEF Idle
  <2>4. pc \in {"r_cache", "r_query"}
    OBVIOUS
  <2>. HIDE DEF r, pc
  <2>. QED BY <1>0, <2>1, <2>2, <2>3, <2>4, ReqSet DEF Handles, Looked, Admitted, Holds, TokenPlaces
<1>2. ASSUME RegisterQuery(h) PROVE Handles(h)
  <2>1. CASE Done(h)
    BY <1>0, <2>1, GoesIdle
  <2>2. CASE Goto(h, "r_cache")
    <3>1. req[h].name \in Names /\ req[h].pwd \in Passwords
      BY <1>2 DEF AuthInv, Handled, Looked, RegisterQuery
    <3>2. /\ req' \in [Threads -> Requests] /\ \A g \in Threads \ {h} : req'[g] = req[g]
          /\ req'[h].at = "r_cache" /\ req'[h].name = req[h].name /\ req'[h].pwd = req[h].pwd
      BY <1>0, <2>2 DEF Goto, Requests, Places
    <3>. QED BY <3>1, <3>2 DEF Handles, Looked, Admitted, Holds, TokenPlaces
  <2>. QED BY <1>2, <2>1, <2>2 DEF RegisterQuery
<1>3. ASSUME RegisterCache(h) PROVE Handles(h)
  <2>. DEFINE a == [user |-> Cardinality(accounts) + 1, name |-> req[h].name, pwd |-> req[h].pwd]
  <2>1. a \in Accounts
    <3>1. Cardinality(accounts) \in Nat /\ Cardinality(accounts) + 1 \in Users
      BY <1>3, FS_CardinalityType, BoundsAssumption DEF AuthInv, Registered, RegisterCache, Users
    <3>2. req[h].name \in Names /\ req[h].pwd \in Passwords
      BY <1>3 DEF AuthInv, Handled, Looked, RegisterCache
    <3>. QED BY <3>1, <3>2 DEF Accounts
  <2>2. req' = [req EXCEPT ![h].at = "r_publish", ![h].acct = a] /\ accounts' = accounts \cup {a}
    BY <1>3 DEF RegisterCache
  <2>. HIDE DEF a
  <2>. DEFINE r == [req[h] EXCEPT !.at = "r_publish", !.acct = a]
  <2>3. "r_publish" \in Places /\ 0 \in 0..ExpireTime
    BY TimeAssumption DEF Places
  <2>4. r \in Requests
    BY <1>0, <2>1, <2>3, Fields
  <2>5. req' = [req EXCEPT ![h] = r]
    BY <1>0, <2>1, <2>2, <2>3, ReqAt
  <2>6. r.at = "r_publish" /\ r.acct = a
    BY <1>0 DEF Requests
  <2>. HIDE DEF r
  <2>. QED BY <1>0, <2>2, <2>4, <2>5, <2>6, ReqSet DEF Handles, Looked, Admitted, Holds, TokenPlaces
<1>4. ASSUME RegisterPublish(h) PROVE Handles(h)
  BY <1>0, <1>4, GoesIdle DEF RegisterPublish
<1>. QED BY <1>1, <1>2, <1>3, <1>4

(* The token that is issued, and what is known of who gets it. *)
LEMMA IssueHandles ==
    ASSUME AuthInv, NEW h \in Threads, NEW u \in Users, Issue(h, u), UNCHANGED now,
           req[h].acct # None =>
              /\ req[h].acct \in accounts' /\ req[h].acct.user = u
              /\ req[h].pwd = req[h].acct.pwd /\ users'[req[h].acct.name] # None
    PROVE  Handles(h)
<1>0. req \in [Threads -> Requests] /\ req[h] \in Requests
  BY DEF AuthInv, TypeOK, Requests
<1>. DEFINE t == [user |-> u, iat |-> now \div PerSecond]
<1>1. t \in Tokens /\ t.user = u /\ Issued(t)
  BY NowIsToken DEF AuthInv
<1>2. req' = [req EXCEPT ![h].at = "activate", ![h].tok = t]
  BY DEF Issue
<1>. HIDE DEF t
<1>. DEFINE r == [req[h] EXCEPT !.at = "activate", !.tok = t]
<1>3. "activate" \in Places
  BY DEF Places
<1>4. r \in Requests /\ req' = [req EXCEPT ![h] = r]
  BY <1>0, <1>1, <1>2, <1>3, Fields, ReqAt
<1>5. r.at = "activate" /\ r.tok = t /\ r.acct = req[h].acct /\ r.pwd = req[h].pwd
  BY <1>0 DEF Requests
<1>. HIDE DEF r
<1>6. /\ req' \in [Threads -> Requests] /\ req'[h] = r
      /\ \A g \in Threads \ {h} : req'[g] = req[g]
  BY <1>0, <1>4, ReqSet
<1>7. Looked(req[h])' /\ Admitted(req[h])'
  BY <1>1, <1>5, <1>6 DEF Looked, Admitted
<1>8. Holds(req[h])'
  BY <1>1, <1>5, <1>6 DEF Holds, TokenPlaces, Issued
<1>. QED BY <1>6, <1>7, <1>8 DEF Handles

LEMMA LoginHandles ==
    ASSUME AuthInv, NEW h \in Threads,
           \/ \E n \in Names, p \in Passwords : LoginExists(h, n, p)
           \/ LoginQuery(h) \/ LoginGet(h) \/ LoginRead(h) \/ LoginVerify(h)
    PROVE  Handles(h)
<1>0. req \in [Threads -> Requests] /\ req[h] \in Requests
  BY DEF AuthInv, TypeOK, Requests
<1>1. ASSUME NEW n \in Names, NEW p \in Passwords, LoginExists(h, n, p) PROVE Handles(h)
  <2>. DEFINE r == [Idle EXCEPT !.at = "l_query", !.name = n, !.pwd = p]
  <2>1. "l_query" \in Places /\ req' = [req EXCEPT ![h] = r]
    BY <1>1 DEF LoginExists, Begin, Places
  <2>2. r \in Requests
    BY <2>1, Fields
  <2>3. r.at = "l_query" /\ r.name = n /\ r.pwd = p
    BY DEF Idle
  <2>. HIDE DEF r
  <2>. QED BY <1>0, <2>1, <2>2, <2>3, ReqSet DEF Handles, Looked, Admitted, Holds, TokenPlaces
<1>2. ASSUME LoginQuery(h) PROVE Handles(h)
  <2>0. req[h].name \in Names /\ req[h].pwd \in Passwords /\ UNCHANGED users
    BY <1>2 DEF AuthInv, Handled, Looked, LoginQuery, store
  <2>1. CASE Done(h)
    BY <1>0, <2>1, GoesIdle
  <2>2. CASE users[req[h].name] # None /\ Goto(h, "l_get")
    <3>1. /\ req' \in [Threads -> Requests] /\ \A g \in Threads \ {h} : req'[g] = req[g]
          /\ req'[h].at = "l_get" /\ req'[h].name = req[h].name /\ req'[h].pwd = req[h].pwd
      BY <1>0, <2>2 DEF Goto, Requests, Places
    <3>. QED BY <2>0, <2>2, <3>1 DEF Handles, Looked, Admitted, Holds, TokenPlaces
  <2>. QED BY <1>2, <2>1, <2>2 DEF LoginQuery
<1>3. ASSUME LoginGet(h) \/ LoginRead(h) PROVE Handles(h)
  <2>. DEFINE n == req[h].name
  <2>0. n \in Names /\ req[h].pwd \in Passwords /\ users[n] # None /\ UNCHANGED <<users, accounts>>
    BY <1>3 DEF AuthInv, Handled, Looked, LoginGet, LoginRead, store, books
  <2>1. PICK a \in Accounts \cup {None}, pc \in {"l_read", "l_verify"} :
           /\ req' = [req EXCEPT ![h].at = pc, ![h].acct = a]
           /\ pc = "l_verify" => a \in accounts /\ a.name = n
    <3>1. CASE LoginGet(h) /\ cache[n] = None
      BY <3>1 DEF LoginGet
    <3>2. CASE LoginGet(h) /\ cache[n] # None
      <4>1. cache[n] \in accounts /\ cache[n].name = n /\ cache[n] \in Accounts
        BY <2>0, <3>2 DEF AuthInv, Registered, TypeOK
      <4>. QED BY <3>2, <4>1 DEF LoginGet
    <3>3. CASE LoginRead(h)
      <4>1. users[n] \in accounts /\ users[n].name = n /\ users[n] \in Accounts
        BY <2>0 DEF AuthInv, Registered, TypeOK
      <4>. QED BY <3>3, <4>1 DEF LoginRead
    <3>. QED BY <1>3, <3>1, <3>2, <3>3
  <2>. DEFINE r == [req[h] EXCEPT !.at = pc, !.acct = a]
  <2>2. r \in Requests /\ req' = [req EXCEPT ![h] = r]
    BY <1>0, <2>1, Fields, ReqAt DEF Places
  <2>3. r.at = pc /\ r.acct = a /\ r.name = n /\ r.pwd = req[h].pwd
    BY <1>0 DEF Requests
  <2>. HIDE DEF r, n
  <2>4. /\ req' \in [Threads -> Requests] /\ req'[h] = r
        /\ \A g \in Threads \ {h} : req'[g] = req[g]
    BY <1>0, <2>2, ReqSet
  <2>5. /\ req'[h].at = pc /\ req'[h].acct = a /\ req'[h].name = n /\ req'[h].pwd \in Passwords
        /\ users'[n] # None /\ (pc = "l_verify" => a \in accounts' /\ a.name = n)
    BY <2>0, <2>1, <2>3, <2>4
  <2>6. Looked(req[h])'
    BY <2>0, <2>5 DEF Looked
  <2>7. Admitted(req[h])' /\ Holds(req[h])'
    BY <2>5 DEF Admitted, Holds, TokenPlaces
  <2>. QED BY <2>4, <2>6, <2>7 DEF Handles
<1>4. ASSUME LoginVerify(h) PROVE Handles(h)
  <2>0. /\ req[h].name \in Names /\ users[req[h].name] # None
        /\ req[h].acct \in accounts /\ req[h].acct.name = req[h].name
        /\ req[h].acct.user \in Users /\ UNCHANGED <<now, users, accounts>>
    BY <1>4 DEF AuthInv, TypeOK, Accounts, Handled, Looked, LoginVerify, store, books
  <2>1. CASE Done(h)
    BY <1>0, <2>1, GoesIdle
  <2>2. CASE req[h].acct.pwd = req[h].pwd /\ Issue(h, req[h].acct.user)
    BY <2>0, <2>2, IssueHandles
  <2>. QED BY <1>4, <2>1, <2>2 DEF LoginVerify
<1>. QED BY <1>1, <1>2, <1>3, <1>4

LEMMA TokenHandles ==
    ASSUME AuthInv, NEW h \in Threads, TokenStep(h) \/ RequestFails(h)
    PROVE  Handles(h)
<1>0. req \in [Threads -> Requests] /\ req[h] \in Requests
  BY DEF AuthInv, TypeOK, Requests
<1>1. ASSUME NEW t \in granted, NEW refresh \in BOOLEAN, VerifyBlacklist(h, t, refresh)
      PROVE  Handles(h)
  <2>. DEFINE r == [Idle EXCEPT !.at = "v_active", !.tok = t,
                                !.refresh = refresh, !.stale = t \in revoked]
  <2>1. t \in Tokens /\ Issued(t) /\ UNCHANGED <<now, revoked, black>>
    BY <1>1 DEF AuthInv, TypeOK, Keys, VerifyBlacklist, keys, books
  <2>2. r \in Requests /\ req' = [req EXCEPT ![h] = r]
    <3>1. req' = [req EXCEPT ![h] = r]
      BY <1>1 DEF VerifyBlacklist, Begin
    <3>2. "v_active" \in Places /\ (t \in revoked) \in BOOLEAN
      BY DEF Places
    <3>. QED BY <2>1, <3>1, <3>2, Fields
  <2>3. r.at = "v_active" /\ r.tok = t /\ r.acct = None /\ (r.stale <=> t \in revoked)
    BY DEF Idle
  <2>. HIDE DEF r
  <2>4. /\ req' \in [Threads -> Requests] /\ req'[h] = r
        /\ \A g \in Threads \ {h} : req'[g] = req[g]
    BY <1>0, <2>2, ReqSet
  <2>5. t \in revoked => LastSecond(t)
    BY <1>1 DEF VerifyBlacklist, AuthInv, Keys, Barred
  <2>6. Holds(req[h])'
    BY <2>1, <2>3, <2>4, <2>5 DEF Holds, TokenPlaces, Issued, LastSecond
  <2>. QED BY <2>3, <2>4, <2>6 DEF Handles, Looked, Admitted
<1>2. ASSUME NEW t \in granted, Invalidate(h, t) PROVE Handles(h)
  <2>. DEFINE r == [Idle EXCEPT !.at = "i_expiry", !.tok = t]
  <2>1. t \in Tokens /\ Issued(t) /\ UNCHANGED now
    BY <1>2 DEF AuthInv, TypeOK, Keys, Invalidate
  <2>2. r \in Requests /\ req' = [req EXCEPT ![h] = r]
    BY <1>2, <2>1, Fields DEF Invalidate, Begin, Places
  <2>3. r.at = "i_expiry" /\ r.tok = t /\ r.acct = None
    BY DEF Idle
  <2>. HIDE DEF r
  <2>4. /\ req' \in [Threads -> Requests] /\ req'[h] = r
        /\ \A g \in Threads \ {h} : req'[g] = req[g]
    BY <1>0, <2>2, ReqSet
  <2>5. Holds(req[h])'
    BY <2>1, <2>3, <2>4 DEF Holds, TokenPlaces, Issued
  <2>. QED BY <2>3, <2>4, <2>5 DEF Handles, Looked, Admitted
<1>3. ASSUME VerifyActive(h) PROVE Handles(h)
  <2>1. CASE Done(h)
    BY <1>0, <2>1, GoesIdle
  <2>2. ASSUME NEW pc \in {"i_expiry", "serve"}, Goto(h, pc) PROVE Handles(h)
    <3>1. req[h].tok \in Tokens /\ Issued(req[h].tok) /\ req[h].acct = None /\ UNCHANGED now
      BY <1>3 DEF AuthInv, Handled, Holds, TokenPlaces, VerifyActive
    <3>2. /\ req' \in [Threads -> Requests] /\ \A g \in Threads \ {h} : req'[g] = req[g]
          /\ req'[h].at = pc /\ req'[h].tok = req[h].tok /\ req'[h].acct = req[h].acct
      BY <1>0, <2>2 DEF Goto, Requests, Places
    <3>. QED BY <3>1, <3>2 DEF Handles, Looked, Admitted, Holds, TokenPlaces, Issued
  <2>. QED BY <1>3, <2>1, <2>2 DEF VerifyActive
<1>4. CASE Activate(h) \/ Serve(h) \/ RequestFails(h)
  BY <1>0, <1>4, GoesIdle DEF Activate, Serve, RequestFails
<1>5. ASSUME Invalidated(h), req[h].at \in {"i_expiry", "i_del"}, UNCHANGED now
      PROVE  Handles(h)
  <2>1. req[h].tok.user \in Users /\ req[h].acct = None
    BY <1>5 DEF AuthInv, Handled, Holds, TokenPlaces, Tokens
  <2>. QED BY <1>0, <1>5, <2>1, GoesIdle, IssueHandles DEF Invalidated
<1>6. ASSUME InvalidateExpiry(h) PROVE Handles(h)
  <2>1. CASE Invalidated(h)
    BY <1>5, <1>6, <2>1 DEF InvalidateExpiry
  <2>2. CASE ~(Exp(req[h].tok) <= now)
    <3>. DEFINE t == req[h].tok
                n == (Exp(t) - now) \div PerSecond
                r == [req[h] EXCEPT !.at = "i_black", !.ttl = n]
    <3>1. t \in Tokens /\ Issued(t) /\ req[h].acct = None /\ UNCHANGED now
      BY <1>6 DEF AuthInv, Handled, Holds, TokenPlaces, InvalidateExpiry
    <3>2. n \in 0..ExpireTime /\ Exp(t) < now + PerSecond * n + PerSecond
      BY <2>2, <3>1, LeftOver DEF AuthInv
    <3>3. req' = [req EXCEPT ![h].at = "i_black", ![h].ttl = n]
      BY <1>6, <2>2 DEF InvalidateExpiry
    <3>. HIDE DEF n
    <3>4. r \in Requests /\ req' = [req EXCEPT ![h] = r]
      BY <1>0, <3>2, <3>3, Fields, ReqAt DEF Places
    <3>5. r.at = "i_black" /\ r.tok = t /\ r.ttl = n /\ r.acct = req[h].acct
      BY <1>0 DEF Requests
    <3>. HIDE DEF r, t
    <3>6. /\ req' \in [Threads -> Requests] /\ req'[h] = r
          /\ \A g \in Threads \ {h} : req'[g] = req[g]
      BY <1>0, <3>4, ReqSet
    <3>7. Holds(req[h])'
      BY <3>1, <3>2, <3>5, <3>6 DEF Holds, TokenPlaces, Issued, Exp
    <3>. QED BY <3>5, <3>6, <3>7 DEF Handles, Looked, Admitted
  <2>. QED BY <1>6, <2>1, <2>2 DEF InvalidateExpiry
<1>7. ASSUME InvalidateBlacklist(h) PROVE Handles(h)
  <2>. DEFINE t == req[h].tok
              r == [req[h] EXCEPT !.at = "i_del", !.ttl = 0]
  <2>1. t \in Tokens /\ Issued(t) /\ req[h].acct = None /\ UNCHANGED now
    BY <1>7 DEF AuthInv, Handled, Holds, TokenPlaces, InvalidateBlacklist
  <2>2. black'[t] # None
    <3>1. req[h].ttl \in 0..ExpireTime /\ black \in [Tokens -> Times \cup {None}]
      BY <1>0 DEF Requests, AuthInv, TypeOK
    <3>2. black'[t] = IF req[h].ttl = 0 THEN Forever ELSE now + PerSecond * req[h].ttl
      BY <1>7, <2>1, <3>1 DEF InvalidateBlacklist
    <3>3. black'[t] \in Times
      BY <3>1, <3>2, Expiries DEF AuthInv
    <3>. QED BY <3>3, NoneAssumption
  <2>3. req' = [req EXCEPT ![h].at = "i_del", ![h].ttl = 0]
    BY <1>7 DEF InvalidateBlacklist
  <2>4. r \in Requests /\ req' = [req EXCEPT ![h] = r]
    <3>1. "i_del" \in Places /\ 0 \in 0..ExpireTime
      BY TimeAssumption DEF Places
    <3>. QED BY <1>0, <2>3, <3>1, Fields, ReqAt
  <2>5. r.at = "i_del" /\ r.tok = t /\ r.acct = req[h].acct
    BY <1>0 DEF Requests
  <2>. HIDE DEF r, t
  <2>6. /\ req' \in [Threads -> Requests] /\ req'[h] = r
        /\ \A g \in Threads \ {h} : req'[g] = req[g]
    BY <1>0, <2>4, ReqSet
  <2>7. Holds(req[h])'
    BY <2>1, <2>2, <2>5, <2>6 DEF Holds, TokenPlaces, Issued, Barred
  <2>. QED BY <2>5, <2>6, <2>7 DEF Handles, Looked, Admitted
<1>8. ASSUME InvalidateDel(h) PROVE Handles(h)
  BY <1>0, <1>5, <1>8, GoesIdle DEF InvalidateDel
<1>. QED BY <1>1, <1>2, <1>3, <1>4, <1>6, <1>7, <1>8 DEF TokenStep

-----------------------------------------------------------------------------
(* The store.                                                              *)

StoreTypes ==
    /\ cache \in [Names -> Accounts \cup {None}]
    /\ users \in [Names -> Accounts \cup {None}]
    /\ inserts \subseteq accounts
    /\ accounts \subseteq Accounts
    /\ \A a, b \in accounts : a.user = b.user => a = b

(* The steps that touch neither the store nor the accounts. *)
LEMMA StoreUntouched ==
    ASSUME NEW h \in Threads,
           AccountStep(h) \/ TokenStep(h) \/ RequestFails(h),
           ~RegisterCache(h), ~RegisterPublish(h)
    PROVE  UNCHANGED <<cache, users, inserts, accounts>>
<1>1. CASE AccountStep(h)
  BY <1>1 DEF AccountStep, RegisterExists, RegisterQuery, LoginExists, LoginQuery, LoginGet,
              LoginRead, LoginVerify, store, books
<1>2. CASE TokenStep(h)
  BY <1>2 DEF TokenStep, VerifyBlacklist, Invalidate, Activate, VerifyActive, Serve,
              InvalidateExpiry, InvalidateBlacklist, InvalidateDel, store, books
<1>3. CASE RequestFails(h)
  BY <1>3 DEF RequestFails, store, books
<1>. QED BY <1>1, <1>2, <1>3

(* Accounts stay what they are, and nobody leaves the table. *)
LEMMA StoreStep ==
    ASSUME AuthInv, [Next]_vars
    PROVE  /\ StoreTypes' /\ Registered'
           /\ accounts \subseteq accounts'
           /\ \A n \in Names : users[n] # None => users'[n] # None
<1>. DEFINE Goal == /\ StoreTypes' /\ Registered'
                    /\ accounts \subseteq accounts'
                    /\ \A n \in Names : users[n] # None => users'[n] # None
<1>0. StoreTypes /\ Registered
  BY DEF AuthInv, TypeOK, StoreTypes
<1>1. ASSUME UNCHANGED <<cache, users, inserts, accounts>> PROVE Goal
  BY <1>0, <1>1 DEF StoreTypes, Registered
<1>2. ASSUME NEW h \in Threads, RegisterCache(h) PROVE Goal
  <2>. DEFINE a == [user |-> Cardinality(accounts) + 1, name |-> req[h].name, pwd |-> req[h].pwd]
  <2>1. /\ cache' = [cache EXCEPT ![a.name] = a] /\ accounts' = accounts \cup {a}
        /\ UNCHANGED <<users, inserts>>
    BY <1>2 DEF RegisterCache
  <2>2. Cardinality(accounts) \in Nat /\ Cardinality(accounts) + 1 \in Users
    BY <1>2, FS_CardinalityType, BoundsAssumption DEF AuthInv, Registered, RegisterCache, Users
  <2>3. a \in Accounts /\ a.name \in Names /\ a.user = Cardinality(accounts) + 1
    BY <1>2, <2>2 DEF AuthInv, Handled, Looked, RegisterCache, Accounts
  <2>. HIDE DEF a
  <2>4. \A b \in accounts : b.user \in Nat /\ b.user <= Cardinality(accounts)
    BY <1>0, BoundsAssumption DEF StoreTypes, Registered, Accounts, Users
  <2>5. a \notin accounts
    BY <2>2, <2>3, <2>4
  <2>6. IsFiniteSet(accounts') /\ Cardinality(accounts') = Cardinality(accounts) + 1
    BY <1>0, <2>1, <2>5, FS_AddElement DEF Registered
  <2>7. StoreTypes'
    <3>1. \A b, c \in accounts' : b.user = c.user => b = c
      BY <1>0, <2>1, <2>2, <2>3, <2>4 DEF StoreTypes
    <3>. QED BY <1>0, <2>1, <2>3, <3>1 DEF StoreTypes
  <2>8. Registered'
    <3>1. \A b \in accounts' : b.user <= Cardinality(accounts')
      BY <2>1, <2>2, <2>3, <2>4, <2>6
    <3>2. \A n \in Names : cache'[n] # None => cache'[n] \in accounts' /\ cache'[n].name = n
      BY <1>0, <2>1, <2>3 DEF Registered, StoreTypes
    <3>. QED BY <1>0, <2>1, <2>6, <3>1, <3>2 DEF Registered
  <2>. QED BY <2>1, <2>7, <2>8
<1>3. ASSUME NEW h \in Threads, RegisterPublish(h) PROVE Goal
  <2>1. /\ req[h].acct \in accounts
        /\ inserts' = inserts \cup {req[h].acct} /\ UNCHANGED <<cache, users, accounts>>
    BY <1>3 DEF RegisterPublish, books, AuthInv, Handled, Looked
  <2>. QED BY <1>0, <2>1 DEF StoreTypes, Registered
<1>4. ASSUME ExecuteInsert PROVE Goal
  <2>1. PICK a \in inserts : /\ inserts' = inserts \ {a}
                             /\ users' = [users EXCEPT ![a.name] = IF @ = None THEN a ELSE @]
    BY <1>4 DEF ExecuteInsert
  <2>2. UNCHANGED <<cache, accounts>>
    BY <1>4 DEF ExecuteInsert, books
  <2>3. a \in accounts /\ a \in Accounts /\ a.name \in Names /\ a # None
    BY <1>0, NoneAssumption DEF StoreTypes, Accounts
  <2>4. \A n \in Names : users'[n] = IF n = a.name /\ users[n] = None THEN a ELSE users[n]
    BY <1>0, <2>1 DEF StoreTypes
  <2>5. users' \in [Names -> Accounts \cup {None}]
    BY <1>0, <2>1, <2>3 DEF StoreTypes
  <2>. QED BY <1>0, <2>1, <2>2, <2>3, <2>4, <2>5 DEF StoreTypes, Registered
<1>5. ASSUME LoseInsert PROVE Goal
  BY <1>0, <1>5 DEF LoseInsert, StoreTypes, Registered, books
<1>6. ASSUME CacheLapses PROVE Goal
  <2>1. PICK m \in Names : cache' = [cache EXCEPT ![m] = None]
    BY <1>6 DEF CacheLapses
  <2>2. UNCHANGED <<users, inserts, accounts>>
    BY <1>6 DEF CacheLapses, books
  <2>. QED BY <1>0, <2>1, <2>2 DEF StoreTypes, Registered
<1>7. ASSUME NEW h \in Threads, AccountStep(h) \/ TokenStep(h) \/ RequestFails(h) PROVE Goal
  BY <1>1, <1>2, <1>3, <1>7, StoreUntouched
<1>8. CASE Tick
  BY <1>1, <1>8 DEF Tick, store, books
<1>9. CASE UNCHANGED vars
  BY <1>1, <1>9 DEF vars, store, books
<1>. QED BY <1>4, <1>5, <1>6, <1>7, <1>8, <1>9 DEF Next

-----------------------------------------------------------------------------
(* The keys.                                                               *)

KeyTypes ==
    /\ active \in [Users -> [tok : Tokens, until : Times] \cup {None}]
    /\ black \in [Tokens -> Times \cup {None}]
    /\ granted \subseteq Tokens
    /\ ended \subseteq Tokens
    /\ revoked \subseteq Tokens

KeyVars == <<now, active, black, granted, ended, revoked>>

(* The steps that touch none of the keys. *)
LEMMA KeysUntouched ==
    ASSUME NEW h \in Threads,
           AccountStep(h) \/ TokenStep(h) \/ RequestFails(h),
           ~Activate(h), ~InvalidateBlacklist(h), ~InvalidateDel(h)
    PROVE  UNCHANGED KeyVars
<1>. USE DEF KeyVars, keys, books
<1>1. CASE AccountStep(h)
  BY <1>1 DEF AccountStep, RegisterExists, RegisterQuery, RegisterCache, RegisterPublish,
              LoginExists, LoginQuery, LoginGet, LoginRead, LoginVerify
<1>2. CASE TokenStep(h)
  BY <1>2 DEF TokenStep, VerifyBlacklist, Invalidate, VerifyActive, Serve, InvalidateExpiry
<1>3. CASE RequestFails(h)
  BY <1>3 DEF RequestFails
<1>. QED BY <1>1, <1>2, <1>3

(* Who is barred stays barred: an entry of the blacklist goes only when    *)
(* the last second of its token has begun.                                 *)
LEMMA KeyStep ==
    ASSUME AuthInv, [Next]_vars
    PROVE  /\ KeyTypes' /\ Keys'
           /\ \A t \in Tokens : Barred(t) => Barred(t)'
<1>. DEFINE Goal == KeyTypes' /\ Keys' /\ (\A t \in Tokens : Barred(t) => Barred(t)')
<1>0. KeyTypes /\ Keys /\ now \in Nat
  BY DEF AuthInv, TypeOK, KeyTypes
<1>1. ASSUME UNCHANGED KeyVars PROVE Goal
  BY <1>0, <1>1 DEF KeyTypes, Keys, KeyVars, Issued, Barred, LastSecond, Exp
<1>2. ASSUME NEW h \in Threads, Activate(h) PROVE Goal
  <2>. DEFINE t == req[h].tok
              e == [tok |-> t, until |-> now + PerSecond * ExpireTime]
  <2>1. t \in Tokens /\ Issued(t)
    BY <1>2 DEF AuthInv, Handled, Holds, TokenPlaces, Activate
  <2>2. e \in [tok : Tokens, until : Times]
    BY <2>1, TimeAssumption, Expiries DEF AuthInv
  <2>3. Exp(t) <= e.until
    BY <1>0, <2>1, TokenTimes DEF Issued
  <2>4. /\ active' = [active EXCEPT ![t.user] = e]
        /\ granted' = granted \cup {t}
        /\ ended' = ended \/ \E u \in Users : active[u] # None /\ ended' = ended \cup {active[u].tok}
        /\ UNCHANGED <<now, black, revoked>>
    BY <1>2, <2>1 DEF Activate, SetActive, Tokens
  <2>5. e.tok = t /\ t.user \in Users
    BY <2>1 DEF Tokens
  <2>. HIDE DEF e, t
  <2>6. KeyTypes'
    BY <1>0, <2>1, <2>2, <2>4 DEF KeyTypes
  <2>7. \A u \in Users : active'[u] # None =>
           Issued(active'[u].tok) /\ Exp(active'[u].tok) <= active'[u].until
    BY <1>0, <2>1, <2>3, <2>4, <2>5 DEF KeyTypes, Keys
  <2>. QED BY <1>0, <2>1, <2>4, <2>6, <2>7 DEF Keys, Issued, Barred, LastSecond, Exp
<1>3. ASSUME NEW h \in Threads, InvalidateBlacklist(h) PROVE Goal
  <2>. DEFINE t == req[h].tok
              until == IF req[h].ttl = 0 THEN Forever ELSE now + PerSecond * req[h].ttl
  <2>1. t \in Tokens /\ req[h].ttl \in 0..ExpireTime
        /\ Exp(t) < now + PerSecond * req[h].ttl + PerSecond
    BY <1>3 DEF AuthInv, TypeOK, Handled, Holds, TokenPlaces, InvalidateBlacklist
  <2>2. until \in Times /\ Exp(t) < until + PerSecond
    BY <1>0, <2>1, Expiries, Product, TimeAssumption DEF AuthInv
  <2>3. black' = [black EXCEPT ![t] = until] /\ UNCHANGED <<now, active, granted, ended, revoked>>
    BY <1>3 DEF InvalidateBlacklist, books
  <2>. HIDE DEF until, t
  <2>4. KeyTypes'
    BY <1>0, <2>2, <2>3 DEF KeyTypes
  <2>5. until # None
    BY <2>2, NoneAssumption
  <2>6. \A b \in Tokens : Barred(b) => Barred(b)'
    BY <1>0, <2>3, <2>5 DEF KeyTypes, Barred, LastSecond, Exp
  <2>7. \A b \in Tokens : black'[b] # None => Exp(b) < black'[b] + PerSecond
    BY <1>0, <2>2, <2>3 DEF KeyTypes, Keys
  <2>8. \A b \in revoked' : Barred(b)'
    BY <1>0, <2>3, <2>6 DEF KeyTypes, Keys
  <2>. QED BY <1>0, <2>3, <2>4, <2>6, <2>7, <2>8 DEF Keys, Issued, Exp
<1>4. ASSUME NEW h \in Threads, InvalidateDel(h) PROVE Goal
  <2>. DEFINE t == req[h].tok
  <2>1. t \in Tokens /\ Barred(t) /\ t.user \in Users
    BY <1>4 DEF AuthInv, Handled, Holds, TokenPlaces, InvalidateDel, Tokens
  <2>2. CASE UNCHANGED KeyVars
    BY <1>1, <2>2
  <2>3. CASE active[t.user] # None
    <3>1. /\ active' = [active EXCEPT ![t.user] = None]
          /\ ended' = ended \cup {active[t.user].tok}
          /\ revoked' = revoked \cup {t}
          /\ UNCHANGED <<now, black, granted>>
      BY <1>4, <2>3 DEF InvalidateDel
    <3>. HIDE DEF t
    <3>2. KeyTypes'
      BY <1>0, <2>1, <2>3, <3>1 DEF KeyTypes
    <3>3. \A b \in Tokens : Barred(b) <=> Barred(b)'
      BY <3>1 DEF Barred, LastSecond, Exp
    <3>4. \A b \in revoked' : Barred(b)'
      BY <1>0, <2>1, <3>1, <3>3 DEF KeyTypes, Keys
    <3>5. \A u \in Users : active'[u] # None =>
             Issued(active'[u].tok) /\ Exp(active'[u].tok) <= active'[u].until
      BY <1>0, <3>1 DEF KeyTypes, Keys
    <3>. QED BY <1>0, <3>1, <3>2, <3>3, <3>4, <3>5 DEF Keys, Issued, Exp
  <2>. QED BY <1>4, <2>2, <2>3 DEF InvalidateDel, KeyVars
<1>5. ASSUME Tick PROVE Goal
  <2>1. /\ now' = now + 1
        /\ active' = [u \in Users |-> IF active[u] # None /\ active[u].until <= now'
                                      THEN None ELSE active[u]]
        /\ black' = [t \in Tokens |-> IF black[t] # None /\ black[t] <= now'
                                      THEN None ELSE black[t]]
        /\ UNCHANGED <<granted, ended, revoked>>
    BY <1>5 DEF Tick, books
  <2>2. KeyTypes'
    BY <1>0, <2>1 DEF KeyTypes
  <2>3. \A t \in Tokens : Issued(t) => Issued(t)'
    BY <1>0, <2>1, TokenTimes DEF Issued
  <2>4. ASSUME NEW t \in Tokens, Barred(t) PROVE Barred(t)'
    <3>1. Exp(t) \in Nat /\ PerSecond \in Nat
      BY TokenTimes, TimeAssumption
    <3>2. CASE LastSecond(t)
      BY <1>0, <2>1, <3>1, <3>2 DEF Barred, LastSecond, Exp
    <3>3. CASE black[t] # None /\ black[t] <= now'
      <4>1. Exp(t) < black[t] + PerSecond /\ black[t] \in Nat
        BY <1>0, <3>3, BoundsAssumption, TimeAssumption DEF Keys, KeyTypes, Times
      <4>. QED BY <1>0, <2>1, <3>1, <3>3, <4>1 DEF Barred, LastSecond, Exp
    <3>4. CASE black[t] # None /\ ~(black[t] <= now')
      BY <2>1, <3>4 DEF Barred
    <3>. QED BY <2>4, <3>2, <3>3, <3>4 DEF Barred
  <2>5. ASSUME NEW u \in Users, active'[u] # None
        PROVE  /\ PerSecond * active'[u].tok.iat <= now'
               /\ Exp(active'[u].tok) <= active'[u].until
    <3>1. active'[u] = active[u] /\ active[u] # None /\ active[u].tok \in Tokens
      BY <1>0, <2>1, <2>5 DEF KeyTypes
    <3>2. Issued(active[u].tok) /\ Exp(active[u].tok) <= active[u].until
      BY <1>0, <3>1 DEF Keys
    <3>3. PerSecond * active[u].tok.iat \in Nat
      BY <3>1, TokenTimes
    <3>. QED BY <1>0, <2>1, <3>1, <3>2, <3>3 DEF Issued
  <2>6. \A b \in Tokens : black'[b] # None => Exp(b) < black'[b] + PerSecond
    BY <1>0, <2>1 DEF Keys
  <2>7. (\A t \in granted' : Issued(t)') /\ \A t \in revoked' : Barred(t)'
    BY <1>0, <2>1, <2>3, <2>4 DEF KeyTypes, Keys
  <2>8. Keys'
    BY <2>5, <2>6, <2>7 DEF Keys, Issued, Exp
  <2>. QED BY <2>2, <2>4, <2>8
<1>6. ASSUME NEW h \in Threads, AccountStep(h) \/ TokenStep(h) \/ RequestFails(h) PROVE Goal
  BY <1>1, <1>2, <1>3, <1>4, <1>6, KeysUntouched
<1>7. CASE ExecuteInsert \/ LoseInsert \/ CacheLapses \/ UNCHANGED vars
  BY <1>1, <1>7 DEF ExecuteInsert, LoseInsert, CacheLapses, vars, KeyVars, keys, books
<1>. QED BY <1>5, <1>6, <1>7 DEF Next

-----------------------------------------------------------------------------
(* The time, the counts and who was logged in.                             *)

Counts == /\ now \in 0..MaxTime
          /\ requests \in 0..MaxRequests
          /\ faults \in 0..MaxFaults

LEMMA CountStep ==
    ASSUME Counts, [Next]_vars
    PROVE  Counts' /\ now <= now'
<1>. USE BoundsAssumption DEF Counts
<1>. DEFINE Request == /\ \/ requests' = requests
                          \/ requests < MaxRequests /\ requests' = requests + 1
                       /\ UNCHANGED <<now, faults>>
<1>0. Request => Counts' /\ now = now'
  OBVIOUS
<1>1. ASSUME NEW h \in Threads, AccountStep(h) PROVE Request
  <2>1. ASSUME NEW n \in Names, NEW p \in Passwords, RegisterExists(h, n, p) \/ LoginExists(h, n, p)
        PROVE  Request
    BY <2>1 DEF RegisterExists, LoginExists, Begin
  <2>2. CASE \/ RegisterQuery(h) \/ RegisterCache(h) \/ RegisterPublish(h)
             \/ LoginQuery(h) \/ LoginGet(h) \/ LoginRead(h) \/ LoginVerify(h)
    BY <2>2 DEF RegisterQuery, RegisterCache, RegisterPublish, LoginQuery, LoginGet, LoginRead,
                LoginVerify
  <2>. QED BY <1>1, <2>1, <2>2 DEF AccountStep
<1>2. ASSUME NEW h \in Threads, TokenStep(h) PROVE Request
  <2>1. ASSUME NEW t \in granted, NEW b \in BOOLEAN, VerifyBlacklist(h, t, b) \/ Invalidate(h, t)
        PROVE  Request
    BY <2>1 DEF VerifyBlacklist, Invalidate, Begin
  <2>2. CASE Activate(h) \/ VerifyActive(h) \/ Serve(h)
    BY <2>2 DEF Activate, VerifyActive, Serve
  <2>3. CASE InvalidateExpiry(h) \/ InvalidateBlacklist(h) \/ InvalidateDel(h)
    BY <2>3 DEF InvalidateExpiry, InvalidateBlacklist, InvalidateDel
  <2>. QED BY <1>2, <2>1, <2>2, <2>3 DEF TokenStep
<1>3. ASSUME NEW h \in Threads, RequestFails(h) PROVE Counts' /\ now = now'
  BY <1>3 DEF RequestFails, Fault
<1>4. CASE ExecuteInsert \/ LoseInsert \/ CacheLapses
  BY <1>4 DEF ExecuteInsert, LoseInsert, CacheLapses, Fault
<1>5. CASE Tick
  BY <1>5 DEF Tick
<1>6. CASE UNCHANGED vars
  BY <1>6 DEF vars
<1>. QED BY <1>0, <1>1, <1>2, <1>3, <1>4, <1>5, <1>6 DEF Next

(* Only Activate logs somebody in. *)
LEMMA LoginsStep ==
    ASSUME [Next]_vars, logins' # logins
    PROVE  /\ UNCHANGED <<users, accounts>>
           /\ \E h \in Threads : /\ req[h].at = "activate" /\ req[h].acct # None
                                 /\ logins' = logins \cup {[user |-> req[h].tok.user,
                                                            pwd |-> req[h].pwd]}
<1>1. ASSUME NEW h \in Threads, AccountStep(h) PROVE UNCHANGED logins
  BY <1>1 DEF AccountStep, RegisterExists, RegisterQuery, RegisterCache, RegisterPublish,
              LoginExists, LoginQuery, LoginGet, LoginRead, LoginVerify, books
<1>2. ASSUME NEW h \in Threads, TokenStep(h), ~Activate(h) PROVE UNCHANGED logins
  BY <1>2 DEF TokenStep, VerifyBlacklist, Invalidate, VerifyActive, Serve,
              InvalidateExpiry, InvalidateBlacklist, InvalidateDel, books
<1>3. ASSUME NEW h \in Threads, RequestFails(h) PROVE UNCHANGED logins
  BY <1>3 DEF RequestFails, books
<1>4. ~(ExecuteInsert \/ LoseInsert \/ CacheLapses \/ Tick \/ UNCHANGED vars)
  BY DEF ExecuteInsert, LoseInsert, CacheLapses, Tick, vars, books
<1>5. PICK h \in Threads : Activate(h)
  BY <1>1, <1>2, <1>3, <1>4 DEF Next
<1>. QED BY <1>5 DEF Activate, SetActive, store

(* Who is logged in has an account, and the table had a row of its name.   *)
LoggedIn ==
    \A l \in logins : \A a \in accounts : a.user = l.user => users[a.name] # None

LEMMA LoggedInStep ==
    ASSUME AuthInv, LoginNeedsPassword, LoggedIn, [Next]_vars
    PROVE  /\ (logins \subseteq [user : Users, pwd : Passwords])'
           /\ LoginNeedsPassword' /\ LoggedIn'
<1>1. /\ accounts \subseteq accounts' /\ accounts' \subseteq Accounts
      /\ \A n \in Names : users[n] # None => users'[n] # None
      /\ \A a, b \in accounts' : a.user = b.user => a = b
  BY StoreStep DEF StoreTypes
<1>2. CASE UNCHANGED logins
  <2>1. ASSUME NEW l \in logins, NEW a \in accounts', a.user = l.user
        PROVE  users'[a.name] # None
    <3>1. PICK b \in accounts : b.user = l.user
      BY DEF LoginNeedsPassword
    <3>2. a = b /\ a.name \in Names
      BY <1>1, <2>1, <3>1 DEF Accounts
    <3>. QED BY <1>1, <2>1, <3>1, <3>2 DEF LoggedIn
  <2>. QED BY <1>1, <1>2, <2>1 DEF LoginNeedsPassword, LoggedIn, AuthInv, TypeOK
<1>3. CASE logins' # logins
  <2>1. PICK h \in Threads : /\ req[h].at = "activate" /\ req[h].acct # None
                             /\ logins' = logins \cup {[user |-> req[h].tok.user,
                                                        pwd |-> req[h].pwd]}
    BY <1>3, LoginsStep
  <2>2. UNCHANGED <<users, accounts>>
    BY <1>3, LoginsStep
  <2>. DEFINE a == req[h].acct
  <2>3. /\ a \in accounts /\ a.user = req[h].tok.user
        /\ req[h].pwd = a.pwd /\ users[a.name] # None
    BY <2>1 DEF AuthInv, Handled, Admitted
  <2>4. a.user \in Users /\ a.pwd \in Passwords
    BY <2>3 DEF AuthInv, TypeOK, Accounts
  <2>5. logins' = logins \cup {[user |-> a.user, pwd |-> a.pwd]}
    BY <2>1, <2>3
  <2>. HIDE DEF a
  <2>6. (logins \subseteq [user : Users, pwd : Passwords])'
    BY <2>4, <2>5 DEF AuthInv, TypeOK
  <2>7. LoginNeedsPassword'
    BY <2>2, <2>3, <2>5 DEF LoginNeedsPassword
  <2>8. LoggedIn'
    BY <1>1, <2>2, <2>3, <2>5 DEF LoggedIn
  <2>. QED BY <2>6, <2>7, <2>8
<1>. QED BY <1>2, <1>3

-----------------------------------------------------------------------------
(* The invariant, and what follows from it.                                *)

(* What a request knows stays true while others are handled. *)
LEMMA HandledStep ==
    ASSUME AuthInv, [Next]_vars
    PROVE  req' \in [Threads -> Requests] /\ Handled'
<1>0. /\ req \in [Threads -> Requests]
      /\ now \in Nat /\ now' \in Nat /\ now <= now'
      /\ accounts \subseteq accounts'
      /\ \A n \in Names : users[n] # None => users'[n] # None
      /\ \A t \in Tokens : Barred(t) => Barred(t)'
  <2>1. Counts' /\ now <= now'
    BY CountStep DEF AuthInv, TypeOK, Counts
  <2>. QED BY <2>1, StoreStep, KeyStep DEF AuthInv, TypeOK, Counts, Requests
<1>1. ASSUME NEW g \in Threads, req'[g] = req[g]
      PROVE  Looked(req[g])' /\ Admitted(req[g])' /\ Holds(req[g])'
  <2>. DEFINE t == req[g].tok
  <2>1. Looked(req[g]) /\ Admitted(req[g]) /\ Holds(req[g])
    BY DEF AuthInv, Handled
  <2>2. Looked(req[g])'
    BY <1>0, <1>1, <2>1 DEF Looked
  <2>3. Admitted(req[g])'
    <3>1. req[g].acct \in accounts => req[g].acct.name \in Names
      BY DEF AuthInv, TypeOK, Accounts
    <3>. QED BY <1>0, <1>1, <2>1, <3>1 DEF Admitted
  <2>4. Holds(req[g])'
    <3>. USE TimeAssumption
    <3>1. ASSUME req[g].at \in TokenPlaces
          PROVE  /\ t \in Tokens /\ PerSecond * t.iat \in Nat /\ Exp(t) \in Nat
                 /\ PerSecond * t.iat <= now'
      BY <1>0, <2>1, <3>1, TokenTimes DEF Holds, Issued
    <3>2. req[g].at = "v_active" /\ req[g].stale => Exp(t) < now' + PerSecond
      BY <1>0, <2>1, <3>1 DEF Holds, LastSecond, TokenPlaces
    <3>3. req[g].at = "i_black" => Exp(t) < now' + PerSecond * req[g].ttl + PerSecond
      <4>1. PerSecond * req[g].ttl \in Nat
        BY <1>0, Product DEF Requests
      <4>. QED BY <1>0, <2>1, <3>1, <4>1 DEF Holds, TokenPlaces
    <3>4. req[g].at = "i_del" => black'[t] # None \/ Exp(t) < now' + PerSecond
      BY <1>0, <2>1, <3>1 DEF Holds, TokenPlaces, Barred, LastSecond, Exp
    <3>5. req[g].at \in TokenPlaces \ {"activate"} => req[g].acct = None
      BY <2>1 DEF Holds
    <3>. QED BY <1>1, <3>1, <3>2, <3>3, <3>4, <3>5 DEF Holds, Issued, LastSecond, Barred, Exp
  <2>. QED BY <2>2, <2>3, <2>4
<1>2. ASSUME NEW h \in Threads, Handles(h) PROVE req' \in [Threads -> Requests] /\ Handled'
  <2>1. \A g \in Threads \ {h} : req'[g] = req[g]
    BY <1>2 DEF Handles
  <2>2. ASSUME NEW g \in Threads PROVE Looked(req[g])' /\ Admitted(req[g])' /\ Holds(req[g])'
    BY <1>1, <1>2, <2>1 DEF Handles
  <2>. QED BY <1>2, <2>2 DEF Handles, Handled
<1>3. CASE \E h \in Threads : AccountStep(h) \/ TokenStep(h) \/ RequestFails(h)
  <2>1. PICK h \in Threads : AccountStep(h) \/ TokenStep(h) \/ RequestFails(h)
    BY <1>3
  <2>2. Handles(h)
    BY <2>1, RegisterHandles, LoginHandles, TokenHandles DEF AccountStep
  <2>. QED BY <1>2, <2>2
<1>4. CASE UNCHANGED req
  BY <1>0, <1>1, <1>4 DEF Handled
<1>5. CASE ExecuteInsert \/ LoseInsert \/ CacheLapses \/ Tick \/ UNCHANGED vars
  BY <1>4, <1>5 DEF ExecuteInsert, LoseInsert, CacheLapses, Tick, vars
<1>. QED BY <1>3, <1>5 DEF Next

Inv == AuthInv /\ LoginNeedsPassword /\ LoggedIn

LEMMA InitInv == Init => Inv /\ SessionLasts
<1>. SUFFICES ASSUME Init PROVE Inv /\ SessionLasts
  OBVIOUS
<1>1. TypeOK
  <2>1. req \in [Threads -> Requests]
    BY IdleIsRequest DEF Init
  <2>. QED BY <2>1, BoundsAssumption DEF Init, TypeOK, Requests
<1>2. Registered
  BY FS_EmptySet DEF Init, Registered
<1>3. Handled
  <2>1. \A h \in Threads : req[h].at = "idle"
    BY DEF Init, Idle
  <2>. QED BY <2>1 DEF Handled, Looked, Admitted, Holds, TokenPlaces
<1>4. Keys
  BY DEF Init, Keys
<1>. QED BY <1>1, <1>2, <1>3, <1>4
         DEF Init, Inv, AuthInv, LoginNeedsPassword, LoggedIn, SessionLasts

LEMMA NextInv == Inv /\ [Next]_vars => Inv'
<1>. SUFFICES ASSUME Inv, [Next]_vars PROVE Inv'
  OBVIOUS
<1>0. AuthInv /\ LoginNeedsPassword /\ LoggedIn
  BY DEF Inv
<1>1. TypeOK'
  <2>1. StoreTypes' /\ KeyTypes'
    BY <1>0, StoreStep, KeyStep
  <2>2. Counts'
    BY <1>0, CountStep DEF AuthInv, TypeOK, Counts
  <2>3. req' \in [Threads -> Requests]
    BY <1>0, HandledStep
  <2>4. (logins \subseteq [user : Users, pwd : Passwords])'
    BY <1>0, LoggedInStep
  <2>. QED BY <2>1, <2>2, <2>3, <2>4 DEF TypeOK, StoreTypes, KeyTypes, Counts, Requests
<1>. QED BY <1>0, <1>1, StoreStep, KeyStep, HandledStep, LoggedInStep DEF Inv, AuthInv

LEMMA SpecInv == Spec => []Inv
BY InitInv, NextInv, PTL DEF Spec

(* Every variable keeps its type, and no two accounts the same user_uuid,  *)
(* whatever the threads that register, log in and refresh at once.         *)
THEOREM AuthTypes == Spec => []TypeOK
<1>1. Inv => TypeOK
  BY DEF Inv, AuthInv
<1>. QED BY <1>1, SpecInv, PTL

(* The password of a login is the one of an account with its user_uuid,    *)
(* for any number of registrations of one name (loginService).             *)
THEOREM PasswordNeeded == Spec => []LoginNeedsPassword
<1>1. Inv => LoginNeedsPassword
  BY DEF Inv
<1>. QED BY <1>1, SpecInv, PTL

(* Who is logged in is in the table, or shares the name with another       *)
(* accepted registration (queryUserNameExist, loginService).               *)
THEOREM LoginsHaveAccounts == Spec => []SessionHasAccount
<1>1. Inv => SessionHasAccount
  <2>. SUFFICES ASSUME Inv, NEW l \in logins, NEW a \in accounts, a.user = l.user,
                       users[a.name] # a
                PROVE  \E b \in accounts : b.name = a.name /\ b # a
    BY DEF SessionHasAccount
  <2>1. a.name \in Names /\ users[a.name] # None
    BY DEF Inv, AuthInv, TypeOK, Accounts, LoggedIn
  <2>2. users[a.name] \in accounts /\ users[a.name].name = a.name
    BY <2>1 DEF Inv, AuthInv, Registered
  <2>. QED BY <2>2
<1>. QED BY <1>1, SpecInv, PTL

(* A token that was revoked before the request came is let through only in *)
(* its last second (verifyToken, invalidateToken).                         *)
THEOREM RevokedStaysOut == Spec => RevokedIsRefused
<1>1. ASSUME Inv, [Next]_vars, NEW h \in Threads,
             req[h].at = "v_active", req'[h].at \in {"serve", "i_expiry"}, req[h].stale
      PROVE  now > Exp(req[h].tok) - PerSecond
  <2>1. LastSecond(req[h].tok) /\ req[h].tok \in Tokens
    BY <1>1 DEF Inv, AuthInv, Handled, Holds, TokenPlaces
  <2>2. now \in Nat /\ Exp(req[h].tok) \in Nat /\ PerSecond \in Nat
    BY <1>1, <2>1, TokenTimes, TimeAssumption DEF Inv, AuthInv, TypeOK
  <2>. QED BY <2>1, <2>2 DEF LastSecond
<1>2. Inv /\ [Next]_vars =>
         [\A h \in Threads :
             req[h].at = "v_active" /\ req'[h].at \in {"serve", "i_expiry"} /\ req[h].stale
                => now > Exp(req[h].tok) - PerSecond]_vars
  BY <1>1
<1>. QED BY <1>2, SpecInv, PTL DEF Spec, RevokedIsRefused

-----------------------------------------------------------------------------
(* The steps that change the active entries and the tokens that count.     *)
LEMMA SessionStep ==
    ASSUME Inv, SessionLasts, [Next]_vars
    PROVE  SessionLasts'
<1>0. KeyTypes /\ Keys /\ now \in Nat /\ now' \in Nat
  <2>1. Counts'
    BY CountStep DEF Inv, AuthInv, TypeOK, Counts
  <2>. QED BY <2>1 DEF Inv, AuthInv, TypeOK, KeyTypes, Counts
<1>1. ASSUME UNCHANGED KeyVars PROVE SessionLasts'
  BY <1>1 DEF SessionLasts, IsActive, KeyVars, Exp
<1>2. ASSUME NEW h \in Threads, Activate(h) PROVE SessionLasts'
  <2>. DEFINE t == req[h].tok
              e == [tok |-> t, until |-> now + PerSecond * ExpireTime]
  <2>1. /\ active' = [active EXCEPT ![t.user] = e]
        /\ granted' = granted \cup {t}
        /\ ended' = IF active[t.user] # None /\ active[t.user].tok # t
                    THEN ended \cup {active[t.user].tok} ELSE ended
        /\ UNCHANGED now
    BY <1>2 DEF Activate, SetActive
  <2>2. t.user \in Users /\ e.tok = t /\ e # None
    <3>1. t \in Tokens
      BY <1>2 DEF Inv, AuthInv, Handled, Holds, TokenPlaces, Activate
    <3>2. e \in [tok : Tokens, until : Times]
      BY <3>1, TimeAssumption, Expiries DEF Inv, AuthInv
    <3>. QED BY <3>1, <3>2, NoneAssumption DEF Tokens
  <2>. HIDE DEF e, t
  <2>3. ASSUME NEW s \in granted' \ ended', now' < Exp(s)
        PROVE  active'[s.user] # None /\ active'[s.user].tok = s
    <3>1. s = t \/ (s \in granted \ ended /\ active[s.user] # None /\ active[s.user].tok = s)
      BY <2>1, <2>3 DEF SessionLasts, IsActive
    <3>. QED BY <1>0, <2>1, <2>2, <3>1 DEF KeyTypes
  <2>. QED BY <2>1, <2>3 DEF SessionLasts, IsActive, Exp
<1>3. ASSUME NEW h \in Threads, InvalidateBlacklist(h) PROVE SessionLasts'
  BY <1>3 DEF InvalidateBlacklist, books, SessionLasts, IsActive, Exp
<1>4. ASSUME NEW h \in Threads, InvalidateDel(h) PROVE SessionLasts'
  <2>. DEFINE u == req[h].tok.user
  <2>1. CASE UNCHANGED KeyVars
    BY <1>1, <2>1
  <2>2. CASE active[u] # None
    <3>1. /\ active' = [active EXCEPT ![u] = None]
          /\ ended' = ended \cup {active[u].tok}
          /\ UNCHANGED <<now, granted>>
      BY <1>4, <2>2 DEF InvalidateDel
    <3>. HIDE DEF u
    <3>2. ASSUME NEW s \in granted' \ ended', now' < Exp(s)
          PROVE  active'[s.user] # None /\ active'[s.user].tok = s
      <4>1. active[s.user] # None /\ active[s.user].tok = s /\ s # active[u].tok
        BY <3>1, <3>2 DEF SessionLasts, IsActive
      <4>. QED BY <1>0, <3>1, <4>1 DEF KeyTypes
    <3>. QED BY <3>1, <3>2 DEF SessionLasts, IsActive, Exp
  <2>. QED BY <1>4, <2>1, <2>2 DEF InvalidateDel, KeyVars
<1>5. ASSUME Tick PROVE SessionLasts'
  <2>1. /\ active' = [u \in Users |-> IF active[u] # None /\ active[u].until <= now'
                                      THEN None ELSE active[u]]
        /\ UNCHANGED <<granted, ended>> /\ now' = now + 1
    BY <1>5 DEF Tick, books
  <2>2. ASSUME NEW s \in granted' \ ended', now' < Exp(s)
        PROVE  active'[s.user] # None /\ active'[s.user].tok = s
    <3>1. s \in Tokens /\ s.user \in Users /\ Exp(s) \in Nat
      BY <1>0, <2>1, TokenTimes DEF KeyTypes, Tokens
    <3>2. now < Exp(s)
      BY <1>0, <2>1, <2>2, <3>1
    <3>3. active[s.user] # None /\ active[s.user].tok = s
      BY <2>1, <3>2 DEF SessionLasts, IsActive
    <3>4. active[s.user].until \in Nat /\ Exp(s) <= active[s.user].until
      BY <1>0, <3>1, <3>3, BoundsAssumption, TimeAssumption DEF Keys, KeyTypes, Times
    <3>. QED BY <1>0, <2>1, <2>2, <3>1, <3>3, <3>4
  <2>. QED BY <2>1, <2>2 DEF SessionLasts, IsActive, Exp
<1>6. ASSUME NEW h \in Threads, AccountStep(h) \/ TokenStep(h) \/ RequestFails(h)
      PROVE  SessionLasts'
  BY <1>1, <1>2, <1>3, <1>4, <1>6, KeysUntouched
<1>7. CASE ExecuteInsert \/ LoseInsert \/ CacheLapses \/ UNCHANGED vars
  BY <1>1, <1>7 DEF ExecuteInsert, LoseInsert, CacheLapses, vars, KeyVars, keys, books
<1>. QED BY <1>5, <1>6, <1>7 DEF Next

(* A token is the active one of its user as long as it is good, unless it  *)
(* was replaced or deleted, for every unit of time and every ExpireTime    *)
(* (generateToken).                                                        *)
THEOREM SessionsLast == Spec => []SessionLasts
<1>1. Inv /\ Inv' /\ SessionLasts /\ [Next]_vars => SessionLasts'
  BY SessionStep
<1>. QED BY <1>1, InitInv, SpecInv, PTL DEF Spec
=============================================================================
