--------------------------- MODULE OAuthRefreshProof ---------------------------
(***************************************************************************)
(* For any number of processes, logins and tokens, and any policy of the   *)
(* server: what is borrowed is neither refreshed nor stored, what is sent  *)
(* was stored before, is as fresh as it was found, and goes with no        *)
(* account but its own, and with that if its login named it.               *)
(*                                                                         *)
(* The invariant follows a credential on its way through a run: what a run *)
(* refreshes, stores or logs in with is bz's Own, of one login in all its  *)
(* parts; an answer belongs to the login that was asked about.             *)
(*                                                                         *)
(* Then, that refreshing loses no login (ServeInv); and the logins: in     *)
(* detail they do what the one step of OAuthRefresh does, and heed their   *)
(* user.                                                                   *)
(***************************************************************************)
EXTENDS Login, TLAPS

\* A credential of bz's own, all of one login.
Own(c) == c.access.login \in Logins /\ c.refresh.login = c.access.login
          /\ Belongs(c.account, c.access)

StoreOK == store \in Creds => Own(store) /\ store.access \in persisted

AmbientOK == ambient \in Creds => ambient.access.login = Tool /\ Belongs(ambient.account, ambient.access)

\* A grant belongs to the login the run asks about.
ReplyOK(p) ==
    /\ pc[p] = "answered" <=> reply[p] # None
    /\ Granted(p) =>
          /\ reply[p].access.login = cred[p].access.login
          /\ reply[p].refresh # None => reply[p].refresh.login = reply[p].access.login
          /\ reply[p].account \in {None, reply[p].access.login}

CredOK(p) ==
    pc[p] \in {"refresh", "answered", "persist", "log_in"} => cred[p] \in Creds /\ Own(cred[p])

BearerOK(p) ==
    /\ pc[p] \in {"persist", "send"} =>
          bearer[p] \in Bearers /\ Belongs(bearer[p].account, bearer[p].access)
    /\ pc[p] # "send" => checked[p] = None
    /\ pc[p] = "persist" => bearer[p].access = cred[p].access
    /\ pc[p] = "send" =>
          /\ bearer[p].access.login # Tool => bearer[p].access \in persisted
          /\ checked[p] # None => checked[p] + SKEW < bearer[p].expires_at

RunOK(p) == ReplyOK(p) /\ CredOK(p) /\ BearerOK(p)

Inv == TypeOK /\ StoreOK /\ AmbientOK /\ \A p \in Runs : RunOK(p)

LEMMA InitInv == Init => Inv
  BY OAuthAssumption, NullAssumption
     DEF Init, Inv, TypeOK, StoreOK, AmbientOK, RunOK, ReplyOK, CredOK, BearerOK, Granted, Creds,
         server

\* Whatever ends a run leaves nothing behind that could break the invariant.
LEMMA ExitsInv ==
  ASSUME Inv, NEW p \in Runs, NEW code \in {0, 69, 77, 130}, Exits(p, code),
         UNCHANGED <<now, policy, logins, issued, live, named>>, UNCHANGED <<store, ambient, persisted>>,
         strayed' \subseteq Logins
  PROVE  Inv'
<1> USE OAuthAssumption, NullAssumption
<1>1. TypeOK'
  BY DEF Exits, Inv, TypeOK
<1>2. StoreOK' /\ AmbientOK'
  BY DEF Inv, StoreOK, AmbientOK, Own, Belongs
<1>3. ASSUME NEW q \in Runs PROVE RunOK(q)'
  BY <1>3 DEF Exits, Inv, TypeOK, RunOK, ReplyOK, CredOK, BearerOK, Granted, Own, Belongs
<1> QED BY <1>1, <1>2, <1>3 DEF Inv

\* Taking a fresh credential to send.
LEMMA SendsInv ==
  ASSUME Inv, NEW p \in Runs, NEW c \in Creds, Sends(p, c),
         pc[p] # "answered",
         Belongs(c.account, c.access), c.access.login # Tool => c.access \in persisted,
         ~ IsExpired(c.expires_at, now),
         UNCHANGED <<now, policy, logins, issued, live, named, store, ambient, persisted, strayed>>
  PROVE  Inv'
<1> USE OAuthAssumption, NullAssumption
<1>1. BearerOf(c, c.account) \in Bearers
  BY DEF BearerOf, Bearers, Creds
<1>2. TypeOK'
  BY <1>1 DEF Sends, Inv, TypeOK
<1>3. StoreOK' /\ AmbientOK'
  BY DEF Inv, StoreOK, AmbientOK, Own, Belongs
<1>4. now + SKEW < c.expires_at
  BY DEF Inv, TypeOK, IsExpired, Creds
<1>5. ASSUME NEW q \in Runs PROVE RunOK(q)'
  BY <1>1, <1>4, <1>5 DEF Sends, Inv, TypeOK, RunOK, ReplyOK, CredOK, BearerOK, Granted, Own, Belongs, BearerOf
<1> QED BY <1>2, <1>3, <1>5 DEF Inv

\* A credential from either source: used, refused, or refreshed if it is one's own.
LEMMA ExamineInv ==
  ASSUME Inv, NEW p \in Runs, NEW c \in Creds \cup {WrongKind}, NEW source \in {"owned", "borrowed"},
         Examine(p, c, source), pc[p] \in {"idle", "discover"},
         c \in Creds => /\ Belongs(c.account, c.access)
                        /\ c.access.login # Tool => c.access \in persisted
                        /\ source = "owned" => Own(c),
         UNCHANGED <<now, policy, logins, issued, live, named, store, ambient, persisted, strayed>>
  PROVE  Inv'
<1> USE OAuthAssumption, NullAssumption
<1>0. strayed' \subseteq Logins
  BY DEF Inv, TypeOK
<1>1. CASE c = WrongKind
  BY <1>0, <1>1, ExitsInv DEF Examine
<1>2. CASE c # WrongKind /\ ~ IsExpired(c.expires_at, now)
  BY <1>2, SendsInv DEF Examine
<1>3. CASE c # WrongKind /\ IsExpired(c.expires_at, now) /\ source = "borrowed"
  BY <1>0, <1>3, ExitsInv DEF Examine
<1>4. CASE c # WrongKind /\ IsExpired(c.expires_at, now) /\ source = "owned"
  <2>1. /\ c \in Creds /\ Own(c)
        /\ pc' = [pc EXCEPT ![p] = "refresh"] /\ cred' = [cred EXCEPT ![p] = c]
        /\ exit' = [exit EXCEPT ![p] = None]
        /\ UNCHANGED <<reply, bearer, checked>>
    BY <1>4 DEF Examine
  <2>2. TypeOK'
    BY <2>1 DEF Inv, TypeOK
  <2>3. StoreOK' /\ AmbientOK'
    BY DEF Inv, StoreOK, AmbientOK, Own, Belongs
  <2>4. ASSUME NEW q \in Runs PROVE RunOK(q)'
    BY <2>1, <2>4 DEF Inv, TypeOK, RunOK, ReplyOK, CredOK, BearerOK, Granted, Own, Belongs
  <2> QED BY <2>2, <2>3, <2>4 DEF Inv
<1> QED BY <1>1, <1>2, <1>3, <1>4

LEMMA GetInv ==
  ASSUME Inv, NEW p \in Runs, Get(p)
  PROVE  Inv'
<1> USE OAuthAssumption, NullAssumption
<1>1. CASE store # None
  <2>1. store \in Creds \cup {WrongKind}
    BY <1>1 DEF Inv, TypeOK
  <2>2. store \in Creds => Own(store) /\ store.access \in persisted
    BY DEF Inv, StoreOK
  <2>3. /\ Examine(p, store, "owned") /\ pc[p] \in {"idle", "discover"}
        /\ UNCHANGED <<now, policy, logins, issued, live, named, store, ambient, persisted, strayed>>
    BY <1>1 DEF Get, server
  <2> QED BY <2>1, <2>2, <2>3, ExamineInv DEF Own, Belongs
<1>2. CASE store = None
  <2>1. /\ pc[p] = "idle" /\ pc' = [pc EXCEPT ![p] = "discover"]
        /\ exit' = [exit EXCEPT ![p] = None]
        /\ UNCHANGED <<now, policy, logins, issued, live, named, store, ambient, persisted, strayed>>
        /\ UNCHANGED <<cred, reply, bearer, checked>>
    BY <1>2 DEF Get, server
  <2>2. TypeOK'
    BY <2>1 DEF Inv, TypeOK
  <2>3. StoreOK' /\ AmbientOK'
    BY <2>1 DEF Inv, StoreOK, AmbientOK, Own, Belongs
  <2>4. ASSUME NEW q \in Runs PROVE RunOK(q)'
    BY <2>1, <2>4 DEF Inv, TypeOK, RunOK, ReplyOK, CredOK, BearerOK, Granted, Own, Belongs
  <2> QED BY <2>2, <2>3, <2>4 DEF Inv
<1> QED BY <1>1, <1>2

LEMMA DiscoverInv ==
  ASSUME Inv, NEW p \in Runs, Discover(p)
  PROVE  Inv'
<1> USE OAuthAssumption, NullAssumption
<1>1. UNCHANGED <<now, policy, logins, issued, live, named, store, ambient, persisted, strayed>>
  BY DEF Discover, server
<1>2. CASE HasAmbient /\ ambient # None
  <2>1. ambient \in Creds \cup {WrongKind}
    BY <1>2 DEF Inv, TypeOK
  <2>2. ambient \in Creds => Belongs(ambient.account, ambient.access) /\ ambient.access.login = Tool
    BY DEF Inv, AmbientOK
  <2>3. Examine(p, ambient, "borrowed") /\ pc[p] \in {"idle", "discover"}
    BY <1>2 DEF Discover
  <2> QED BY <1>1, <2>1, <2>2, <2>3, ExamineInv
<1>3. CASE ~ (HasAmbient /\ ambient # None)
  <2>1. Exits(p, 77) /\ strayed' \subseteq Logins
    BY <1>1, <1>3 DEF Discover, Inv, TypeOK
  <2> QED BY <1>1, <2>1, ExitsInv
<1> QED BY <1>2, <1>3

\* What the server answers: nothing, no token, or tokens of the login it was asked for.
LEMMA AskInv ==
  ASSUME Inv, NEW p \in Runs, Ask(p)
  PROVE  Inv'
<1> USE OAuthAssumption, NullAssumption
<1>1. /\ pc[p] = "refresh"
      /\ UNCHANGED <<now, policy, logins, named, store, ambient, persisted, strayed>>
  BY DEF Ask
<1>2. cred[p] \in Creds /\ Own(cred[p]) /\ strayed' \subseteq Logins
  BY <1>1 DEF Inv, RunOK, CredOK, TypeOK
<1>3. CASE Exits(p, 69) /\ UNCHANGED <<issued, live>>
  BY <1>1, <1>2, <1>3, ExitsInv
<1>4. ASSUME NEW a \in Grants \cup {Refused, Busy},
             a \in Grants => /\ a.access.login = cred[p].access.login
                             /\ a.refresh # None => a.refresh.login = a.access.login
                             /\ a.account \in {None, a.access.login},
             reply' = [reply EXCEPT ![p] = a],
             pc' = [pc EXCEPT ![p] = "answered"],
             UNCHANGED <<cred, bearer, checked, exit>>,
             issued' \in [Logins -> 0..MaxSerial], live' \in [Logins -> 0..MaxSerial]
      PROVE  Inv'
  <2>1. TypeOK'
    BY <1>1, <1>4 DEF Inv, TypeOK
  <2>2. StoreOK' /\ AmbientOK'
    BY <1>1 DEF Inv, StoreOK, AmbientOK, Own, Belongs
  <2>3. ASSUME NEW q \in Runs PROVE RunOK(q)'
    BY <1>1, <1>2, <1>4, <2>3 DEF Inv, TypeOK, RunOK, ReplyOK, CredOK, BearerOK, Granted, Own, Belongs
  <2> QED BY <2>1, <2>2, <2>3 DEF Inv
<1> DEFINE r == cred[p].refresh
           l == r.login
           n == issued[l] + 1
<1>5. l \in Logins /\ l = cred[p].access.login
  BY <1>2 DEF Own, Belongs, Creds
<1>6. ASSUME n <= MaxSerial, issued' = [issued EXCEPT ![l] = n],
             live' = [live EXCEPT ![l] = IF policy # "keeps" THEN n ELSE @],
             NEW life \in {0, Life}, NEW account \in {None, l},
             reply' = [reply EXCEPT ![p] =
                [access |-> [login |-> l, serial |-> n], account |-> account, life |-> life,
                 refresh |-> IF policy # "keeps" THEN [login |-> l, serial |-> n] ELSE None]],
             pc' = [pc EXCEPT ![p] = "answered"],
             UNCHANGED <<cred, bearer, checked, exit>>
      PROVE  Inv'
  <2> DEFINE a == [access |-> [login |-> l, serial |-> n], account |-> account, life |-> life,
                   refresh |-> IF policy # "keeps" THEN [login |-> l, serial |-> n] ELSE None]
  <2>1. n \in 0..MaxSerial /\ issued \in [Logins -> 0..MaxSerial] /\ live \in [Logins -> 0..MaxSerial]
    BY <1>5, <1>6 DEF Inv, TypeOK
  <2>2. issued' \in [Logins -> 0..MaxSerial] /\ live' \in [Logins -> 0..MaxSerial]
    BY <1>6, <2>1
  <2>3. [login |-> l, serial |-> n] \in Tokens
    BY <1>5, <2>1 DEF Tokens
  <2>4. a \in Grants
    BY <1>5, <1>6, <2>3 DEF Grants
  <2>5. /\ a.access.login = cred[p].access.login
        /\ a.refresh # None => a.refresh.login = a.access.login
        /\ a.account \in {None, a.access.login}
    BY <1>5, <1>6
  <2>6. reply' = [reply EXCEPT ![p] = a]
    BY <1>6
  <2> HIDE DEF a, n, l, r
  <2> QED BY <1>4, <1>6, <2>2, <2>4, <2>5, <2>6
<1>7. ASSUME NEW a \in {Refused, Busy},
             reply' = [reply EXCEPT ![p] = a],
             pc' = [pc EXCEPT ![p] = "answered"],
             UNCHANGED <<issued, cred, bearer, checked, exit>>,
             live' \in [Logins -> 0..MaxSerial]
      PROVE  Inv'
  <2>1. a \notin Grants /\ issued' \in [Logins -> 0..MaxSerial]
    BY <1>7 DEF Inv, TypeOK
  <2> QED BY <1>4, <1>7, <2>1
<1>8. /\ [k \in Logins |-> IF k = l /\ policy = "revokes" THEN 0 ELSE live[k]] \in [Logins -> 0..MaxSerial]
      /\ live \in [Logins -> 0..MaxSerial]
  BY DEF Inv, TypeOK
<1> QED BY <1>3, <1>6, <1>7, <1>8 DEF Ask

LEMMA StraysType ==
  ASSUME Inv, NEW p \in Runs, Strays(p)
  PROVE  strayed' \subseteq Logins
<1>1. Granted(p) => reply[p].access.login \in Logins
  BY NullAssumption DEF Inv, RunOK, ReplyOK, CredOK, Own, Belongs, Granted
<1>2. pc[p] = "persist" => cred[p].access.login \in Logins
  BY DEF Inv, RunOK, CredOK, Own, Belongs
<1> QED BY <1>1, <1>2 DEF Strays, Inv, TypeOK

\* as_cred keeps all parts of a credential in one login.
LEMMA AsCredOwn ==
  ASSUME NEW t \in Grants, NEW c \in Creds, Own(c), now \in 0..MaxTime,
         t.access.login = c.access.login,
         t.refresh # None => t.refresh.login = t.access.login,
         t.account \in {None, t.access.login}
  PROVE  AsCred(t, c) \in Creds /\ Own(AsCred(t, c)) /\ AsCred(t, c).access = t.access
<1>1. now + t.life \in 0..(MaxTime + Life)
  BY OAuthAssumption DEF Grants
<1>2. (IF t.refresh = None THEN c.refresh ELSE t.refresh) \in Tokens
  BY DEF Grants, Creds
<1>3. (IF t.account = None THEN c.account ELSE t.account) \in {Tool, None} \cup Logins
  BY DEF Grants, Creds
<1>4. t.access \in Tokens
  BY DEF Grants
<1>5. AsCred(t, c) \in Creds
  BY <1>1, <1>2, <1>3, <1>4 DEF AsCred, Creds
<1>6. Own(AsCred(t, c))
  BY NullAssumption DEF AsCred, Own, Belongs, Logins, Tool
<1> QED BY <1>5, <1>6 DEF AsCred

LEMMA ReceiveInv ==
  ASSUME Inv, NEW p \in Runs, Receive(p)
  PROVE  Inv'
<1> USE OAuthAssumption, NullAssumption
<1>1. pc[p] = "answered" /\ UNCHANGED <<now, policy, logins, issued, live, named, store, ambient, persisted>>
  BY DEF Receive, server
<1>2. cred[p] \in Creds /\ Own(cred[p]) /\ now \in 0..MaxTime
  BY <1>1 DEF Inv, RunOK, CredOK, TypeOK
<1>3. CASE Exits(p, 69) /\ Strays(p)
  BY <1>1, <1>3, StraysType, ExitsInv
<1>4. CASE /\ reply[p] \in {Refused, Busy}
           /\ pc' = [pc EXCEPT ![p] = "spent"] /\ reply' = [reply EXCEPT ![p] = None]
           /\ UNCHANGED <<cred, bearer, checked, exit, strayed>>
  <2>1. TypeOK'
    BY <1>1, <1>4 DEF Inv, TypeOK
  <2>2. StoreOK' /\ AmbientOK'
    BY <1>1 DEF Inv, StoreOK, AmbientOK, Own, Belongs
  <2>3. ASSUME NEW q \in Runs PROVE RunOK(q)'
    BY <1>1, <1>4, <2>3 DEF Inv, TypeOK, RunOK, ReplyOK, CredOK, BearerOK, Granted, Own, Belongs
  <2> QED BY <2>1, <2>2, <2>3 DEF Inv
<1>5. CASE /\ Granted(p)
           /\ cred' = [cred EXCEPT ![p] = AsCred(reply[p], cred[p])]
           /\ bearer' = [bearer EXCEPT ![p] = BearerOf(AsCred(reply[p], cred[p]), cred[p].account)]
           /\ pc' = [pc EXCEPT ![p] = "persist"] /\ reply' = [reply EXCEPT ![p] = None]
           /\ UNCHANGED <<checked, exit, strayed>>
  <2> DEFINE c == AsCred(reply[p], cred[p])
             b == BearerOf(c, cred[p].account)
  <2>1. reply[p] \in Grants
    BY <1>5 DEF Inv, TypeOK, Granted
  <2>2. /\ reply[p].access.login = cred[p].access.login
        /\ reply[p].refresh # None => reply[p].refresh.login = reply[p].access.login
        /\ reply[p].account \in {None, reply[p].access.login}
    BY <1>5 DEF Inv, RunOK, ReplyOK
  <2>3. c \in Creds /\ Own(c) /\ c.access = reply[p].access
    BY <1>2, <2>1, <2>2, AsCredOwn
  <2> HIDE DEF c
  <2>4. b \in Bearers /\ b.access = c.access /\ Belongs(b.account, b.access)
    BY <1>2, <2>2, <2>3 DEF BearerOf, Bearers, Creds, Own, Belongs, Logins, Tool
  <2> HIDE DEF b
  <2>5. /\ cred' = [cred EXCEPT ![p] = c] /\ bearer' = [bearer EXCEPT ![p] = b]
        /\ pc' = [pc EXCEPT ![p] = "persist"] /\ reply' = [reply EXCEPT ![p] = None]
        /\ UNCHANGED <<checked, exit, strayed>>
    BY <1>5 DEF b, c
  <2>6. TypeOK'
    BY <1>1, <2>3, <2>4, <2>5 DEF Inv, TypeOK
  <2>7. StoreOK' /\ AmbientOK'
    BY <1>1 DEF Inv, StoreOK, AmbientOK, Own, Belongs
  <2>8. ASSUME NEW q \in Runs PROVE RunOK(q)'
    BY <1>1, <2>3, <2>4, <2>5, <2>8 DEF Inv, TypeOK, RunOK, ReplyOK, CredOK, BearerOK, Granted, Own, Belongs
  <2> QED BY <2>6, <2>7, <2>8 DEF Inv
<1> QED BY <1>3, <1>4, <1>5 DEF Receive

LEMMA SpentInv ==
  ASSUME Inv, NEW p \in Runs, Spent(p)
  PROVE  Inv'
<1>1. /\ pc[p] = "spent"
      /\ UNCHANGED <<now, policy, logins, issued, live, named, store, ambient, persisted, strayed>>
  BY DEF Spent, server
<1>2. strayed' \subseteq Logins
  BY <1>1 DEF Inv, TypeOK
<1>3. CASE HasAmbient /\ ambient \in Creds /\ ~ IsExpired(ambient.expires_at, now)
  <2>1. Sends(p, ambient) /\ pc[p] # "answered"
    BY <1>1, <1>3 DEF Spent
  <2>2. ambient.access.login = Tool /\ Belongs(ambient.account, ambient.access)
    BY <1>3 DEF Inv, AmbientOK
  <2> QED BY <1>1, <1>3, <2>1, <2>2, SendsInv
<1>4. CASE ~ (HasAmbient /\ ambient \in Creds /\ ~ IsExpired(ambient.expires_at, now))
  BY <1>1, <1>2, <1>4, ExitsInv DEF Spent
<1> QED BY <1>3, <1>4

LEMMA PersistInv ==
  ASSUME Inv, NEW p \in Runs, Persist(p)
  PROVE  Inv'
<1> USE OAuthAssumption, NullAssumption
<1>1. pc[p] = "persist" /\ UNCHANGED <<now, policy, logins, issued, live, named, ambient>>
  BY DEF Persist, server
<1>2. cred[p] \in Creds /\ Own(cred[p]) /\ cred[p].access \in Tokens
  BY <1>1 DEF Inv, RunOK, CredOK, Creds
<1>3. CASE /\ store' = cred[p] /\ persisted' = persisted \cup {cred[p].access}
           /\ pc' = [pc EXCEPT ![p] = "send"]
           /\ UNCHANGED <<cred, reply, bearer, checked, exit, strayed>>
  <2>1. TypeOK'
    BY <1>1, <1>2, <1>3 DEF Inv, TypeOK
  <2>2. StoreOK' /\ AmbientOK'
    BY <1>1, <1>2, <1>3 DEF Inv, StoreOK, AmbientOK, Own, Belongs
  <2>3. ASSUME NEW q \in Runs PROVE RunOK(q)'
    BY <1>1, <1>2, <1>3, <2>3 DEF Inv, TypeOK, RunOK, ReplyOK, CredOK, BearerOK, Granted, Own, Belongs
  <2> QED BY <2>1, <2>2, <2>3 DEF Inv
<1>4. CASE Exits(p, 77) /\ Strays(p) /\ UNCHANGED <<store, persisted>>
  BY <1>1, <1>4, StraysType, ExitsInv
<1> QED BY <1>3, <1>4 DEF Persist

LEMMA SendInv ==
  ASSUME Inv, NEW p \in Runs, Send(p)
  PROVE  Inv'
<1>1. /\ Exits(p, 0) /\ strayed' \subseteq Logins
      /\ UNCHANGED <<now, policy, logins, issued, live, named>> /\ UNCHANGED <<store, ambient, persisted>>
  BY DEF Send, server, Inv, TypeOK
<1> QED BY <1>1, ExitsInv

LEMMA CrashInv ==
  ASSUME Inv, NEW p \in Runs, Crash(p)
  PROVE  Inv'
<1>1. /\ Exits(p, 130) /\ Strays(p)
      /\ UNCHANGED <<now, policy, logins, issued, live, named>> /\ UNCHANGED <<store, ambient, persisted>>
  BY DEF Crash, server
<1> QED BY <1>1, StraysType, ExitsInv

LEMMA LogInInv ==
  ASSUME Inv, NEW p \in Runs, LogIn(p)
  PROVE  Inv'
<1> USE OAuthAssumption, NullAssumption
<1> DEFINE l == logins + 1
           t == [login |-> l, serial |-> 1]
           c == [access |-> t, refresh |-> t, expires_at |-> now + Life,
                 account |-> IF l \in named THEN l ELSE None]
<1>1. /\ pc[p] = "idle" /\ l \in Logins /\ logins' = l
      /\ issued' = [issued EXCEPT ![l] = 1] /\ live' = [live EXCEPT ![l] = 1]
      /\ cred' = [cred EXCEPT ![p] = c]
      /\ pc' = [pc EXCEPT ![p] = "log_in"] /\ exit' = [exit EXCEPT ![p] = None]
      /\ UNCHANGED <<now, policy, named, store, ambient, reply, bearer, checked, persisted, strayed>>
  BY DEF LogIn, Inv, TypeOK, Logins
<1>2. t \in Tokens /\ l \in 0..MaxLogins
  BY <1>1 DEF Tokens, Logins
<1>3. now + Life \in 0..(MaxTime + Life)
  BY DEF Inv, TypeOK
<1>4. c \in Creds
  BY <1>1, <1>2, <1>3 DEF Creds
<1>5. Own(c)
  BY <1>1 DEF Own, Belongs, Logins, Tool
<1> HIDE DEF c, t, l
<1>6. TypeOK'
  BY <1>1, <1>2, <1>4 DEF Inv, TypeOK
<1>7. StoreOK' /\ AmbientOK'
  BY <1>1 DEF Inv, StoreOK, AmbientOK, Own, Belongs
<1>8. ASSUME NEW q \in Runs PROVE RunOK(q)'
  BY <1>1, <1>4, <1>5, <1>8 DEF Inv, TypeOK, RunOK, ReplyOK, CredOK, BearerOK, Granted, Own, Belongs
<1> QED BY <1>6, <1>7, <1>8 DEF Inv

LEMMA PutLoginInv ==
  ASSUME Inv, NEW p \in Runs, PutLogin(p)
  PROVE  Inv'
<1> USE OAuthAssumption, NullAssumption
<1>1. pc[p] = "log_in" /\ UNCHANGED <<now, policy, logins, issued, live, named, ambient, strayed>>
  BY DEF PutLogin, server
<1>2. cred[p] \in Creds /\ Own(cred[p]) /\ cred[p].access \in Tokens /\ strayed' \subseteq Logins
  BY <1>1 DEF Inv, RunOK, CredOK, Creds, TypeOK
<1>3. CASE store' = cred[p] /\ persisted' = persisted \cup {cred[p].access} /\ Exits(p, 0)
  <2>1. TypeOK'
    BY <1>1, <1>2, <1>3 DEF Inv, TypeOK, Exits
  <2>2. StoreOK' /\ AmbientOK'
    BY <1>1, <1>2, <1>3 DEF Inv, StoreOK, AmbientOK, Own, Belongs
  <2>3. ASSUME NEW q \in Runs PROVE RunOK(q)'
    BY <1>1, <1>2, <1>3, <2>3
       DEF Inv, TypeOK, RunOK, ReplyOK, CredOK, BearerOK, Granted, Own, Belongs, Exits
  <2> QED BY <2>1, <2>2, <2>3 DEF Inv
<1>4. CASE Exits(p, 77) /\ UNCHANGED <<store, persisted>>
  BY <1>1, <1>2, <1>4, ExitsInv
<1> QED BY <1>3, <1>4 DEF PutLogin

\* The rest of the world.
LEMMA WorldInv ==
  ASSUME Inv, (HasAmbient /\ ToolWrites) \/ Tick
  PROVE  Inv'
<1> USE OAuthAssumption, NullAssumption
<1>1. ASSUME NEW account \in {None, Tool}
      PROVE  LET c == ToolCred(account)
             IN  c \in Creds /\ c.access.login = Tool /\ Belongs(c.account, c.access)
  <2>1. /\ [login |-> Tool, serial |-> IF account = None THEN 0 ELSE 1] \in Tokens
        /\ now + Life \in 0..(MaxTime + Life)
    BY DEF Tokens, Inv, TypeOK
  <2> QED BY <1>1, <2>1 DEF ToolCred, Creds, Belongs
<1>2. CASE ToolWrites
  <2>1. /\ ambient' \in {None, WrongKind, ToolCred(None), ToolCred(Tool)}
        /\ UNCHANGED <<now, policy, logins, issued, live, named, store, pc, cred, reply, bearer, checked,
                       exit, persisted, strayed>>
    BY <1>2 DEF ToolWrites, server, local
  <2>0. /\ ambient' \in Creds \cup {None, WrongKind}
        /\ ambient' \in Creds => ambient'.access.login = Tool /\ Belongs(ambient'.account, ambient'.access)
    BY <1>1, <2>1
  <2>2. TypeOK'
    BY <2>0, <2>1 DEF Inv, TypeOK
  <2>3. StoreOK' /\ AmbientOK'
    BY <2>0, <2>1 DEF Inv, StoreOK, AmbientOK, Own, Belongs
  <2>4. \A q \in Runs : RunOK(q)'
    BY <2>1 DEF Inv, RunOK, ReplyOK, CredOK, BearerOK, Granted, Own, Belongs
  <2> QED BY <2>2, <2>3, <2>4 DEF Inv
<1>3. CASE Tick
  <2>1. /\ now' \in 0..MaxTime
        /\ UNCHANGED <<policy, logins, issued, live, named, store, ambient, pc, cred, reply, bearer, checked,
                       exit, persisted, strayed>>
    BY <1>3 DEF Tick, server, local, Inv, TypeOK
  <2>2. TypeOK'
    BY <2>1 DEF Inv, TypeOK
  <2>3. StoreOK' /\ AmbientOK'
    BY <2>1 DEF Inv, StoreOK, AmbientOK, Own, Belongs
  <2>4. \A q \in Runs : RunOK(q)'
    BY <2>1 DEF Inv, RunOK, ReplyOK, CredOK, BearerOK, Granted, Own, Belongs
  <2> QED BY <2>2, <2>3, <2>4 DEF Inv
<1> QED BY <1>2, <1>3

LEMMA InvHolds == Spec => []Inv
<1>1. Init => Inv
  BY InitInv
<1>2. Inv /\ [Next]_vars => Inv'
  <2> SUFFICES ASSUME Inv, [Next]_vars PROVE Inv'
    OBVIOUS
  <2>1. ASSUME NEW p \in Runs,
               \/ Get(p) \/ Discover(p) \/ Ask(p) \/ Receive(p) \/ Spent(p) \/ Persist(p)
               \/ Send(p) \/ LogIn(p) \/ PutLogin(p) \/ Crash(p)
        PROVE  Inv'
    BY <2>1, GetInv, DiscoverInv, AskInv, ReceiveInv, SpentInv, PersistInv, SendInv, LogInInv,
       PutLoginInv, CrashInv
  <2>2. CASE UNCHANGED vars
    BY <2>2 DEF vars, server, local, Inv, TypeOK, StoreOK, AmbientOK, RunOK, ReplyOK, CredOK,
                BearerOK, Granted, Own, Belongs
  <2> QED BY <2>1, <2>2, WorldInv DEF Next
<1> QED BY <1>1, <1>2, PTL DEF Spec

(***************************************************************************)
(* The theorems.                                                           *)
(***************************************************************************)
\* Whatever sequence of misses, refusals and second looks a run takes, what another
\* tool owns is never refreshed and never stored (bearer, spent).
THEOREM BorrowedIsNeverOwned == Spec => []BorrowedStaysBorrowed
<1>1. Inv => BorrowedStaysBorrowed
  BY DEF Inv, StoreOK, RunOK, CredOK, Own, BorrowedStaysBorrowed, Logins, Tool
<1> QED BY <1>1, InvHolds, PTL

\* A token of bz's own is in the store before it is sent (refresh: persist-then-use).
THEOREM PersistThenUse == Spec => []UsedWasPersisted
<1>1. Inv => UsedWasPersisted
  BY DEF Inv, RunOK, BearerOK, UsedWasPersisted
<1> QED BY <1>1, InvHolds, PTL

\* A token that was found fresh is fresh when it is sent within the margin (is_expired).
THEOREM MarginCoversTheSend == Spec => []SentTokensAreFresh
<1>1. Inv => SentTokensAreFresh
  <2> SUFFICES ASSUME Inv, NEW p \in Runs, pc[p] = "send", checked[p] # None, now <= checked[p] + SKEW
               PROVE  now < bearer[p].expires_at
    BY DEF SentTokensAreFresh
  <2>1. bearer[p] \in Bearers /\ checked[p] + SKEW < bearer[p].expires_at
    BY DEF Inv, RunOK, BearerOK
  <2>2. checked[p] \in Nat /\ now \in Nat /\ bearer[p].expires_at \in Nat
    BY <2>1, OAuthAssumption DEF Inv, TypeOK, Bearers
  <2> QED BY <2>1, <2>2, OAuthAssumption
<1> QED BY <1>1, InvHolds, PTL

\* No token goes out with another login's account, and none without the account that its
\* own login or the other tool's file named (as_cred, bearer).
THEOREM AccountNeverStrays == Spec => []AccountIsTheTokens
<1>1. Inv => AccountIsTheTokens
  BY DEF Inv, RunOK, BearerOK, AccountIsTheTokens
<1> QED BY <1>1, InvHolds, PTL

(***************************************************************************)
(* Refreshing loses no login.                                              *)
(*                                                                         *)
(* With refresh tokens that serve once, a run that has been granted a      *)
(* token and has not stored it is Ahead of everybody else: nobody has a    *)
(* token as new, so nobody but it is heard by the server, and its put is   *)
(* the next.                                                               *)
(***************************************************************************)
\* A credential whose tokens the server has issued; a refresh token goes with its access
\* token unless the first one serves for ever.
Issued(c) ==
    /\ c.access.login \in 1..logins /\ c.access.serial \in 1..issued[c.access.login]
    /\ c.refresh.serial = IF policy = "keeps" THEN 1 ELSE c.access.serial

ServerOK ==
    \A l \in 1..logins :
        IF policy = "keeps" THEN live[l] = 1
        ELSE live[l] \in {0, issued[l]} /\ (policy = "single_use" => live[l] = issued[l])

\* The newest token of its login, which is nowhere but here.
Unstored(p) == Granted(p) \/ pc[p] \in {"persist", "log_in"}

HoldsOK(p) ==
    /\ pc[p] \in {"refresh", "answered", "persist", "log_in"} => Issued(cred[p])
    /\ Granted(p) =>
          /\ reply[p].access.serial \in 1..issued[cred[p].access.login]
          /\ reply[p].refresh = IF policy = "keeps" THEN None ELSE reply[p].access
          /\ policy # "keeps" => reply[p].access.serial = issued[cred[p].access.login]
    /\ pc[p] \in {"persist", "log_in"} /\ policy # "keeps" =>
          cred[p].access.serial = issued[cred[p].access.login]
    /\ pc[p] # "idle" => exit[p] = None

\* Whoever else has a token of the login has an older one.
Ahead(p) ==
    LET l == cred[p].access.login IN
    /\ store \in Creds /\ store.access.login = l => store.access.serial < issued[l]
    /\ \A q \in Runs \ {p} :
          /\ Unstored(q) => cred[q].access.login # l
          /\ pc[q] = "refresh" /\ cred[q].access.login = l => cred[q].access.serial < issued[l]

ServeInv ==
    /\ ServerOK /\ (store \in Creds => Issued(store))
    /\ \A p \in Runs : HoldsOK(p)
    /\ policy # "keeps" => \A p \in Runs : Unstored(p) => Ahead(p)
    /\ LoginSurvives

Others(p) ==
    \A q \in Runs \ {p} :
        pc'[q] = pc[q] /\ cred'[q] = cred[q] /\ reply'[q] = reply[q] /\ exit'[q] = exit[q]

LEMMA InitServeInv == Init => ServeInv
  BY NullAssumption, OAuthAssumption
     DEF Init, ServeInv, ServerOK, HoldsOK, Unstored, Granted, LoginSurvives, Creds, Logins

\* Where the credentials of a run are, and that what is granted is of the login refreshed.
LEMMA HeldTypes ==
    ASSUME Inv, NEW p \in Runs
    PROVE  /\ Granted(p) => pc[p] = "answered" /\ reply[p] \in Grants
                            /\ reply[p].access.login = cred[p].access.login
           /\ pc[p] \in {"refresh", "answered", "persist", "log_in"} =>
                 cred[p] \in Creds /\ Own(cred[p]) /\ cred[p].access.login \in Logins
           /\ Unstored(p) => cred[p] \in Creds /\ cred[p].access.login \in Logins
           /\ pc[p] # "answered" => reply[p] = None
  BY NullAssumption DEF Inv, TypeOK, RunOK, ReplyOK, CredOK, Own, Granted, Unstored

\* A run ends, or goes on with nothing unstored; if it had something, its login is marked.
LEMMA Leaves ==
    ASSUME Inv, ServeInv, NEW p \in Runs, NEW s \in {"idle", "discover", "spent", "send"},
           UNCHANGED <<policy, logins, issued, live, store>>,
           pc' = [pc EXCEPT ![p] = s], reply'[p] = None, Others(p),
           s # "idle" => exit'[p] = None,
           strayed \subseteq strayed',
           Granted(p) \/ pc[p] = "persist" => cred[p].access.login \in strayed'
    PROVE  ServeInv'
<1>1. pc'[p] = s /\ ~ Granted(p)' /\ ~ Unstored(p)'
  BY DEF Granted, Unstored, Inv, TypeOK
<1>2. ASSUME NEW q \in Runs \ {p}
      PROVE  /\ pc'[q] = pc[q] /\ cred'[q] = cred[q] /\ reply'[q] = reply[q] /\ exit'[q] = exit[q]
             /\ Granted(q)' = Granted(q) /\ Unstored(q)' = Unstored(q)
  BY <1>2 DEF Others, Granted, Unstored
<1>3. ServerOK' /\ (store' \in Creds => Issued(store)')
  BY DEF ServeInv, ServerOK, Issued
<1>4. ASSUME NEW q \in Runs PROVE HoldsOK(q)'
  <2>1. CASE q = p
    BY <1>1, <2>1 DEF HoldsOK
  <2>2. CASE q # p
    BY <1>2, <2>2 DEF ServeInv, HoldsOK, Issued
  <2> QED  BY <2>1, <2>2
<1>5. ASSUME policy' # "keeps", NEW q \in Runs, Unstored(q)' PROVE Ahead(q)'
  <2>1. q # p /\ Unstored(q) /\ cred'[q] = cred[q]
    BY <1>1, <1>2, <1>5
  <2>2. Ahead(q)
    BY <1>5, <2>1 DEF ServeInv
  <2>3. ASSUME NEW x \in Runs \ {q} PROVE (Unstored(x)' => Unstored(x) /\ cred'[x] = cred[x])
                /\ (pc'[x] = "refresh" => pc[x] = "refresh" /\ cred'[x] = cred[x])
    BY <1>1, <1>2
  <2> QED  BY <2>1, <2>2, <2>3 DEF Ahead
<1>6. LoginSurvives'
  <2> SUFFICES ASSUME store' \in Creds, policy' # "revokes",
                      ~ (store.refresh.serial = live[store.refresh.login]),
                      store.refresh.login \notin strayed'
               PROVE  \E q \in Runs : (Granted(q)' /\ reply'[q].access.login = store.refresh.login)
                                      \/ (pc'[q] = "persist" /\ cred'[q].access.login = store.refresh.login)
    BY DEF LoginSurvives
  <2>1. PICK q \in Runs : (Granted(q) /\ reply[q].access.login = store.refresh.login)
                           \/ (pc[q] = "persist" /\ cred[q].access.login = store.refresh.login)
    BY DEF ServeInv, LoginSurvives
  <2>2. q # p
    BY <2>1, HeldTypes
  <2> QED  BY <1>2, <2>1, <2>2
<1> QED  BY <1>3, <1>4, <1>5, <1>6 DEF ServeInv

\* What one run has that nobody is ahead of: the store, and what the others refresh.
LEMMA Stored ==
    ASSUME Inv, ServeInv, NEW p \in Runs, NEW s \in {"idle", "send"},
           pc[p] \in {"persist", "log_in"},
           UNCHANGED <<policy, logins, issued, live, strayed>>, store' = cred[p],
           pc' = [pc EXCEPT ![p] = s], reply'[p] = None, Others(p), s # "idle" => exit'[p] = None
    PROVE  /\ ServeInv'
           /\ policy # "keeps" /\ store \in Creds /\ store.access.login = store'.access.login =>
                 store'.access.serial >= store.access.serial
<1>1. pc'[p] = s /\ ~ Granted(p)' /\ ~ Unstored(p)'
  BY DEF Granted, Unstored, Inv, TypeOK
<1>2. ASSUME NEW q \in Runs \ {p}
      PROVE  /\ pc'[q] = pc[q] /\ cred'[q] = cred[q] /\ reply'[q] = reply[q] /\ exit'[q] = exit[q]
             /\ Granted(q)' = Granted(q) /\ Unstored(q)' = Unstored(q)
  BY <1>2 DEF Others, Granted, Unstored
<1>3. cred[p] \in Creds /\ Own(cred[p]) /\ Unstored(p) /\ Issued(cred[p])
  BY HeldTypes DEF Unstored, ServeInv, HoldsOK
<1>4. ServerOK' /\ Issued(store)'
  BY <1>3 DEF ServeInv, ServerOK, Issued
<1>5. ASSUME NEW q \in Runs PROVE HoldsOK(q)'
  <2>1. CASE q = p
    BY <1>1, <2>1 DEF HoldsOK
  <2>2. CASE q # p
    BY <1>2, <2>2 DEF ServeInv, HoldsOK, Issued
  <2> QED  BY <2>1, <2>2
<1>6. ASSUME policy' # "keeps", NEW q \in Runs, Unstored(q)' PROVE Ahead(q)'
  <2>1. q # p /\ Unstored(q) /\ cred'[q] = cred[q]
    BY <1>1, <1>2, <1>6
  <2>2. Ahead(q) /\ Ahead(p)
    BY <1>3, <1>6, <2>1 DEF ServeInv
  <2>3. cred[q].access.login # cred[p].access.login
    BY <2>1, <2>2 DEF Ahead
  <2>4. ASSUME NEW x \in Runs \ {q} PROVE (Unstored(x)' => Unstored(x) /\ cred'[x] = cred[x])
                /\ (pc'[x] = "refresh" => pc[x] = "refresh" /\ cred'[x] = cred[x])
    BY <1>1, <1>2
  <2> QED  BY <2>1, <2>2, <2>3, <2>4 DEF Ahead
<1>7. LoginSurvives'
  <2>1. cred[p].refresh.login = cred[p].access.login /\ cred[p].access.login \in 1..logins
    BY <1>3 DEF Own, Issued
  <2>2. CASE policy = "keeps"
    BY <1>3, <2>1, <2>2 DEF LoginSurvives, Issued, ServeInv, ServerOK
  <2>3. CASE policy = "single_use"
    <3>1. cred[p].refresh.serial = issued[cred[p].access.login]
      BY <1>3, <2>3 DEF Issued, ServeInv, HoldsOK
    <3> QED  BY <2>1, <2>3, <3>1 DEF LoginSurvives, ServeInv, ServerOK
  <2>4. policy \in {"keeps", "single_use", "revokes"}
    BY OAuthAssumption DEF Inv, TypeOK
  <2> QED  BY <2>2, <2>3, <2>4 DEF LoginSurvives
<1>8. ASSUME policy # "keeps", store \in Creds, store.access.login = store'.access.login
      PROVE  store'.access.serial >= store.access.serial
  <2>1. Ahead(p) /\ cred[p].access.serial = issued[cred[p].access.login]
    BY <1>3, <1>8 DEF ServeInv, HoldsOK
  <2>2. store.access.serial < issued[cred[p].access.login]
    BY <1>8, <2>1 DEF Ahead
  <2>3. store.access.serial \in Nat /\ cred[p].access.serial \in Nat
    BY <1>3, <1>8 DEF Creds, Tokens
  <2> QED  BY <2>1, <2>2, <2>3
<1> QED  BY <1>4, <1>5, <1>6, <1>7, <1>8 DEF ServeInv

\* A run takes what is stored, to refresh it.
LEMMA Takes ==
    ASSUME Inv, ServeInv, NEW p \in Runs, pc[p] = "idle", store \in Creds,
           UNCHANGED <<policy, logins, issued, live, store, strayed, reply>>,
           pc' = [pc EXCEPT ![p] = "refresh"], cred' = [cred EXCEPT ![p] = store],
           exit' = [exit EXCEPT ![p] = None]
    PROVE  ServeInv'
<1>1. /\ pc'[p] = "refresh" /\ cred'[p] = store /\ exit'[p] = None
      /\ \A q \in Runs : q # p => pc'[q] = pc[q] /\ cred'[q] = cred[q] /\ exit'[q] = exit[q]
  BY DEF Inv, TypeOK
<1>2. \A q \in Runs : Granted(q)' = Granted(q) /\ Unstored(q)' = Unstored(q)
  BY <1>1 DEF Granted, Unstored
<1>3. ~ Unstored(p) /\ ~ Granted(p)
  BY HeldTypes DEF Unstored
<1>4. ServerOK' /\ Issued(store)'
  BY DEF ServeInv, ServerOK, Issued
<1>5. ASSUME NEW q \in Runs PROVE HoldsOK(q)'
  <2>1. CASE q = p
    BY <1>1, <1>2, <1>3, <1>4, <2>1 DEF HoldsOK, Issued
  <2>2. CASE q # p
    BY <1>1, <1>2, <2>2 DEF ServeInv, HoldsOK, Issued
  <2> QED  BY <2>1, <2>2
<1>6. ASSUME policy' # "keeps", NEW q \in Runs, Unstored(q)' PROVE Ahead(q)'
  <2>1. q # p /\ Ahead(q)
    BY <1>2, <1>3, <1>6 DEF ServeInv
  <2> QED  BY <1>1, <1>2, <1>3, <2>1 DEF Ahead
<1>7. LoginSurvives'
  BY <1>1, <1>2, <1>3 DEF ServeInv, LoginSurvives
<1> QED  BY <1>4, <1>5, <1>6, <1>7 DEF ServeInv

\* The server refuses or is busy.
LEMMA NotHeard ==
    ASSUME Inv, ServeInv, NEW p \in Runs, pc[p] = "refresh",
           UNCHANGED <<policy, logins, issued, store, strayed, cred, exit>>,
           NEW a \in {Refused, Busy}, reply' = [reply EXCEPT ![p] = a],
           pc' = [pc EXCEPT ![p] = "answered"],
           \A l \in Logins : live'[l] = live[l] \/ (policy = "revokes" /\ live'[l] = 0)
    PROVE  ServeInv'
<1>1. /\ pc'[p] = "answered" /\ reply'[p] = a
      /\ \A q \in Runs : q # p => pc'[q] = pc[q] /\ reply'[q] = reply[q]
  BY DEF Inv, TypeOK
<1>2. ~ Unstored(p) /\ ~ Granted(p)
  BY HeldTypes DEF Unstored, Granted
<1>3. \A q \in Runs : Granted(q)' = Granted(q) /\ Unstored(q)' = Unstored(q)
  BY <1>1, <1>2 DEF Granted, Unstored
<1>4. \A l \in 1..logins : l \in Logins
  BY OAuthAssumption DEF Inv, TypeOK, Logins
<1>5. ServerOK'
  BY <1>4, OAuthAssumption DEF ServeInv, ServerOK
<1>6. store' \in Creds => Issued(store)'
  BY DEF ServeInv, Issued
<1>7. ASSUME NEW q \in Runs PROVE HoldsOK(q)'
  <2>1. CASE q = p
    BY <1>1, <1>2, <1>3, <2>1 DEF ServeInv, HoldsOK, Issued
  <2>2. CASE q # p
    BY <1>1, <1>3, <2>2 DEF ServeInv, HoldsOK, Issued
  <2> QED  BY <2>1, <2>2
<1>8. ASSUME policy' # "keeps", NEW q \in Runs, Unstored(q)' PROVE Ahead(q)'
  BY <1>1, <1>3, <1>8 DEF ServeInv, Ahead
<1>9. LoginSurvives'
  <2> SUFFICES ASSUME store' \in Creds, policy' # "revokes" PROVE LoginSurvives'
    BY DEF LoginSurvives
  <2>1. store.refresh.login \in Logins
    BY DEF Inv, StoreOK, Own
  <2> QED  BY <1>1, <1>2, <1>3, <2>1 DEF ServeInv, LoginSurvives, Granted
<1> QED  BY <1>5, <1>6, <1>7, <1>8, <1>9 DEF ServeInv

\* The server honours the token: nobody was ahead of p, and p is ahead of everybody now.
LEMMA Heard ==
    ASSUME Inv, ServeInv, NEW p \in Runs, pc[p] = "refresh",
           UNCHANGED <<policy, logins, store, strayed, cred, exit>>,
           NEW l \in Logins, l = cred[p].refresh.login, cred[p].refresh.serial = live[l],
           NEW n \in 1..MaxSerial, n = issued[l] + 1,
           issued' = [issued EXCEPT ![l] = n],
           live' = [live EXCEPT ![l] = IF policy # "keeps" THEN n ELSE @],
           NEW a \in Grants, reply' = [reply EXCEPT ![p] = a],
           a.access = [login |-> l, serial |-> n],
           a.refresh = IF policy # "keeps" THEN [login |-> l, serial |-> n] ELSE None,
           pc' = [pc EXCEPT ![p] = "answered"]
    PROVE  ServeInv'
<1>1. /\ pc'[p] = "answered" /\ reply'[p] = a
      /\ \A q \in Runs : q # p => pc'[q] = pc[q] /\ reply'[q] = reply[q]
  BY DEF Inv, TypeOK
<1>2. /\ cred[p] \in Creds /\ cred[p].access.login = l /\ Issued(cred[p])
      /\ ~ Unstored(p) /\ ~ Granted(p)
  BY HeldTypes DEF Unstored, Granted, Own, ServeInv, HoldsOK
<1>3. Granted(p)' /\ Unstored(p)'
  BY <1>1, NullAssumption DEF Granted, Unstored
<1>4. \A q \in Runs : q # p => Granted(q)' = Granted(q) /\ Unstored(q)' = Unstored(q)
  BY <1>1 DEF Granted, Unstored
<1>5. /\ issued'[l] = n /\ issued[l] \in Nat /\ n > issued[l]
      /\ live'[l] = (IF policy # "keeps" THEN n ELSE live[l])
      /\ \A k \in Logins : k # l => issued'[k] = issued[k] /\ live'[k] = live[k]
      /\ \A k \in Logins : issued[k] \in Nat /\ issued'[k] \in Nat /\ issued[k] <= issued'[k]
      /\ 1..logins \subseteq Logins
  <2>1. issued \in [Logins -> 0..MaxSerial] /\ live \in [Logins -> 0..MaxSerial] /\ logins \in 0..MaxLogins
    BY DEF Inv, TypeOK
  <2>2. issued'[l] = n /\ live'[l] = (IF policy # "keeps" THEN n ELSE live[l])
    BY <2>1
  <2>3. \A k \in Logins : k # l => issued'[k] = issued[k] /\ live'[k] = live[k]
    BY <2>1
  <2>4. \A k \in Logins : issued[k] \in Nat
    BY <2>1
  <2>5. n \in Nat /\ n > issued[l] /\ issued[l] \in Nat
    BY <2>4
  <2>6. 1..logins \subseteq Logins
    BY <2>1, OAuthAssumption DEF Logins
  <2>7. \A k \in Logins : issued'[k] \in Nat /\ issued[k] <= issued'[k]
    <3> TAKE k \in Logins
    <3>1. CASE k = l
      BY <2>2, <2>5, <3>1
    <3>2. CASE k # l
      BY <2>3, <2>4, <3>2
    <3> QED  BY <3>1, <3>2
  <2> QED  BY <2>2, <2>3, <2>4, <2>5, <2>6, <2>7
<1>6. ServerOK'
  BY <1>5 DEF ServeInv, ServerOK
<1>7. ASSUME NEW c \in Creds, Issued(c) PROVE Issued(c)'
  BY <1>5, <1>7 DEF Issued, Creds, Tokens
<1>8. ASSUME policy # "keeps", NEW q \in Runs, Unstored(q)
      PROVE  cred[q].access.login # l
  <2>1. Ahead(q) /\ q # p
    BY <1>2, <1>8 DEF ServeInv
  <2> SUFFICES ASSUME cred[q].access.login = l PROVE FALSE
    OBVIOUS
  <2>2. cred[p].access.serial < issued[l]
    BY <1>2, <2>1 DEF Ahead
  <2>3. cred[p].access.serial = live[l] /\ cred[p].access.serial \in 1..issued[l] /\ l \in 1..logins
    BY <1>2, <1>8 DEF Issued
  <2>4. live[l] \in {0, issued[l]}
    BY <1>8, <2>3 DEF ServeInv, ServerOK
  <2> QED  BY <1>5, <2>2, <2>3, <2>4
<1>9. ASSUME NEW q \in Runs PROVE HoldsOK(q)'
  <2>1. CASE q = p
    <3>1. Issued(cred[p])'
      BY <1>2, <1>7
    <3> QED  BY <1>1, <1>2, <1>5, <2>1, <3>1 DEF HoldsOK, ServeInv
  <2>2. CASE q # p
    <3>1. HoldsOK(q) /\ pc'[q] = pc[q] /\ reply'[q] = reply[q]
      BY <1>1, <2>2 DEF ServeInv
    <3>2. pc[q] \in {"refresh", "answered", "persist", "log_in"} => Issued(cred[q])'
      BY <1>7, <3>1, HeldTypes DEF HoldsOK
    <3>3. ASSUME Unstored(q)
          PROVE  /\ cred[q].access.login \in Logins
                 /\ 1..issued[cred[q].access.login] \subseteq 1..issued'[cred[q].access.login]
                 /\ policy # "keeps" => issued'[cred[q].access.login] = issued[cred[q].access.login]
      <4>1. cred[q].access.login \in Logins
        BY <3>3, HeldTypes
      <4> QED  BY <1>5, <1>8, <3>3, <4>1
    <3> QED  BY <1>4, <2>2, <3>1, <3>2, <3>3 DEF HoldsOK, Unstored
  <2> QED  BY <2>1, <2>2
<1>10. ASSUME policy' # "keeps", NEW q \in Runs, Unstored(q)' PROVE Ahead(q)'
  <2>1. CASE q = p
    <3>1. store \in Creds /\ store.access.login = l => store.access.serial < n
      BY <1>5 DEF ServeInv, Issued, Creds, Tokens
    <3>2. ASSUME NEW x \in Runs \ {p}
          PROVE  /\ Unstored(x)' => cred[x].access.login # l
                 /\ pc'[x] = "refresh" /\ cred[x].access.login = l => cred[x].access.serial < n
      <4>1. Unstored(x)' => cred[x].access.login # l
        BY <1>4, <1>8, <1>10
      <4>2. pc'[x] = "refresh" => Issued(cred[x]) /\ cred[x] \in Creds
        BY <1>1, HeldTypes DEF ServeInv, HoldsOK
      <4> QED  BY <1>5, <4>1, <4>2 DEF Issued, Creds, Tokens
    <3> QED  BY <1>2, <1>5, <2>1, <3>1, <3>2 DEF Ahead
  <2>2. CASE q # p
    <3>1. Unstored(q) /\ Ahead(q) /\ cred[q].access.login # l /\ cred[q].access.login \in Logins
      BY <1>4, <1>8, <1>10, <2>2, HeldTypes DEF ServeInv
    <3>2. issued'[cred[q].access.login] = issued[cred[q].access.login]
      BY <1>5, <3>1
    <3> QED  BY <1>1, <1>2, <1>4, <3>1, <3>2 DEF Ahead
  <2> QED  BY <2>1, <2>2
<1>11. LoginSurvives'
  <2> SUFFICES ASSUME store' \in Creds, policy' # "revokes" PROVE LoginSurvives'
    BY DEF LoginSurvives
  <2>1. store.refresh.login \in Logins
    BY DEF Inv, StoreOK, Own
  <2>2. CASE store.refresh.login = l
    <3>1. reply'[p].access.login = store.refresh.login
      BY <1>1, <2>2
    <3> QED  BY <1>3, <3>1 DEF LoginSurvives
  <2>3. CASE store.refresh.login # l
    <3>1. live'[store.refresh.login] = live[store.refresh.login]
      BY <1>5, <2>1, <2>3
    <3>2. \A q \in Runs : (Granted(q) \/ pc[q] = "persist") => q # p
      BY <1>2
    <3> QED  BY <1>1, <1>4, <3>1, <3>2 DEF ServeInv, LoginSurvives
  <2> QED  BY <2>2, <2>3
<1>12. store' \in Creds => Issued(store)'
  BY <1>7 DEF ServeInv
<1> QED  BY <1>6, <1>9, <1>10, <1>11, <1>12 DEF ServeInv

\* The answer is read: it is on its way to the store.
LEMMA Read ==
    ASSUME Inv, ServeInv, NEW p \in Runs, Granted(p),
           UNCHANGED <<policy, logins, issued, live, store, strayed, exit>>,
           cred' = [cred EXCEPT ![p] = AsCred(reply[p], cred[p])],
           pc' = [pc EXCEPT ![p] = "persist"], reply' = [reply EXCEPT ![p] = None]
    PROVE  ServeInv'
<1> DEFINE c == AsCred(reply[p], cred[p])
<1>1. /\ pc'[p] = "persist" /\ reply'[p] = None /\ cred'[p] = c
      /\ \A q \in Runs : q # p => pc'[q] = pc[q] /\ reply'[q] = reply[q] /\ cred'[q] = cred[q]
  BY DEF Inv, TypeOK
<1>2. /\ pc[p] = "answered" /\ reply[p].access.login = cred[p].access.login /\ Unstored(p)
      /\ Issued(cred[p])
  BY HeldTypes DEF Unstored, ServeInv, HoldsOK
<1>3. Unstored(p)' /\ ~ Granted(p)'
  BY <1>1 DEF Granted, Unstored
<1>4. \A q \in Runs : q # p => Granted(q)' = Granted(q) /\ Unstored(q)' = Unstored(q)
  BY <1>1 DEF Granted, Unstored
<1>5. c.access = reply[p].access
  BY DEF AsCred
<1>6. Issued(c) /\ (policy # "keeps" => c.access.serial = issued[c.access.login])
  <2>1. /\ reply[p].access.serial \in 1..issued[cred[p].access.login]
        /\ reply[p].refresh = IF policy = "keeps" THEN None ELSE reply[p].access
        /\ policy # "keeps" => reply[p].access.serial = issued[cred[p].access.login]
    BY DEF ServeInv, HoldsOK
  <2>2. c.refresh = IF reply[p].refresh = None THEN cred[p].refresh ELSE reply[p].refresh
    BY DEF AsCred
  <2>3. reply[p].access # None
    BY HeldTypes, NullAssumption DEF Grants
  <2> HIDE DEF c
  <2>4. c.refresh.serial = IF policy = "keeps" THEN 1 ELSE c.access.serial
    BY <1>2, <1>5, <2>1, <2>2, <2>3 DEF Issued
  <2> QED  BY <1>2, <1>5, <2>1, <2>4 DEF Issued
<1> HIDE DEF c
<1>7. ServerOK' /\ (store' \in Creds => Issued(store)')
  BY DEF ServeInv, ServerOK, Issued
<1>8. ASSUME NEW q \in Runs PROVE HoldsOK(q)'
  <2>1. CASE q = p
    <3>1. exit[p] = None
      BY <1>2 DEF ServeInv, HoldsOK
    <3>2. Issued(cred[p])'
      BY <1>1, <1>6 DEF Issued
    <3> QED  BY <1>1, <1>3, <1>6, <2>1, <3>1, <3>2 DEF HoldsOK
  <2>2. CASE q # p
    BY <1>1, <1>4, <2>2 DEF ServeInv, HoldsOK, Issued
  <2> QED  BY <2>1, <2>2
<1>9. ASSUME policy' # "keeps", NEW q \in Runs, Unstored(q)' PROVE Ahead(q)'
  <2>1. Unstored(q) /\ Ahead(q) /\ cred'[q].access.login = cred[q].access.login
    BY <1>1, <1>2, <1>4, <1>5, <1>9 DEF ServeInv
  <2>2. ASSUME NEW x \in Runs
        PROVE  /\ Unstored(x)' => Unstored(x) /\ cred'[x].access.login = cred[x].access.login
               /\ pc'[x] = "refresh" => pc[x] = "refresh" /\ cred'[x] = cred[x]
    BY <1>1, <1>2, <1>4, <1>5
  <2> QED  BY <2>1, <2>2 DEF Ahead
<1>10. LoginSurvives'
  <2>1. \A k : (Granted(p) /\ reply[p].access.login = k) => (pc'[p] = "persist" /\ cred'[p].access.login = k)
    BY <1>1, <1>5
  <2>2. pc[p] # "persist"
    BY <1>2
  <2> QED  BY <1>1, <1>4, <2>1, <2>2 DEF ServeInv, LoginSurvives
<1> QED  BY <1>7, <1>8, <1>9, <1>10 DEF ServeInv

\* A new login: nobody has heard of it.
LEMMA LogInServes ==
    ASSUME Inv, ServeInv, NEW p \in Runs, LogIn(p)
    PROVE  ServeInv'
<1> DEFINE l == logins + 1
           t == [login |-> l, serial |-> 1]
           c == [access |-> t, refresh |-> t, expires_at |-> now + Life,
                 account |-> IF l \in named THEN l ELSE None]
<1>1. /\ pc[p] = "idle" /\ logins < MaxLogins /\ logins' = l
      /\ issued' = [issued EXCEPT ![l] = 1] /\ live' = [live EXCEPT ![l] = 1]
      /\ cred' = [cred EXCEPT ![p] = c]
      /\ pc' = [pc EXCEPT ![p] = "log_in"] /\ exit' = [exit EXCEPT ![p] = None]
      /\ UNCHANGED <<policy, store, reply, strayed>>
  BY DEF LogIn
<1>2. l \in Logins /\ l \notin 1..logins /\ logins \in Nat /\ 1..l = (1..logins) \cup {l} /\ 1..logins \subseteq Logins
  BY <1>1, OAuthAssumption DEF Inv, TypeOK, Logins
<1>3. c.access.login = l /\ c.access.serial = 1 /\ c.refresh.serial = 1
  OBVIOUS
<1> HIDE DEF c, l
<1>4. /\ issued'[l] = 1 /\ live'[l] = 1
      /\ \A k \in Logins : k # l => issued'[k] = issued[k] /\ live'[k] = live[k]
  BY <1>1, <1>2 DEF Inv, TypeOK
<1>5. /\ pc'[p] = "log_in" /\ cred'[p] = c /\ exit'[p] = None
      /\ \A q \in Runs : q # p => pc'[q] = pc[q] /\ cred'[q] = cred[q] /\ exit'[q] = exit[q]
  BY <1>1 DEF Inv, TypeOK
<1>6. ~ Unstored(p) /\ ~ Granted(p) /\ Unstored(p)'
  BY <1>1, <1>5, HeldTypes DEF Unstored
<1>7. /\ \A q \in Runs : Granted(q)' = Granted(q)
      /\ \A q \in Runs : q # p => Unstored(q)' = Unstored(q)
  BY <1>1, <1>5 DEF Granted, Unstored
<1>8. ServerOK'
  BY <1>1, <1>2, <1>4 DEF ServeInv, ServerOK
<1>9. ASSUME NEW d, Issued(d) PROVE Issued(d)' /\ d.access.login \in Logins /\ d.access.login # l
  BY <1>1, <1>2, <1>4, <1>9 DEF Issued
<1>10. ASSUME NEW q \in Runs PROVE HoldsOK(q)'
  <2>1. CASE q = p
    <3>1. Issued(cred[p])'
      BY <1>1, <1>2, <1>3, <1>4, <1>5 DEF Issued
    <3> QED  BY <1>1, <1>3, <1>4, <1>5, <1>6, <1>7, <2>1, <3>1 DEF HoldsOK
  <2>2. CASE q # p
    <3>1. HoldsOK(q) /\ pc'[q] = pc[q] /\ reply'[q] = reply[q] /\ cred'[q] = cred[q] /\ exit'[q] = exit[q]
      BY <1>1, <1>5, <2>2 DEF ServeInv
    <3>2. pc[q] \in {"refresh", "answered", "persist", "log_in"} =>
             Issued(cred[q])' /\ issued'[cred[q].access.login] = issued[cred[q].access.login]
      BY <1>4, <1>9, <3>1 DEF HoldsOK
    <3>3. Granted(q) => pc[q] = "answered"
      BY HeldTypes
    <3> QED  BY <1>1, <1>7, <3>1, <3>2, <3>3 DEF HoldsOK
  <2> QED  BY <2>1, <2>2
<1>11. \A q \in Runs : pc[q] \in {"refresh", "answered", "persist", "log_in"} => cred[q].access.login \in Logins \ {l}
  BY <1>9 DEF ServeInv, HoldsOK
<1>12. \A q \in Runs : Unstored(q) => pc[q] \in {"refresh", "answered", "persist", "log_in"}
  BY HeldTypes DEF Unstored
<1>13. ASSUME policy' # "keeps", NEW q \in Runs, Unstored(q)' PROVE Ahead(q)'
  <2>1. CASE q = p
    <3>1. store \in Creds => store.access.login # l
      BY <1>9 DEF ServeInv
    <3> QED  BY <1>1, <1>3, <1>5, <1>7, <1>11, <1>12, <2>1, <3>1 DEF Ahead
  <2>2. CASE q # p
    <3>1. Ahead(q) /\ Unstored(q) /\ cred'[q] = cred[q]
      BY <1>1, <1>5, <1>7, <1>13, <2>2 DEF ServeInv
    <3>2. issued'[cred[q].access.login] = issued[cred[q].access.login] /\ cred[q].access.login # l
      BY <1>4, <1>11, <1>12, <3>1
    <3> QED  BY <1>1, <1>3, <1>5, <1>7, <3>1, <3>2 DEF Ahead
  <2> QED  BY <2>1, <2>2
<1>14. LoginSurvives'
  <2> SUFFICES ASSUME store' \in Creds, policy' # "revokes" PROVE LoginSurvives'
    BY DEF LoginSurvives
  <2>1. store \in Creds /\ store.refresh.login = store.access.login /\ Issued(store)
    BY <1>1 DEF Inv, StoreOK, Own, ServeInv
  <2>2. live'[store.refresh.login] = live[store.refresh.login]
    BY <1>4, <1>9, <2>1
  <2>3. \A q \in Runs : pc[q] = "persist" => q # p
    BY <1>1
  <2> QED  BY <1>1, <1>5, <1>7, <2>2, <2>3 DEF ServeInv, LoginSurvives
<1>15. store' \in Creds => Issued(store)'
  BY <1>1, <1>9 DEF ServeInv
<1> QED  BY <1>8, <1>10, <1>13, <1>14, <1>15 DEF ServeInv

LEMMA ExitsServes ==
    ASSUME Inv, ServeInv, NEW p \in Runs, NEW code, Exits(p, code),
           UNCHANGED <<policy, logins, issued, live, store>>, strayed \subseteq strayed',
           Granted(p) \/ pc[p] = "persist" => cred[p].access.login \in strayed'
    PROVE  ServeInv'
<1>1. pc' = [pc EXCEPT ![p] = "idle"] /\ reply'[p] = None /\ Others(p)
  BY DEF Exits, Others, Inv, TypeOK
<1> QED  BY <1>1, Leaves

LEMMA SendsServes ==
    ASSUME Inv, ServeInv, NEW p \in Runs, NEW c, Sends(p, c), pc[p] \in {"idle", "discover", "spent"},
           UNCHANGED <<policy, logins, issued, live, store, strayed>>
    PROVE  ServeInv'
<1>1. /\ pc' = [pc EXCEPT ![p] = "send"] /\ reply'[p] = None /\ Others(p) /\ exit'[p] = None
      /\ ~ Granted(p) /\ pc[p] # "persist"
  BY HeldTypes DEF Sends, Others, Inv, TypeOK
<1> QED  BY <1>1, Leaves

\* A run that is lost marks the login whose newest token it had.
LEMMA StraysServes ==
    ASSUME Inv, NEW p \in Runs, Strays(p)
    PROVE  /\ strayed \subseteq strayed'
           /\ Granted(p) \/ pc[p] = "persist" => cred[p].access.login \in strayed'
  BY HeldTypes DEF Strays

LEMMA GetServes ==
    ASSUME Inv, ServeInv, NEW p \in Runs, Get(p) \/ Discover(p) \/ Spent(p)
    PROVE  ServeInv'
<1>1. /\ pc[p] \in {"idle", "discover", "spent"}
      /\ UNCHANGED <<policy, logins, issued, live, store, strayed>>
      /\ ~ Granted(p) /\ reply[p] = None
  BY HeldTypes DEF Get, Discover, Spent, server
<1>2. ASSUME NEW code, Exits(p, code) PROVE ServeInv'
  BY <1>1, <1>2, ExitsServes
<1>3. ASSUME NEW c, Sends(p, c) PROVE ServeInv'
  BY <1>1, <1>3, SendsServes
<1>4. CASE Get(p)
  <2>1. CASE store = None
    <3>1. /\ pc' = [pc EXCEPT ![p] = "discover"] /\ exit' = [exit EXCEPT ![p] = None]
          /\ UNCHANGED <<cred, reply>>
      BY <1>4, <2>1 DEF Get
    <3>2. Others(p) /\ exit'[p] = None /\ reply'[p] = None
      BY <1>1, <3>1 DEF Others, Inv, TypeOK
    <3> QED  BY <1>1, <3>1, <3>2, Leaves
  <2>2. CASE store # None /\ ~ (\E code : Exits(p, code)) /\ ~ Sends(p, store)
    <3>1. /\ pc[p] = "idle" /\ store # WrongKind
          /\ pc' = [pc EXCEPT ![p] = "refresh"] /\ cred' = [cred EXCEPT ![p] = store]
          /\ exit' = [exit EXCEPT ![p] = None] /\ UNCHANGED reply
      BY <1>4, <2>2 DEF Get, Examine
    <3>2. store \in Creds
      BY <2>2, <3>1 DEF Inv, TypeOK
    <3> QED  BY <1>1, <3>1, <3>2, Takes
  <2> QED  BY <1>2, <1>3, <2>1, <2>2
<1>5. CASE Discover(p)
  BY <1>2, <1>3, <1>5 DEF Discover, Examine
<1>6. CASE Spent(p)
  BY <1>2, <1>3, <1>6 DEF Spent
<1> QED  BY <1>4, <1>5, <1>6

LEMMA AskServes ==
    ASSUME Inv, ServeInv, NEW p \in Runs, Ask(p)
    PROVE  ServeInv'
<1> DEFINE r == cred[p].refresh
           l == r.login
           n == issued[l] + 1
<1>1. pc[p] = "refresh" /\ UNCHANGED <<policy, logins, store, strayed>> /\ ~ Granted(p)
  BY HeldTypes DEF Ask
<1>2. CASE Exits(p, 69) /\ UNCHANGED <<issued, live>>
  BY <1>1, <1>2, ExitsServes
<1>3. ASSUME l \in Logins, r.serial = live[l], n <= MaxSerial,
             issued' = [issued EXCEPT ![l] = n],
             live' = [live EXCEPT ![l] = IF policy # "keeps" THEN n ELSE @],
             NEW life \in {0, Life}, NEW account \in {None, l},
             reply' = [reply EXCEPT ![p] =
                [access |-> [login |-> l, serial |-> n], account |-> account, life |-> life,
                 refresh |-> IF policy # "keeps" THEN [login |-> l, serial |-> n] ELSE None]],
             pc' = [pc EXCEPT ![p] = "answered"],
             UNCHANGED <<cred, bearer, checked, exit>>
      PROVE  ServeInv'
  <2> DEFINE a == [access |-> [login |-> l, serial |-> n], account |-> account, life |-> life,
                   refresh |-> IF policy # "keeps" THEN [login |-> l, serial |-> n] ELSE None]
  <2>1. n \in 1..MaxSerial
    BY <1>3, OAuthAssumption DEF Inv, TypeOK
  <2>2. [login |-> l, serial |-> n] \in Tokens
    BY <1>3, <2>1, OAuthAssumption DEF Tokens
  <2>3. a \in Grants
    BY <1>3, <2>2 DEF Grants
  <2>4. /\ a.access = [login |-> l, serial |-> n] /\ reply' = [reply EXCEPT ![p] = a]
        /\ a.refresh = IF policy # "keeps" THEN [login |-> l, serial |-> n] ELSE None
    BY <1>3
  <2>5. l \in Logins /\ l = cred[p].refresh.login /\ cred[p].refresh.serial = live[l] /\ n = issued[l] + 1
    BY <1>3
  <2>6. issued' = [issued EXCEPT ![l] = n] /\ live' = [live EXCEPT ![l] = IF policy # "keeps" THEN n ELSE @]
    BY <1>3
  <2>7. pc' = [pc EXCEPT ![p] = "answered"] /\ cred' = cred /\ exit' = exit
    BY <1>3
  <2> HIDE DEF a, n, l, r
  <2>8. /\ pc[p] = "refresh" /\ policy' = policy /\ logins' = logins /\ store' = store /\ strayed' = strayed
    BY <1>1
  <2> QED  BY <2>1, <2>3, <2>4, <2>5, <2>6, <2>7, <2>8, Heard
<1>4. ASSUME NEW a \in {Refused, Busy}, reply' = [reply EXCEPT ![p] = a],
             live' = live \/ live' = [k \in Logins |-> IF k = l /\ policy = "revokes" THEN 0 ELSE live[k]],
             pc' = [pc EXCEPT ![p] = "answered"], UNCHANGED <<issued, cred, bearer, checked, exit>>
      PROVE  ServeInv'
  <2>1. \A k \in Logins : live'[k] = live[k] \/ (policy = "revokes" /\ live'[k] = 0)
    BY <1>4
  <2> QED  BY <1>1, <1>4, <2>1, NotHeard
<1> QED  BY <1>2, <1>3, <1>4 DEF Ask

LEMMA NextServes ==
    ASSUME Inv, ServeInv, [Next]_vars
    PROVE  ServeInv'
<1>1. ASSUME NEW p \in Runs, Receive(p) PROVE ServeInv'
  <2>1. pc[p] = "answered" /\ UNCHANGED <<policy, logins, issued, live, store>>
    BY <1>1 DEF Receive, server
  <2>2. CASE Exits(p, 69) /\ Strays(p)
    BY <2>1, <2>2, ExitsServes, StraysServes
  <2>3. CASE /\ reply[p] \in {Refused, Busy}
             /\ pc' = [pc EXCEPT ![p] = "spent"] /\ reply' = [reply EXCEPT ![p] = None]
             /\ UNCHANGED <<cred, bearer, checked, exit, strayed>>
    <3>1. /\ reply'[p] = None /\ Others(p) /\ exit'[p] = None /\ ~ Granted(p)
      BY <2>1, <2>3 DEF Others, Inv, TypeOK, ServeInv, HoldsOK, Granted
    <3> QED  BY <2>1, <2>3, <3>1, Leaves
  <2>4. CASE /\ Granted(p)
             /\ cred' = [cred EXCEPT ![p] = AsCred(reply[p], cred[p])]
             /\ pc' = [pc EXCEPT ![p] = "persist"] /\ reply' = [reply EXCEPT ![p] = None]
             /\ UNCHANGED <<checked, exit, strayed>>
    BY <2>1, <2>4, Read
  <2> QED  BY <1>1, <2>2, <2>3, <2>4 DEF Receive
<1>2. ASSUME NEW p \in Runs, Persist(p) PROVE ServeInv'
  <2>1. pc[p] = "persist" /\ UNCHANGED <<policy, logins, issued, live>> /\ reply[p] = None
    BY <1>2, HeldTypes DEF Persist, server
  <2>2. CASE /\ store' = cred[p] /\ pc' = [pc EXCEPT ![p] = "send"]
             /\ UNCHANGED <<cred, reply, bearer, checked, exit, strayed>>
    <3>1. Others(p) /\ exit'[p] = None /\ reply'[p] = None
      BY <2>1, <2>2 DEF Others, Inv, TypeOK, ServeInv, HoldsOK
    <3> QED  BY <2>1, <2>2, <3>1, Stored
  <2>3. CASE Exits(p, 77) /\ Strays(p) /\ UNCHANGED <<store, persisted>>
    BY <2>1, <2>3, ExitsServes, StraysServes
  <2> QED  BY <1>2, <2>2, <2>3 DEF Persist
<1>3. ASSUME NEW p \in Runs, PutLogin(p) PROVE ServeInv'
  <2>1. /\ pc[p] = "log_in" /\ UNCHANGED <<policy, logins, issued, live, strayed>>
        /\ ~ Granted(p)
    BY <1>3, HeldTypes DEF PutLogin, server
  <2>2. CASE store' = cred[p] /\ Exits(p, 0)
    <3>1. pc' = [pc EXCEPT ![p] = "idle"] /\ Others(p) /\ reply'[p] = None
      BY <2>2 DEF Exits, Others, Inv, TypeOK
    <3> QED  BY <2>1, <2>2, <3>1, Stored
  <2>3. CASE Exits(p, 77) /\ UNCHANGED <<store, persisted>>
    BY <2>1, <2>3, ExitsServes
  <2> QED  BY <1>3, <2>2, <2>3 DEF PutLogin
<1>4. ASSUME NEW p \in Runs, Send(p) PROVE ServeInv'
  <2>1. pc[p] = "send" /\ Exits(p, 0) /\ UNCHANGED <<policy, logins, issued, live, store, strayed>>
    BY <1>4 DEF Send, server
  <2> QED  BY <2>1, ExitsServes, HeldTypes
<1>5. ASSUME NEW p \in Runs, Crash(p) PROVE ServeInv'
  <2>1. Exits(p, 130) /\ Strays(p) /\ UNCHANGED <<policy, logins, issued, live, store>>
    BY <1>5 DEF Crash, server
  <2> QED  BY <2>1, ExitsServes, StraysServes
<1>6. CASE ToolWrites \/ Tick \/ UNCHANGED vars
  <2>1. UNCHANGED <<policy, logins, issued, live, store, pc, cred, reply, exit, strayed>>
    BY <1>6 DEF ToolWrites, Tick, vars, server, local
  <2> QED
    BY <2>1 DEF ServeInv, ServerOK, Issued, HoldsOK, Ahead, Unstored, Granted, LoginSurvives
<1> QED
  BY <1>1, <1>2, <1>3, <1>4, <1>5, <1>6, GetServes, AskServes, LogInServes DEF Next

\* The store changes by a put only, and a put of the same login is newer.
LEMMA PutsMoveForward ==
    ASSUME Inv, ServeInv, [Next]_vars, store \in Creds, store' \in Creds, policy # "keeps",
           store.access.login = store'.access.login
    PROVE  store'.access.serial >= store.access.serial
<1>1. CASE store' = store
  BY <1>1 DEF Creds, Tokens
<1>2. ASSUME NEW p \in Runs, Persist(p), store' # store PROVE store'.access.serial >= store.access.serial
  <2>1. /\ pc[p] = "persist" /\ UNCHANGED <<policy, logins, issued, live, strayed>> /\ reply[p] = None
        /\ store' = cred[p] /\ pc' = [pc EXCEPT ![p] = "send"] /\ UNCHANGED <<cred, reply, exit>>
    BY <1>2, HeldTypes DEF Persist, server
  <2>2. Others(p) /\ exit'[p] = None /\ reply'[p] = None
    BY <2>1 DEF Others, Inv, TypeOK, ServeInv, HoldsOK
  <2> QED  BY <2>1, <2>2, Stored
<1>3. ASSUME NEW p \in Runs, PutLogin(p), store' # store PROVE store'.access.serial >= store.access.serial
  <2>1. /\ pc[p] = "log_in" /\ UNCHANGED <<policy, logins, issued, live, strayed>>
        /\ store' = cred[p] /\ Exits(p, 0)
    BY <1>3 DEF PutLogin, server
  <2>2. pc' = [pc EXCEPT ![p] = "idle"] /\ Others(p) /\ reply'[p] = None
    BY <2>1 DEF Exits, Others, Inv, TypeOK
  <2> QED  BY <2>1, <2>2, Stored
<1>4. store' # store => \E p \in Runs : Persist(p) \/ PutLogin(p)
  BY DEF Next, Get, Discover, Ask, Receive, Spent, Send, LogIn, Crash, ToolWrites, Tick, vars
<1> QED  BY <1>1, <1>2, <1>3, <1>4

\* A run that was not over exits with 77 only at a put, if the other tool's sign-in serves.
LEMMA SecondSource ==
    ASSUME Inv, ServeInv, [Next]_vars, NEW p \in Runs, pc[p] # "idle", HasAmbient, ambient \in Creds,
           ~ IsExpired(ambient.expires_at, now), exit'[p] = 77
    PROVE  pc[p] \in {"persist", "log_in"}
<1>1. exit[p] = None /\ None # 77
  BY LoginAssumption DEF ServeInv, HoldsOK
<1>2. ambient # None /\ ambient # WrongKind
  BY NullAssumption
<1>3. ASSUME NEW q \in Runs, NEW code, code # 77, Exits(q, code) PROVE FALSE
  BY <1>1, <1>3 DEF Exits, Inv, TypeOK
<1>4. ASSUME NEW q \in Runs, exit' = [exit EXCEPT ![q] = None] PROVE FALSE
  BY <1>1, <1>4 DEF Inv, TypeOK
<1>5. ~ UNCHANGED exit
  BY <1>1
<1>6. ASSUME NEW q \in Runs, NEW c, Sends(q, c) PROVE FALSE
  BY <1>4, <1>6 DEF Sends
<1>7. ASSUME NEW q \in Runs, q # p, Exits(q, 77) PROVE FALSE
  BY <1>1, <1>7 DEF Exits, Inv, TypeOK
<1>8. ASSUME NEW q \in Runs, Get(q) PROVE FALSE
  <2>1. CASE q = p
    BY <1>8, <2>1 DEF Get
  <2>2. CASE q # p
    BY <1>4, <1>6, <1>7, <1>8, <2>2 DEF Get, Examine
  <2> QED  BY <2>1, <2>2
<1>9. ASSUME NEW q \in Runs, Discover(q) PROVE FALSE
  BY <1>2, <1>4, <1>6, <1>9 DEF Discover, Examine
<1>10. ASSUME NEW q \in Runs, Spent(q) PROVE FALSE
  BY <1>6, <1>10 DEF Spent
<1>11. ASSUME NEW q \in Runs, Ask(q) \/ Receive(q) \/ Send(q) \/ LogIn(q) \/ Crash(q) PROVE FALSE
  BY <1>3, <1>4, <1>5, <1>11 DEF Ask, Receive, Send, LogIn, Crash
<1>12. ~ (ToolWrites \/ Tick \/ UNCHANGED vars)
  BY <1>5 DEF ToolWrites, Tick, vars, local
<1>13. PICK q \in Runs : Persist(q) \/ PutLogin(q)
  BY <1>8, <1>9, <1>10, <1>11, <1>12 DEF Next
<1>14. CASE q = p
  BY <1>13, <1>14 DEF Persist, PutLogin
<1>15. CASE q # p
  BY <1>3, <1>5, <1>7, <1>13, <1>15 DEF Persist, PutLogin
<1> QED  BY <1>14, <1>15

\* Refreshing loses no login, late puts bring back nothing old, and the other tool's
\* sign-in is tried before a run gives up.
THEOREM LoginsServe == Spec => LoginServes
<1>1. Inv /\ ServeInv /\ [Next]_vars => ServeInv'
  BY NextServes
<1>2. ServeInv => LoginSurvives
  BY DEF ServeInv
<1>3. Inv /\ ServeInv /\ [Next]_vars =>
        [ (store \in Creds /\ store' \in Creds /\ policy # "keeps" /\ store.access.login = store'.access.login)
            => store'.access.serial >= store.access.serial ]_vars
  BY PutsMoveForward
<1>4. Inv /\ ServeInv /\ [Next]_vars =>
        [ \A p \in Runs :
            (pc[p] # "idle" /\ HasAmbient /\ ambient \in Creds /\ ~ IsExpired(ambient.expires_at, now))
                => (exit'[p] = 77 => pc[p] \in {"persist", "log_in"}) ]_vars
  BY SecondSource
<1> QED
  BY <1>1, <1>2, <1>3, <1>4, InitServeInv, InvHolds, PTL
     DEF Spec, LoginServes, StoreMovesForward, SecondSourceIsUsed

(***************************************************************************)
(* The logins in detail.                                                   *)
(***************************************************************************)
\* A detailed login does what LogIn does in one step: tokens are granted while the run
\* is idle, and the put follows.
THEOREM DetailImplementsLogIn == LoginSpec => Spec
<1>1. ASSUME [LoginNext]_<<flow, vars>> PROVE [Next]_vars
  <2>1. CASE UNCHANGED <<flow, vars>>
    BY <2>1
  <2>2. CASE Done
    BY <2>2 DEF Done
  <2>3. CASE Tick
    BY <2>3 DEF Next
  <2>4. CASE \E k \in Tries : UserAnswers(k)
    BY <2>4 DEF UserAnswers
  <2>5. ASSUME NEW p \in Runs,
               AskForDevice(p) \/ Pace(p) \/ OpenBrowser(p) \/ Callback(p) \/ NeverBegins(p) \/ Dies(p)
        PROVE  UNCHANGED vars
    BY <2>5 DEF AskForDevice, Pace, OpenBrowser, Callback, NeverBegins, Dies, Begins
  <2>6. ASSUME NEW p \in Runs, Poll(p) \/ Exchange(p)
        PROVE  LogIn(p) \/ UNCHANGED vars
    BY <2>6 DEF Poll, Exchange
  <2>7. ASSUME NEW p \in Runs, LogIn(p) \/ PutLogin(p) \/ Crash(p)
        PROVE  Next
    BY <2>7 DEF Next
  <2> QED
    BY <1>1, <2>1, <2>2, <2>3, <2>4, <2>5, <2>6, <2>7 DEF LoginNext
<1> QED
  BY <1>1, PTL DEF LoginSpec, Spec

\* A flow that exchanges holds the code of its own attempt; one at the head of the loop
\* knows that nobody had approved it when its last poll was due.
FlowOK(p) ==
    /\ step[p] # "none" => try[p] \in Tries
    /\ step[p] = "exchange" => held[p] = try[p] /\ answer[try[p]] \in Nat
    /\ step[p] = "none" => wake[p] = 0
    /\ step[p] = "pace" => wake[p] <= now /\ (answer[try[p]] \in Nat => answer[try[p]] >= wake[p])

FlowInv == now \in Nat /\ FlowTypeOK /\ \A p \in Runs : FlowOK(p)

LEMMA InitFlowInv == Init /\ FlowInit => FlowInv
  BY OAuthAssumption, LoginAssumption DEF Init, FlowInit, FlowInv, FlowTypeOK, FlowOK

\* The flow of one run ends, whatever becomes of its attempt.
LEMMA OverInv ==
    ASSUME FlowInv, NEW p \in Runs, NEW how \in {"expired", "failed", "in", "dead"}, Over(p, how),
           UNCHANGED <<wire, tries, answer>>, now' = now, spent' \subseteq Tries
    PROVE  FlowInv'
<1>1. FlowTypeOK'
  <2>1. 0 \in 0..MaxTries
    BY LoginAssumption, OAuthAssumption
  <2> QED  BY <2>1 DEF Over, FlowInv, FlowTypeOK
<1>2. ASSUME NEW q \in Runs PROVE FlowOK(q)'
  <2>1. CASE q = p
    BY <2>1 DEF Over, FlowInv, FlowTypeOK, FlowOK
  <2>2. CASE q # p
    <3>1. UNCHANGED <<step[q], try[q], held[q], wake[q]>>
      BY <2>2 DEF Over, FlowInv, FlowTypeOK
    <3> QED  BY <3>1 DEF FlowInv, FlowOK
  <2> QED  BY <2>1, <2>2
<1> QED  BY <1>1, <1>2 DEF FlowInv

\* The flow of one run goes on to step s, and only its own part of the state changes.
LEMMA StepInv ==
    ASSUME FlowInv, NEW p \in Runs, FlowTypeOK', UNCHANGED <<answer, now>>,
           \A q \in Runs \ {p} : UNCHANGED <<step[q], try[q], held[q], wake[q]>>,
           FlowOK(p)'
    PROVE  FlowInv'
<1>1. ASSUME NEW q \in Runs PROVE FlowOK(q)'
  <2>1. CASE q # p
    <3>1. UNCHANGED <<step[q], try[q], held[q], wake[q]>>
      BY <2>1
    <3> QED  BY <3>1 DEF FlowInv, FlowOK
  <2> QED  BY <2>1
<1> QED  BY <1>1 DEF FlowInv

LEMMA BeginsInv ==
    ASSUME FlowInv, NEW p \in Runs, AskForDevice(p) \/ OpenBrowser(p) \/ NeverBegins(p)
    PROVE  FlowInv'
<1>1. /\ UNCHANGED <<wire, answer, spent, wake, held, now>> /\ tries' = tries + 1 /\ tries < MaxTries
      /\ step[p] = "none"
  BY DEF AskForDevice, OpenBrowser, NeverBegins, Begins, vars
<1>2. tries + 1 \in Tries /\ tries + 1 \in 0..MaxTries
  BY <1>1, LoginAssumption, OAuthAssumption DEF FlowInv, FlowTypeOK, Tries
<1>3. CASE NeverBegins(p)
  <2>1. FlowTypeOK'
    BY <1>1, <1>2, <1>3 DEF NeverBegins, FlowInv, FlowTypeOK
  <2> QED  BY <1>1, <1>3, <2>1 DEF NeverBegins, FlowInv, FlowOK
<1>4. ASSUME NEW s \in {"pace", "await"}, Begins(p, s), interval' \in [Runs -> Nat], deadline' \in [Runs -> Nat]
      PROVE  FlowInv'
  <2>1. FlowTypeOK'
    BY <1>1, <1>2, <1>4 DEF Begins, FlowInv, FlowTypeOK
  <2>2. \A q \in Runs \ {p} : UNCHANGED <<step[q], try[q], held[q], wake[q]>>
    BY <1>1, <1>4 DEF Begins, FlowInv, FlowTypeOK
  <2>3. step'[p] = s /\ try'[p] \in Tries /\ wake'[p] = 0
    BY <1>1, <1>2, <1>4 DEF Begins, FlowInv, FlowTypeOK, FlowOK
  <2>4. FlowOK(p)'
    <3>1. 0 <= now' /\ \A a \in Nat : a >= 0
      BY <1>1 DEF FlowInv
    <3> QED  BY <2>3, <3>1 DEF FlowOK
  <2> QED  BY <1>1, <2>1, <2>2, <2>4, StepInv
<1>5. CASE AskForDevice(p)
  <2>1. PICK i \in Intervals \cup {DEFAULT_INTERVAL}, e \in Expiries :
            interval' = [interval EXCEPT ![p] = i] /\ deadline' = [deadline EXCEPT ![p] = now + e]
    BY <1>5 DEF AskForDevice
  <2>2. i \in Nat /\ now + e \in Nat
    BY LoginAssumption DEF FlowInv
  <2>3. interval' \in [Runs -> Nat] /\ deadline' \in [Runs -> Nat]
    BY <2>1, <2>2 DEF FlowInv, FlowTypeOK
  <2> QED  BY <1>4, <1>5, <2>3 DEF AskForDevice
<1>6. CASE OpenBrowser(p)
  BY <1>4, <1>6 DEF OpenBrowser, FlowInv, FlowTypeOK
<1> QED  BY <1>3, <1>5, <1>6

LEMMA PaceInv ==
    ASSUME FlowInv, NEW p \in Runs, Pace(p)
    PROVE  FlowInv'
<1>1. UNCHANGED <<wire, tries, answer, spent, now>> /\ step[p] = "pace"
  BY DEF Pace, vars
<1>2. CASE Over(p, "expired")
  BY <1>1, <1>2, OverInv DEF FlowInv, FlowTypeOK
<1>3. CASE /\ step' = [step EXCEPT ![p] = "sleep"] /\ wake' = [wake EXCEPT ![p] = now + interval[p]]
           /\ UNCHANGED <<try, deadline, interval, held, fate>>
  <2>1. now + interval[p] \in Nat
    BY DEF FlowInv, FlowTypeOK
  <2>2. FlowTypeOK'
    BY <1>1, <1>3, <2>1 DEF FlowInv, FlowTypeOK
  <2>3. \A q \in Runs \ {p} : UNCHANGED <<step[q], try[q], held[q], wake[q]>>
    BY <1>3 DEF FlowInv, FlowTypeOK
  <2>4. step'[p] = "sleep" /\ try'[p] \in Tries
    BY <1>1, <1>3 DEF FlowInv, FlowTypeOK, FlowOK
  <2>5. FlowOK(p)'
    BY <2>4 DEF FlowOK
  <2> QED  BY <1>1, <2>2, <2>3, <2>5, StepInv
<1> QED  BY <1>2, <1>3 DEF Pace

LEMMA PollInv ==
    ASSUME FlowInv, NEW p \in Runs, Poll(p)
    PROVE  FlowInv'
<1>1. UNCHANGED <<wire, tries, answer, now>> /\ step[p] = "sleep" /\ now >= wake[p] /\ try[p] \in Tries
  BY DEF Poll, vars, LogIn, FlowInv, FlowOK
<1>2. CASE Over(p, "failed") /\ spent' = spent
  BY <1>1, <1>2, OverInv DEF FlowInv, FlowTypeOK
<1>3. CASE Over(p, "in") /\ spent' = spent \cup {try[p]}
  BY <1>1, <1>3, OverInv DEF FlowInv, FlowTypeOK
<1>4. CASE /\ answer[try[p]] = None
           /\ interval' \in {interval} \cup
                 IF wire = "rfc8628" THEN {[interval EXCEPT ![p] = @ + DEFAULT_INTERVAL]} ELSE {}
           /\ step' = [step EXCEPT ![p] = "pace"]
           /\ UNCHANGED <<spent, try, deadline, wake, held, fate>>
  <2>1. interval' \in [Runs -> Nat]
    BY <1>4, LoginAssumption DEF FlowInv, FlowTypeOK
  <2>2. FlowTypeOK'
    BY <1>1, <1>4, <2>1 DEF FlowInv, FlowTypeOK
  <2>3. \A q \in Runs \ {p} : UNCHANGED <<step[q], try[q], held[q], wake[q]>>
    BY <1>4 DEF FlowInv, FlowTypeOK
  <2>4. step'[p] = "pace" /\ try'[p] \in Tries /\ wake'[p] <= now' /\ answer'[try'[p]] \notin Nat
    BY <1>1, <1>4, LoginAssumption DEF FlowInv, FlowTypeOK
  <2>5. FlowOK(p)'
    BY <2>4 DEF FlowOK
  <2> QED  BY <1>1, <2>2, <2>3, <2>5, StepInv
<1>5. CASE /\ answer[try[p]] \in Nat
           /\ step' = [step EXCEPT ![p] = "exchange"] /\ held' = [held EXCEPT ![p] = try[p]]
           /\ UNCHANGED <<spent, try, deadline, interval, wake, fate>>
  <2>2. FlowTypeOK'
    BY <1>1, <1>5 DEF FlowInv, FlowTypeOK
  <2>3. \A q \in Runs \ {p} : UNCHANGED <<step[q], try[q], held[q], wake[q]>>
    BY <1>5 DEF FlowInv, FlowTypeOK
  <2>4. step'[p] = "exchange" /\ try'[p] = try[p] /\ held'[p] = try[p]
    BY <1>5 DEF FlowInv, FlowTypeOK
  <2>5. FlowOK(p)'
    BY <1>1, <1>5, <2>4 DEF FlowOK
  <2> QED  BY <1>1, <2>2, <2>3, <2>5, StepInv
<1> QED  BY <1>2, <1>3, <1>4, <1>5 DEF Poll

LEMMA CallbackInv ==
    ASSUME FlowInv, NEW p \in Runs, Callback(p)
    PROVE  FlowInv'
<1>1. UNCHANGED <<wire, tries, answer, spent, now>> /\ step[p] = "await" /\ try[p] \in Tries
  BY DEF Callback, vars, FlowInv, FlowOK
<1>2. CASE Over(p, "failed")
  BY <1>1, <1>2, OverInv DEF FlowInv, FlowTypeOK
<1>3. ASSUME answer[try[p]] # None, answer[try[p]] # Refused,
             step' = [step EXCEPT ![p] = "exchange"], held' = [held EXCEPT ![p] = try[p]],
             UNCHANGED <<try, deadline, interval, wake, fate>>
      PROVE  FlowInv'
  <2>1. answer[try[p]] \in Nat
    BY <1>1, <1>3 DEF FlowInv, FlowTypeOK
  <2>2. FlowTypeOK'
    BY <1>1, <1>3 DEF FlowInv, FlowTypeOK
  <2>3. \A q \in Runs \ {p} : UNCHANGED <<step[q], try[q], held[q], wake[q]>>
    BY <1>3 DEF FlowInv, FlowTypeOK
  <2>4. step'[p] = "exchange" /\ try'[p] = try[p] /\ held'[p] = try[p]
    BY <1>3 DEF FlowInv, FlowTypeOK
  <2>5. FlowOK(p)'
    BY <1>1, <2>1, <2>4 DEF FlowOK
  <2> QED  BY <1>1, <2>2, <2>3, <2>5, StepInv
<1> QED  BY <1>2, <1>3 DEF Callback, Redirects

LEMMA FlowRestInv ==
    ASSUME FlowInv
    PROVE  /\ \A p \in Runs : Exchange(p) \/ Dies(p) => FlowInv'
           /\ \A k \in Tries : UserAnswers(k) => FlowInv'
           /\ UNCHANGED flow /\ now' \in {now, now + 1} => FlowInv'
<1>1. ASSUME NEW p \in Runs, Exchange(p) PROVE FlowInv'
  <2>1. step[p] = "exchange" /\ held[p] \in Tries
    BY <1>1 DEF Exchange, FlowInv, FlowOK
  <2>2. UNCHANGED <<wire, tries, answer, now>> /\ (Over(p, "failed") \/ Over(p, "in"))
        /\ (spent' = spent \/ spent' = spent \cup {held[p]})
    BY <1>1 DEF Exchange, vars, LogIn
  <2>3. spent' \subseteq Tries
    BY <2>1, <2>2 DEF FlowInv, FlowTypeOK
  <2> QED  BY <2>2, <2>3, OverInv
<1>2. ASSUME NEW p \in Runs, Dies(p) PROVE FlowInv'
  BY <1>2, OverInv DEF Dies, vars, FlowInv, FlowTypeOK
<1>3. ASSUME NEW k \in Tries, UserAnswers(k) PROVE FlowInv'
  <2>1. /\ UNCHANGED <<wire, tries, spent, step, try, deadline, interval, wake, held, fate, now>>
        /\ answer[k] = None /\ answer' \in {[answer EXCEPT ![k] = now], [answer EXCEPT ![k] = Refused]}
    BY <1>3 DEF UserAnswers, vars
  <2>2. FlowTypeOK'
    BY <2>1 DEF FlowInv, FlowTypeOK
  <2>3. ASSUME NEW q \in Runs PROVE FlowOK(q)'
    <3>1. CASE try[q] = k
      <4>1. step[q] # "exchange"
        BY <2>1, <3>1, LoginAssumption DEF FlowInv, FlowOK
      <4>2. answer'[k] = now \/ answer'[k] = Refused
        BY <2>1 DEF FlowInv, FlowTypeOK
      <4>3. answer'[k] \in Nat => answer'[k] = now
        BY <4>2, LoginAssumption
      <4> QED  BY <2>1, <3>1, <4>1, <4>3 DEF FlowInv, FlowOK
    <3>2. CASE try[q] # k
      <4>1. try[q] \in Tries => answer'[try[q]] = answer[try[q]]
        BY <2>1, <3>2 DEF FlowInv, FlowTypeOK
      <4> QED  BY <2>1, <4>1 DEF FlowInv, FlowOK
    <3> QED  BY <3>1, <3>2
  <2> QED  BY <2>1, <2>2, <2>3 DEF FlowInv
<1>4. ASSUME UNCHANGED flow, now' \in {now, now + 1} PROVE FlowInv'
  <2>1. FlowTypeOK'
    BY <1>4 DEF flow, FlowInv, FlowTypeOK
  <2>2. ASSUME NEW q \in Runs PROVE FlowOK(q)'
    <3>1. wake[q] \in Nat /\ now \in Nat /\ now' \in Nat /\ now <= now'
      BY <1>4 DEF FlowInv, FlowTypeOK
    <3>2. UNCHANGED <<step[q], try[q], held[q], wake[q], answer>>
      BY <1>4 DEF flow
    <3> QED  BY <3>1, <3>2 DEF FlowInv, FlowOK
  <2> QED  BY <1>4, <2>1, <2>2 DEF FlowInv
<1> QED  BY <1>1, <1>2, <1>3, <1>4

LEMMA FlowNextInv ==
    ASSUME FlowInv, [LoginNext]_<<flow, vars>>
    PROVE  FlowInv'
<1>1. CASE UNCHANGED <<flow, vars>>
  BY <1>1, FlowRestInv DEF vars
<1>2. CASE Done
  BY <1>2, FlowRestInv DEF Done, vars
<1>3. CASE Tick /\ UNCHANGED flow
  BY <1>3, FlowRestInv DEF Tick
<1>4. ASSUME NEW p \in Runs, (PutLogin(p) \/ Crash(p)) /\ UNCHANGED flow PROVE FlowInv'
  BY <1>4, FlowRestInv DEF PutLogin, Crash
<1> QED
  BY <1>1, <1>2, <1>3, <1>4, BeginsInv, PaceInv, PollInv, CallbackInv, FlowRestInv DEF LoginNext

\* A login exchanges the code of its own attempt only, and whoever approves a device in
\* time is not told that it expired.
THEOREM LoginsHeedTheUser == LoginSpec => LoginHeedsTheUser
<1>1. FlowInv => OwnApprovalOnly
  BY DEF FlowInv, FlowOK, OwnApprovalOnly
<1>2. ASSUME FlowInv, [LoginNext]_<<flow, vars>>, NEW p \in Runs,
             fate[p] # "expired", fate'[p] = "expired", now = wake[p]
      PROVE  answer[try[p]] \notin Nat \/ answer[try[p]] >= deadline[p]
  <2>1. Pace(p) /\ now >= deadline[p]
    <3>1. ASSUME NEW q \in Runs, NEW how \in {"none", "failed", "in", "dead"},
                 fate' = [fate EXCEPT ![q] = how]
          PROVE  FALSE
      BY <1>2, <3>1 DEF FlowInv, FlowTypeOK
    <3>2. \A q \in Runs : ~ (Begins(q, "pace") \/ Begins(q, "await") \/ NeverBegins(q))
      BY <3>1 DEF Begins, NeverBegins
    <3>3. \A q \in Runs : \A how \in {"failed", "in", "dead"} : ~ Over(q, how)
      BY <3>1 DEF Over
    <3>4. fate' # fate
      BY <1>2
    <3>5. \A q \in Runs : ~ (Poll(q) \/ Callback(q) \/ Exchange(q) \/ Dies(q))
      BY <3>3, <3>4 DEF Poll, Callback, Exchange, Dies
    <3>6. \A k \in Tries : ~ UserAnswers(k)
      BY <3>4 DEF UserAnswers
    <3>7. ~ UNCHANGED flow /\ ~ Done
      BY <3>4 DEF flow, Done
    <3>8. PICK q \in Runs : Pace(q)
      BY <1>2, <3>2, <3>5, <3>6, <3>7 DEF LoginNext, AskForDevice, OpenBrowser
    <3>9. Over(q, "expired") /\ now >= deadline[q]
      BY <3>4, <3>8 DEF Pace
    <3>10. q = p
      BY <1>2, <3>9 DEF Over, FlowInv, FlowTypeOK
    <3> QED  BY <3>8, <3>9, <3>10
  <2> QED  BY <1>2, <2>1 DEF Pace, FlowInv, FlowOK, FlowTypeOK
<1>3. ASSUME FlowInv, [LoginNext]_<<flow, vars>>
      PROVE  [\A p \in Runs : fate[p] # "expired" /\ fate'[p] = "expired" /\ now = wake[p] =>
                 LET a == answer[try[p]] IN a \notin Nat \/ a >= deadline[p]]_<<flow, vars>>
  BY <1>2, <1>3
<1> QED
  BY <1>1, <1>3, InitFlowInv, FlowNextInv, PTL DEF LoginSpec, LoginHeedsTheUser, InTimeIsInTime
===============================================================================
