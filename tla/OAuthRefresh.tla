----------------------------- MODULE OAuthRefresh -----------------------------
(***************************************************************************)
(* The OAuth credential of one provider row (auth/refresh.rs, auth/mod.rs, *)
(* auth/oauth.rs, the put of auth/login.rs): several bz processes, each of *)
(* which finds a credential, refreshes it if it is stale and its own,      *)
(* stores the result and only then uses it; an authorization server; and   *)
(* another tool on the box whose sign-in bz borrows but never refreshes.   *)
(*                                                                         *)
(* Every access to the store is one step: FileReplace shows when it is     *)
(* atomic.  The steps between which other processes run are the accesses   *)
(* to the store, to the other tool's file and to the server.               *)
(*                                                                         *)
(* A token is named by the login it descends from and a serial number      *)
(* within it, so that a token in the wrong place is seen to be wrong.      *)
(***************************************************************************)
EXTENDS Integers

CONSTANTS
    Runs,         \* the bz processes
    HasAmbient,   \* the row has an ambient block
    Policies,     \* what the server may do with a refresh token once used (see Ask)
    SKEW,         \* the margin of is_expired
    Life,         \* the expires_in the server grants
    MaxLogins,    \* bound: how often somebody logs in
    MaxSerial,    \* bound: how many access tokens one login leads to
    MaxTime,      \* bound: the clock
    None,         \* no credential
    WrongKind,    \* a credential that is not an OAuth one: of no use to an OAuth row
    Refused,      \* an answer without a token: the refresh token is not honoured
    Busy          \* an answer without a token: the server is out of order (a 503)

ASSUME OAuthAssumption ==
    /\ HasAmbient \in BOOLEAN
    /\ Policies \subseteq {"keeps", "single_use", "revokes"}
    /\ SKEW \in Nat /\ Life \in Nat
    /\ MaxLogins \in Nat /\ MaxSerial \in Nat \ {0} /\ MaxTime \in Nat

Tool == 0
Logins == 1..MaxLogins

Tokens == [login : {Tool} \cup Logins, serial : 0..MaxSerial]

\* Cred::OAuth2, without the scope; account is the login it names, None if it names
\* none (the token response had no id_token, the file no account).
Creds == [access : Tokens, refresh : Tokens, expires_at : 0..(MaxTime + Life),
          account : {Tool, None} \cup Logins]

\* What the token endpoint answers, and what a run sends: a token, the account beside
\* it, and the expiry it was believed to have.
Grants == [access : Tokens, refresh : Tokens \cup {None}, account : Logins \cup {None},
           life : {0, Life}]
Bearers == [access : Tokens, account : {Tool, None} \cup Logins, expires_at : 0..(MaxTime + Life)]

ASSUME NullAssumption ==
    /\ {None, WrongKind} \cap (Creds \cup Bearers \cup Tokens \cup 0..MaxTime \cup Logins) = {}
    /\ {None, Refused, Busy} \cap Grants = {}
    /\ None \notin {WrongKind, Refused, Busy, Tool}

VARIABLES
    now,        \* the clock
    policy,     \* the server's, of Policies
    logins,     \* logins so far
    issued,     \* per login: the access tokens issued
    live,       \* per login: the serial of the refresh token honoured, 0 once revoked
    named,      \* the logins whose token response has an id_token: it names the account
    store,      \* what CredStore::get returns
    ambient,    \* what CredStore::discover returns
    pc,         \* per run: where it is
    cred,       \* per run: the credential fetched, then the one to store
    reply,      \* per run: the server's answer, not yet read
    bearer,     \* per run: the token and the account to send
    checked,    \* per run: when the bearer was found fresh, or None
    exit,       \* per run: the exit code of its last run, None while it is going on
    persisted,  \* history: the access tokens ever stored
    strayed     \* history: logins whose latest refresh token was lost by a mishap

server == <<policy, logins, issued, live, named>>
local == <<pc, cred, reply, bearer, checked, exit>>
vars == <<now, server, store, ambient, local, persisted, strayed>>

Init ==
    /\ now = 0 /\ policy \in Policies
    /\ logins = 0
    /\ issued = [l \in Logins |-> 0] /\ live = [l \in Logins |-> 0]
    /\ named \in SUBSET Logins
    /\ store \in {None, WrongKind} /\ ambient = None
    /\ pc = [p \in Runs |-> "idle"]
    /\ cred = [p \in Runs |-> None] /\ reply = [p \in Runs |-> None]
    /\ bearer = [p \in Runs |-> None] /\ checked = [p \in Runs |-> None]
    /\ exit = [p \in Runs |-> None]
    /\ persisted = {} /\ strayed = {}

\* Mutant: the margin is forgotten.
IsExpiredLate(expires_at, t) == t >= expires_at

\* is_expired: a query with a margin, stale at the boundary.
IsExpired(expires_at, t) == t + SKEW >= expires_at

(***************************************************************************)
(* The steps of a run.  Each ends in one of these.                         *)
(***************************************************************************)
\* The run is over; what it knew is gone with the process.
Exits(p, code) ==
    /\ pc' = [pc EXCEPT ![p] = "idle"]
    /\ exit' = [exit EXCEPT ![p] = code]
    /\ cred' = [cred EXCEPT ![p] = None] /\ reply' = [reply EXCEPT ![p] = None]
    /\ bearer' = [bearer EXCEPT ![p] = None] /\ checked' = [checked EXCEPT ![p] = None]

BearerOf(c, account) == [access |-> c.access, account |-> account, expires_at |-> c.expires_at]

\* The fresh credential c is the one to send.
Sends(p, c) ==
    /\ pc' = [pc EXCEPT ![p] = "send"]
    /\ bearer' = [bearer EXCEPT ![p] = BearerOf(c, c.account)]
    /\ checked' = [checked EXCEPT ![p] = now]
    /\ exit' = [exit EXCEPT ![p] = None]
    /\ cred' = [cred EXCEPT ![p] = None] /\ UNCHANGED reply

\* bearer: what to do with the credential c fetched from a source.
Examine(p, c, source) ==
    IF c = WrongKind THEN Exits(p, 77)
    ELSE IF ~ IsExpired(c.expires_at, now)
    THEN Sends(p, c)
    ELSE IF source = "borrowed" THEN Exits(p, 77)
    ELSE /\ pc' = [pc EXCEPT ![p] = "refresh"] /\ cred' = [cred EXCEPT ![p] = c]
         /\ exit' = [exit EXCEPT ![p] = None]
         /\ UNCHANGED <<reply, bearer, checked>>

\* fetch_cred: the store first ...
Get(p) ==
    /\ pc[p] = "idle"
    /\ IF store # None THEN Examine(p, store, "owned")
       ELSE /\ pc' = [pc EXCEPT ![p] = "discover"]
            /\ exit' = [exit EXCEPT ![p] = None]
            /\ UNCHANGED <<cred, reply, bearer, checked>>
    /\ UNCHANGED <<now, server, store, ambient, persisted, strayed>>

\* Mutant: a borrowed credential is taken for one's own.
DiscoverOwned(p) ==
    /\ pc[p] = "discover"
    /\ IF HasAmbient /\ ambient # None THEN Examine(p, ambient, "owned") ELSE Exits(p, 77)
    /\ UNCHANGED <<now, server, store, ambient, persisted, strayed>>

\* ... and the ambient file on a miss.
Discover(p) ==
    /\ pc[p] = "discover"
    /\ IF HasAmbient /\ ambient # None THEN Examine(p, ambient, "borrowed") ELSE Exits(p, 77)
    /\ UNCHANGED <<now, server, store, ambient, persisted, strayed>>

(***************************************************************************)
(* The token endpoint.  The server may                                     *)
(*   keep a refresh token valid ("keeps"),                                 *)
(*   replace it by a new one each time ("single_use"),                     *)
(*   or moreover revoke the whole login when an old one is shown again     *)
(*   ("revokes").                                                          *)
(***************************************************************************)
Ask(p) ==
    LET r == cred[p].refresh
        l == r.login
        n == issued[l] + 1
        rotates == policy # "keeps"
    IN
    /\ pc[p] = "refresh"
    /\ \/ \* It never gets there.
          Exits(p, 69) /\ UNCHANGED <<issued, live>>
       \/ \* It is honoured.
          /\ l \in Logins /\ r.serial = live[l] /\ n <= MaxSerial
          /\ issued' = [issued EXCEPT ![l] = n]
          /\ live' = [live EXCEPT ![l] = IF rotates THEN n ELSE @]
          /\ \E life \in {0, Life}, account \in {None, l} :
                reply' = [reply EXCEPT ![p] =
                    [access |-> [login |-> l, serial |-> n], account |-> account, life |-> life,
                     refresh |-> IF rotates THEN [login |-> l, serial |-> n] ELSE None]]
          /\ pc' = [pc EXCEPT ![p] = "answered"]
          /\ UNCHANGED <<cred, bearer, checked, exit>>
       \/ \* It is not honoured any more.
          /\ l \in Logins => r.serial # live[l]
          /\ reply' = [reply EXCEPT ![p] = Refused]
          /\ live' = [k \in Logins |-> IF k = l /\ policy = "revokes" THEN 0 ELSE live[k]]
          /\ pc' = [pc EXCEPT ![p] = "answered"]
          /\ UNCHANGED <<issued, cred, bearer, checked, exit>>
       \/ /\ reply' = [reply EXCEPT ![p] = Busy]
          /\ pc' = [pc EXCEPT ![p] = "answered"]
          /\ UNCHANGED <<issued, live, cred, bearer, checked, exit>>
    /\ UNCHANGED <<now, policy, logins, named, store, ambient, persisted, strayed>>

\* The refresh token p was given and has not stored is lost with p's run.
Granted(p) == reply[p] \notin {None, Refused, Busy}
Strays(p) ==
    strayed' = strayed \cup (IF Granted(p) THEN {reply[p].access.login}
                             ELSE IF pc[p] = "persist" THEN {cred[p].access.login} ELSE {})

\* Mutant: what the response leaves out is not carried forward.
AsCredBare(t, prior) ==
    [access |-> t.access, refresh |-> IF t.refresh = None THEN prior.refresh ELSE t.refresh,
     expires_at |-> now + t.life, account |-> t.account]

\* Mutant: a rotated refresh token is not taken over.
AsCredStuck(t, prior) ==
    [access |-> t.access, refresh |-> prior.refresh, expires_at |-> now + t.life,
     account |-> IF t.account = None THEN prior.account ELSE t.account]

\* as_cred: what the response leaves out is carried forward.  (The expiry is made
\* absolute when the response is parsed, which is the same moment.)
AsCred(t, prior) ==
    [access |-> t.access, refresh |-> IF t.refresh = None THEN prior.refresh ELSE t.refresh,
     expires_at |-> now + t.life,
     account |-> IF t.account = None THEN prior.account ELSE t.account]

\* Mutant: use, then persist.
ReceiveAndUse(p) ==
    /\ pc[p] = "answered" /\ Granted(p)
    /\ cred' = [cred EXCEPT ![p] = AsCred(reply[p], cred[p])]
    /\ bearer' = [bearer EXCEPT ![p] = BearerOf(AsCred(reply[p], cred[p]), cred[p].account)]
    /\ pc' = [pc EXCEPT ![p] = "send"] /\ reply' = [reply EXCEPT ![p] = None]
    /\ UNCHANGED <<now, server, store, ambient, checked, exit, persisted, strayed>>

\* collect_body, parse_token_response.
Receive(p) ==
    /\ pc[p] = "answered"
    /\ \/ Exits(p, 69) /\ Strays(p)
       \/ /\ reply[p] \in {Refused, Busy}
          /\ pc' = [pc EXCEPT ![p] = "spent"] /\ reply' = [reply EXCEPT ![p] = None]
          /\ UNCHANGED <<cred, bearer, checked, exit, strayed>>
       \/ /\ Granted(p)
          /\ cred' = [cred EXCEPT ![p] = AsCred(reply[p], cred[p])]
          /\ bearer' = [bearer EXCEPT ![p] = BearerOf(AsCred(reply[p], cred[p]), cred[p].account)]
          /\ pc' = [pc EXCEPT ![p] = "persist"] /\ reply' = [reply EXCEPT ![p] = None]
          /\ UNCHANGED <<checked, exit, strayed>>
    /\ UNCHANGED <<now, server, store, ambient, persisted>>

\* spent: a fresh borrowed credential answers the request; the store is not read again.
Spent(p) ==
    /\ pc[p] = "spent"
    /\ IF HasAmbient /\ ambient \in Creds /\ ~ IsExpired(ambient.expires_at, now)
       THEN Sends(p, ambient)
       ELSE Exits(p, 77)
    /\ UNCHANGED <<now, server, store, ambient, persisted, strayed>>

\* The put, atomic; the token is used once it is stored.
Persist(p) ==
    /\ pc[p] = "persist"
    /\ \/ /\ store' = cred[p] /\ persisted' = persisted \cup {cred[p].access}
          /\ pc' = [pc EXCEPT ![p] = "send"]
          /\ UNCHANGED <<cred, reply, bearer, checked, exit, strayed>>
       \/ Exits(p, 77) /\ Strays(p) /\ UNCHANGED <<store, persisted>>
    /\ UNCHANGED <<now, server, ambient>>

\* The request goes out with the token.
Send(p) ==
    /\ pc[p] = "send"
    /\ Exits(p, 0)
    /\ UNCHANGED <<now, server, store, ambient, persisted, strayed>>

(***************************************************************************)
(* bz --login: the server grants a login, then the put.  The credential    *)
(* names the account if the answer had an id_token to name it.             *)
(***************************************************************************)
LogIn(p) ==
    LET l == logins + 1
        t == [login |-> l, serial |-> 1]
    IN
    /\ pc[p] = "idle" /\ logins < MaxLogins
    /\ logins' = l
    /\ issued' = [issued EXCEPT ![l] = 1] /\ live' = [live EXCEPT ![l] = 1]
    /\ cred' = [cred EXCEPT ![p] = [access |-> t, refresh |-> t, expires_at |-> now + Life,
                                    account |-> IF l \in named THEN l ELSE None]]
    /\ pc' = [pc EXCEPT ![p] = "log_in"] /\ exit' = [exit EXCEPT ![p] = None]
    /\ UNCHANGED <<now, policy, named, store, ambient, reply, bearer, checked, persisted, strayed>>

PutLogin(p) ==
    /\ pc[p] = "log_in"
    /\ \/ /\ store' = cred[p] /\ persisted' = persisted \cup {cred[p].access}
          /\ Exits(p, 0)
       \/ Exits(p, 77) /\ UNCHANGED <<store, persisted>>
    /\ UNCHANGED <<now, server, ambient, strayed>>

\* A run dies anywhere.
Crash(p) ==
    /\ pc[p] # "idle"
    /\ Exits(p, 130) /\ Strays(p)
    /\ UNCHANGED <<now, server, store, ambient, persisted>>

(***************************************************************************)
(* The other tool signs in, refreshes its sign-in or signs out.  One kind  *)
(* of file has no account in it, another may have one: the token that came *)
(* with an account is number 1.                                            *)
(***************************************************************************)
ToolCred(account) ==
    LET t == [login |-> Tool, serial |-> IF account = None THEN 0 ELSE 1]
    IN [access |-> t, refresh |-> t, expires_at |-> now + Life, account |-> account]

ToolWrites ==
    /\ ambient' \in {None, WrongKind, ToolCred(None), ToolCred(Tool)}
    /\ UNCHANGED <<now, server, store, local, persisted, strayed>>

Tick ==
    /\ now < MaxTime
    /\ now' = now + 1
    /\ UNCHANGED <<server, store, ambient, local, persisted, strayed>>

Next ==
    \/ \E p \in Runs :
          \/ Get(p) \/ Discover(p) \/ Ask(p) \/ Receive(p) \/ Spent(p) \/ Persist(p) \/ Send(p)
          \/ LogIn(p) \/ PutLogin(p) \/ Crash(p)
    \/ HasAmbient /\ ToolWrites
    \/ Tick

Spec == Init /\ [][Next]_vars

(***************************************************************************)
(* Properties.                                                             *)
(***************************************************************************)
TypeOK ==
    /\ now \in 0..MaxTime /\ policy \in Policies /\ logins \in 0..MaxLogins
    /\ issued \in [Logins -> 0..MaxSerial] /\ live \in [Logins -> 0..MaxSerial]
    /\ named \subseteq Logins
    /\ store \in Creds \cup {None, WrongKind} /\ ambient \in Creds \cup {None, WrongKind}
    /\ pc \in [Runs -> {"idle", "discover", "refresh", "answered", "spent", "persist", "send", "log_in"}]
    /\ cred \in [Runs -> Creds \cup {None}]
    /\ reply \in [Runs -> Grants \cup {Refused, Busy, None}]
    /\ bearer \in [Runs -> Bearers \cup {None}]
    /\ checked \in [Runs -> 0..MaxTime \cup {None}]
    /\ exit \in [Runs -> {0, 69, 77, 130, None}]
    /\ persisted \subseteq Tokens /\ strayed \subseteq Logins

\* What another tool owns is only ever sent: its refresh token is never shown to the
\* server, and nothing of it enters the store, through whatever sequence of misses,
\* refusals and second looks.
BorrowedStaysBorrowed ==
    /\ store \in Creds => store.access.login # Tool /\ store.refresh.login # Tool
    /\ \A p \in Runs : pc[p] \in {"refresh", "answered", "persist"} => cred[p].refresh.login # Tool

\* Persist-then-use: whatever token of its own bz sends, the next process finds or
\* could have found it in the store; a crash after use never loses a token.
UsedWasPersisted ==
    \A p \in Runs : pc[p] = "send" /\ bearer[p].access.login # Tool => bearer[p].access \in persisted

\* A token found fresh is still good when it goes out, provided that takes no longer
\* than the margin (SKEW: "cannot expire between apply and the provider").
SentTokensAreFresh ==
    \A p \in Runs :
        pc[p] = "send" /\ checked[p] # None /\ now <= checked[p] + SKEW => now < bearer[p].expires_at

\* What may go beside token t: the account the other tool's file had beside it, if it
\* had one; the account of the login t descends from, or none if that login's own
\* response named none.
Belongs(account, t) ==
    \/ account = t.login /\ (t.login = Tool => t.serial = 1)
    \/ account = None /\ (IF t.login = Tool THEN t.serial = 0 ELSE t.login \notin named)

\* The account sent beside a token is never another login's, and one that was named at
\* the login is never lost, though refresh responses may omit it ("the account does not
\* change on refresh").  A login whose response had no id_token may send none: the run
\* that a refresh first tells the account stores it, and still sends what it had.
AccountIsTheTokens ==
    \A p \in Runs : pc[p] = "send" => Belongs(bearer[p].account, bearer[p].access)

\* A login is not lost by refreshing: the refresh token in the store is the one the
\* server honours, or its successor is on the way to the store, or it was lost with a
\* process that died or failed in between.  (A server that revokes is another matter.)
LoginSurvives ==
    store \in Creds /\ policy # "revokes" =>
        LET l == store.refresh.login IN
        \/ store.refresh.serial = live[l]
        \/ l \in strayed
        \/ \E p \in Runs : (Granted(p) /\ reply[p].access.login = l) \/ (pc[p] = "persist" /\ cred[p].access.login = l)

\* With single-use refresh tokens the puts of one login come in the order of the
\* grants: a late put never brings an older credential back.
StoreMovesForward ==
    [][ (store \in Creds /\ store' \in Creds /\ policy # "keeps" /\ store.access.login = store'.access.login)
            => store'.access.serial >= store.access.serial ]_vars

\* No run is left without a token while the other tool holds a fresh one ("the ambient
\* block gets its look on a store miss and on a store hit this run could not make
\* fresh").
SecondSourceIsUsed ==
    [][ \A p \in Runs :
            (pc[p] # "idle" /\ HasAmbient /\ ambient \in Creds /\ ~ IsExpired(ambient.expires_at, now))
                => (exit'[p] = 77 => pc[p] \in {"persist", "log_in"}) ]_vars

\* A login serves as long as it can: refreshing does not lose it, a late put does not set
\* it back, and the other tool's is tried before the run gives up.
LoginServes == [][LoginSurvives']_vars /\ StoreMovesForward /\ SecondSourceIsUsed

==============================================================================
