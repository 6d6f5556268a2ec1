--------------------------------- MODULE Login ---------------------------------
(***************************************************************************)
(* bz --login in detail (auth/device.rs, auth/flows.rs, auth/login.rs):    *)
(* what comes before the credential that OAuthRefresh!LogIn obtains in one *)
(* step.  A row has one way to log in:                                     *)
(*   "rfc8628"   a device code; its poll answers the tokens;               *)
(*   "codex"     a device code; its poll answers a code to exchange;       *)
(*   "loopback"  a browser that is redirected to a port of its own;        *)
(*   "fixed"     the same with the one port that is registered.            *)
(*                                                                         *)
(* Attempts are numbered: the number stands for the device code, and for   *)
(* the state and the verifier of a browser login.  The user approves or    *)
(* declines an attempt at any time, also when the process that made it is  *)
(* gone, and may load a redirect again.                                    *)
(***************************************************************************)
EXTENDS OAuthRefresh

CONSTANTS
    Wires,              \* of {"rfc8628", "codex", "loopback", "fixed"}
    DEFAULT_INTERVAL,   \* 5 s: when none is named, and what slow_down adds
    Intervals,          \* the intervals a server names
    Expiries,           \* expires_in, or CODEX_DEADLINE
    MaxTries            \* bound: how many attempts are made

ASSUME LoginAssumption ==
    /\ Wires \subseteq {"rfc8628", "codex", "loopback", "fixed"}
    /\ DEFAULT_INTERVAL \in Nat /\ Intervals \subseteq Nat /\ Expiries \subseteq Nat
    /\ MaxTries \in 0..MaxLogins
    /\ {None, Refused} \cap Nat = {}

Tries == 1..MaxTries

VARIABLES
    wire,       \* of Wires
    tries,      \* attempts made
    answer,     \* per attempt: when the user approved it, Refused, or None
    spent,      \* attempts whose code or tokens the server has handed out
    step,       \* per run: "none", "pace", "sleep", "await" or "exchange"
    try,        \* per run: its attempt
    deadline, interval, wake,   \* per run: those of poll_until
    held,       \* per run: the attempt whose code it is to exchange, 0 if it holds none
    fate        \* per run: how its last login went

flow == <<wire, tries, answer, spent, step, try, deadline, interval, wake, held, fate>>

FlowInit ==
    /\ wire \in Wires /\ tries = 0
    /\ answer = [k \in Tries |-> None] /\ spent = {}
    /\ step = [p \in Runs |-> "none"] /\ try = [p \in Runs |-> 0]
    /\ deadline = [p \in Runs |-> 0] /\ interval = [p \in Runs |-> 0] /\ wake = [p \in Runs |-> 0]
    /\ held = [p \in Runs |-> 0] /\ fate = [p \in Runs |-> "none"]

\* The flow is over: what it knew is gone.
Over(p, how) ==
    /\ step' = [step EXCEPT ![p] = "none"] /\ fate' = [fate EXCEPT ![p] = how]
    /\ try' = [try EXCEPT ![p] = 0] /\ held' = [held EXCEPT ![p] = 0]
    /\ deadline' = [deadline EXCEPT ![p] = 0] /\ interval' = [interval EXCEPT ![p] = 0]
    /\ wake' = [wake EXCEPT ![p] = 0]

\* The flow goes on, with the next attempt.
Begins(p, s) ==
    /\ step[p] = "none" /\ pc[p] = "idle" /\ tries < MaxTries
    /\ tries' = tries + 1 /\ try' = [try EXCEPT ![p] = tries + 1]
    /\ step' = [step EXCEPT ![p] = s] /\ fate' = [fate EXCEPT ![p] = "none"]
    /\ UNCHANGED <<wire, answer, spent, wake, held, vars>>

(***************************************************************************)
(* The device code.                                                        *)
(***************************************************************************)
AskForDevice(p) ==
    /\ wire \in {"rfc8628", "codex"}
    /\ Begins(p, "pace")
    /\ \E i \in Intervals \cup {DEFAULT_INTERVAL}, e \in Expiries :
          interval' = [interval EXCEPT ![p] = i] /\ deadline' = [deadline EXCEPT ![p] = now + e]

\* Mutant: the deadline is looked at after the wait, where no poll follows.
PaceThenLook(p) ==
    /\ step[p] = "pace"
    /\ IF now + interval[p] >= deadline[p] THEN Over(p, "expired")
       ELSE /\ step' = [step EXCEPT ![p] = "sleep"] /\ wake' = [wake EXCEPT ![p] = now + interval[p]]
            /\ UNCHANGED <<try, deadline, interval, held, fate>>
    /\ UNCHANGED <<wire, tries, answer, spent, vars>>

\* The head of the loop: the deadline, then the wait.
Pace(p) ==
    /\ step[p] = "pace"
    /\ IF now >= deadline[p] THEN Over(p, "expired")
       ELSE /\ step' = [step EXCEPT ![p] = "sleep"] /\ wake' = [wake EXCEPT ![p] = now + interval[p]]
            /\ UNCHANGED <<try, deadline, interval, held, fate>>
    /\ UNCHANGED <<wire, tries, answer, spent, vars>>

\* Its rest: one poll.  A server that has given the code up says so, at the deadline or
\* later.
Poll(p) ==
    LET k == try[p] IN
    /\ step[p] = "sleep" /\ now >= wake[p]
    /\ \/ \* It fails, or its answer is lost, malformed or a refusal.
          Over(p, "failed") /\ UNCHANGED <<wire, tries, answer, spent, vars>>
       \/ \* Nobody has entered the code.
          /\ answer[k] = None
          /\ interval' \in {interval} \cup
                IF wire = "rfc8628" THEN {[interval EXCEPT ![p] = @ + DEFAULT_INTERVAL]} ELSE {}
          /\ step' = [step EXCEPT ![p] = "pace"]
          /\ UNCHANGED <<wire, tries, answer, spent, try, deadline, wake, held, fate, vars>>
       \/ /\ answer[k] \in Nat /\ k \notin spent /\ wire = "rfc8628"
          /\ spent' = spent \cup {k} /\ LogIn(p) /\ Over(p, "in")
          /\ UNCHANGED <<wire, tries, answer>>
       \/ /\ answer[k] \in Nat /\ wire = "codex"
          /\ step' = [step EXCEPT ![p] = "exchange"] /\ held' = [held EXCEPT ![p] = k]
          /\ UNCHANGED <<wire, tries, answer, spent, try, deadline, interval, wake, fate, vars>>

(***************************************************************************)
(* The browser.                                                            *)
(***************************************************************************)
\* The registered port is free: it is held until the process that logs in is gone.
OpenBrowser(p) ==
    /\ wire \in {"loopback", "fixed"}
    /\ wire = "fixed" => \A q \in Runs : step[q] = "none" /\ pc[q] # "log_in"
    /\ Begins(p, "await")
    /\ UNCHANGED <<interval, deadline>>

\* The redirects that may come in where p listens: its own, or on a port that is used
\* again one of an attempt that was given up, loaded late or once more.
Redirects(p) == {k \in 1..tries : answer[k] # None /\ (k = try[p] \/ \A q \in Runs : try[q] # k)}

\* Mutant: any code will do.
CallbackUnchecked(p) ==
    /\ step[p] = "await"
    /\ \E k \in Redirects(p) :
          IF answer[k] = Refused THEN Over(p, "failed")
          ELSE /\ step' = [step EXCEPT ![p] = "exchange"] /\ held' = [held EXCEPT ![p] = k]
               /\ UNCHANGED <<try, deadline, interval, wake, fate>>
    /\ UNCHANGED <<wire, tries, answer, spent, vars>>

\* await_query and parse_callback: the first request that comes in, a redirect or not;
\* the state must be that of this attempt.
Callback(p) ==
    /\ step[p] = "await"
    /\ \/ Over(p, "failed")
       \/ \E k \in Redirects(p) :
             IF answer[k] = Refused \/ k # try[p] THEN Over(p, "failed")
             ELSE /\ step' = [step EXCEPT ![p] = "exchange"] /\ held' = [held EXCEPT ![p] = k]
                  /\ UNCHANGED <<try, deadline, interval, wake, fate>>
    /\ UNCHANGED <<wire, tries, answer, spent, vars>>

\* exchange_auth_code: the server honours a code once, with the verifier of its attempt.
Exchange(p) ==
    /\ step[p] = "exchange"
    /\ \/ Over(p, "failed") /\ UNCHANGED <<spent, vars>>
       \/ /\ held[p] = try[p] /\ held[p] \notin spent
          /\ spent' = spent \cup {held[p]} /\ LogIn(p) /\ Over(p, "in")
    /\ UNCHANGED <<wire, tries, answer>>

(***************************************************************************)
(* Around it.                                                              *)
(***************************************************************************)
\* The first request is not answered, the port is taken, the browser does not start.
NeverBegins(p) ==
    /\ step[p] = "none" /\ pc[p] = "idle" /\ tries < MaxTries
    /\ tries' = tries + 1 /\ fate' = [fate EXCEPT ![p] = "failed"]
    /\ UNCHANGED <<wire, answer, spent, step, try, deadline, interval, wake, held, vars>>

Dies(p) ==
    /\ step[p] # "none" /\ Over(p, "dead")
    /\ UNCHANGED <<wire, tries, answer, spent, vars>>

UserAnswers(k) ==
    /\ k <= tries /\ answer[k] = None
    /\ answer' \in {[answer EXCEPT ![k] = now], [answer EXCEPT ![k] = Refused]}
    /\ UNCHANGED <<wire, tries, spent, step, try, deadline, interval, wake, held, fate, vars>>

\* All attempts are made and over.
Done ==
    /\ tries = MaxTries /\ \A p \in Runs : step[p] = "none" /\ pc[p] = "idle"
    /\ UNCHANGED <<flow, vars>>

LoginNext ==
    \/ \E p \in Runs :
          \/ AskForDevice(p) \/ Pace(p) \/ Poll(p)
          \/ OpenBrowser(p) \/ Callback(p) \/ Exchange(p)
          \/ NeverBegins(p) \/ Dies(p)
          \/ (PutLogin(p) \/ Crash(p)) /\ UNCHANGED flow
    \/ \E k \in Tries : UserAnswers(k)
    \/ Tick /\ UNCHANGED flow
    \/ Done

LoginSpec == Init /\ FlowInit /\ [][LoginNext]_<<flow, vars>>

(***************************************************************************)
(* Properties.                                                             *)
(***************************************************************************)
FlowTypeOK ==
    /\ wire \in Wires /\ tries \in 0..MaxTries /\ spent \subseteq Tries
    /\ answer \in [Tries -> Nat \cup {None, Refused}]
    /\ step \in [Runs -> {"none", "pace", "sleep", "await", "exchange"}]
    /\ try \in [Runs -> 0..MaxTries] /\ held \in [Runs -> 0..MaxTries]
    /\ deadline \in [Runs -> Nat] /\ interval \in [Runs -> Nat] /\ wake \in [Runs -> Nat]
    /\ fate \in [Runs -> {"none", "expired", "failed", "in", "dead"}]

\* What a login exchanges is what its own attempt was approved for ("never proceeding
\* to token exchange" with another's), though redirects of attempts that were given up
\* may come in on the same port.
OwnApprovalOnly ==
    \A p \in Runs : step[p] = "exchange" => held[p] = try[p] /\ answer[try[p]] \in Nat

\* Who approves a device before the deadline is not told that it expired, unless the last
\* poll was late or slow (or never was): the poll that follows the last look at the
\* deadline still finds the approval.
InTimeIsInTime ==
    [][ \A p \in Runs :
            fate[p] # "expired" /\ fate'[p] = "expired" /\ now = wake[p] =>
                LET a == answer[try[p]] IN a \notin Nat \/ a >= deadline[p] ]_<<flow, vars>>

\* A login heeds what its user does, and when.
LoginHeedsTheUser == [][OwnApprovalOnly']_<<flow, vars>> /\ InTimeIsInTime

\* In detail a login does what LogIn does in one step.
ImplementsLogIn == Spec
==============================================================================
