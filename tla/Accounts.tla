-------------------------------- MODULE Accounts --------------------------------
(***************************************************************************)
(* The one account and its sessions (auth/auth-service.ts, the routes of   *)
(* api/auth-routes.ts, reset-password.ts), the limit on wrong passwords,   *)
(* and what the pages of the browsers know of it (api/auth.ts, App.tsx).   *)
(* Hashing a password leaves the event loop, so the handlers of several    *)
(* requests, and the command run in a shell, interleave between the        *)
(* account they read and what they write.                                  *)
(***************************************************************************)
EXTENDS Integers, FiniteSets

CONSTANTS
    Tabs, Browsers, BrowserOf,  \* the tabs of a browser share its cookie
    Addresses, AddressOf,       \* request.ip of a tab's requests
    OnServer,                   \* tabs whose socket comes from the machine itself
    Usernames, Passwords, Cookies,
    NoAccount, NoCookie, NoPassword,
    TokenIsSet,                 \* whether the server was started with a setup token
    Ttl, RenewBelow, SeenEvery, \* of a session, in ms
    MaxFailures, FailureWindow, PruneAt

VARIABLES
    clock,
    account,    \* the row of admin
    password,   \* history: how often the password has been set since
    sessionRows, expires, lastSeen, \* the table of sessions
    failures,   \* of an address; no key is the empty set
    serial,     \* tells failures of one instant apart
    stage,      \* of the request a tab has made, with
    ask,        \* its body and cookie,
    saw, read,  \* the account it read, as old as this, and
    answer,     \* what it is told
    shell,      \* the new password reset-password is hashing
    cookies,    \* in a browser
    status,     \* the sign-in state a tab's query cache holds
    fetch,      \* and the one on its way there
    issued,     \* history: every cookie a session was given,
    proved,     \* which setting of the password its owner knew, and
    late        \* those whose sign-in was under way as the password was set

authVars == <<clock, account, password, sessionRows, expires, lastSeen, failures, serial, stage,
              ask, saw, read, answer, shell, cookies, status, fetch, issued, proved, late>>
requestVars == <<stage, ask, saw, read, answer>>
pageVarsOfTabs == <<cookies, status, fetch>>
sessionVars == <<sessionRows, expires, lastSeen, issued, proved, late>>

AuthRow == [name : Usernames, pass : Passwords]
Bodies == [kind : {"setup", "login", "password"}, name : Usernames, pass : Passwords,
           next : Passwords, given : BOOLEAN, cookie : Cookies \cup {NoCookie}]
Statuses == {"setup", "signIn", "in"}
AuthAnswers == [says : Statuses \cup {"refused", "changed"}, cookie : Cookies \cup {NoCookie}]
AuthFailures == [at : Nat, n : Nat]

AccountsSized ==
    /\ IsFiniteSet(Tabs) /\ Tabs # {} /\ OnServer \subseteq Tabs
    /\ BrowserOf \in [Tabs -> Browsers] /\ AddressOf \in [Tabs -> Addresses]
    /\ NoAccount \notin AuthRow /\ NoCookie \notin Cookies /\ NoPassword \notin Passwords
    /\ TokenIsSet \in BOOLEAN /\ Ttl \in Nat \ {0} /\ RenewBelow \in Nat /\ SeenEvery \in Nat
    /\ MaxFailures \in Nat \ {0} /\ FailureWindow \in Nat /\ PruneAt \in Nat

AuthTypeOK ==
    /\ clock \in Nat /\ account \in AuthRow \cup {NoAccount} /\ password \in Nat
    /\ sessionRows \subseteq Cookies
    /\ expires \in [Cookies -> Nat] /\ lastSeen \in [Cookies -> Nat]
    /\ failures \in [Addresses -> SUBSET AuthFailures] /\ serial \in Nat
    /\ stage \in [Tabs -> {"idle", "admitted", "verifying", "hashing", "answered"}]
    /\ ask \in [Tabs -> Bodies] /\ saw \in [Tabs -> AuthRow \cup {NoAccount}]
    /\ read \in [Tabs -> Nat] /\ answer \in [Tabs -> AuthAnswers]
    /\ shell \in Passwords \cup {NoPassword} /\ cookies \in [Browsers -> Cookies \cup {NoCookie}]
    /\ status \in [Tabs -> Statuses \cup {"loading", "unreachable"}]
    /\ fetch \in [Tabs -> Statuses \cup {"none"}]
    /\ issued \subseteq Cookies /\ proved \in [Cookies -> Nat] /\ late \subseteq Cookies

AuthInit ==
    /\ clock = 0 /\ account = NoAccount /\ password = 0 /\ serial = 0
    /\ sessionRows = {} /\ expires = [c \in Cookies |-> 0] /\ lastSeen = [c \in Cookies |-> 0]
    /\ failures = [a \in Addresses |-> {}]
    /\ stage = [t \in Tabs |-> "idle"] /\ ask \in [Tabs -> Bodies]
    /\ saw = [t \in Tabs |-> NoAccount] /\ read = [t \in Tabs |-> 0]
    /\ answer = [t \in Tabs |-> [says |-> "refused", cookie |-> NoCookie]]
    /\ shell = NoPassword /\ cookies = [b \in Browsers |-> NoCookie]
    /\ status = [t \in Tabs |-> "loading"] /\ fetch = [t \in Tabs |-> "none"]
    /\ issued = {} /\ proved = [c \in Cookies |-> 0] /\ late = {}

--------------------------------------------------------------------------------
(* Sessions.                                                                    *)

CookieOf(t) == cookies[BrowserOf[t]]

\* resolveSession's answer: a row that has not expired, and an account.
SignedIn(c) == c \in sessionRows /\ account # NoAccount /\ expires[c] > clock

\* The row resolveSession writes: a later expiry for a request once little is left, and when it was
\* last seen, at most once a minute.
Renews(c, renew) == renew /\ expires[c] - clock < RenewBelow
Resolve(c, renew) ==
    /\ expires' = IF SignedIn(c) /\ Renews(c, renew)
                  THEN [expires EXCEPT ![c] = clock + Ttl] ELSE expires
    /\ lastSeen' = IF SignedIn(c) /\ (Renews(c, renew) \/ clock - lastSeen[c] > SeenEvery)
                   THEN [lastSeen EXCEPT ![c] = clock] ELSE lastSeen
    /\ UNCHANGED <<sessionRows, issued, proved, late>>

\* createSession, for someone who knew the password as it was set the n-th time.
CreateSession(c, n) ==
    /\ c \in Cookies \ issued
    /\ sessionRows' = sessionRows \cup {c} /\ issued' = issued \cup {c}
    /\ expires' = [expires EXCEPT ![c] = clock + Ttl] /\ lastSeen' = [lastSeen EXCEPT ![c] = clock]
    /\ proved' = [proved EXCEPT ![c] = n]
    /\ late' = IF n = password THEN late ELSE late \cup {c}

\* The transaction of a change and of a reset: every session but the kept one is deleted.
SetPassword(p, kept) ==
    /\ account' = IF account = NoAccount THEN account ELSE [name |-> account.name, pass |-> p]
    /\ password' = password + 1
    /\ sessionRows' = sessionRows \cap kept
    /\ proved' = [c \in Cookies |-> IF c \in kept THEN password + 1 ELSE proved[c]]
    /\ UNCHANGED <<expires, lastSeen, issued, late>>

--------------------------------------------------------------------------------
(* LoginRateLimiter.                                                            *)

Recent(a) == {f \in failures[a] : f.at > clock - FailureWindow}
Limited(a) == Cardinality(Recent(a)) >= MaxFailures
Tracked == {a \in Addresses : failures[a] # {}}

\* isLimited forgets the old failures of the address it looks at.
Looked(a) == [failures EXCEPT ![a] = Recent(a)]

Failure == [at |-> clock, n |-> serial]

\* recordFailure, which sweeps every address once there are too many.
RecordFailure(a) ==
    /\ failures' = [b \in Addresses |->
                      IF b = a THEN Recent(a) \cup {Failure}
                      ELSE IF Cardinality(Tracked) >= PruneAt THEN Recent(b) ELSE failures[b]]
    /\ serial' = serial + 1

ResetFailures(a) == failures' = [failures EXCEPT ![a] = {}] /\ UNCHANGED serial

--------------------------------------------------------------------------------
(* Requests. A tab has one at a time: a form's button is disabled while it runs.*)

Answer(t, says, c) ==
    /\ stage' = [stage EXCEPT ![t] = "answered"]
    /\ answer' = [answer EXCEPT ![t] = [says |-> says, cookie |-> c]]

Enter(t, where) == stage' = [stage EXCEPT ![t] = where] /\ UNCHANGED answer

\* The request's body, with the cookie the browser adds.
Asks(t, body) ==
    /\ stage[t] = "idle" /\ body.cookie = CookieOf(t)
    /\ ask' = [ask EXCEPT ![t] = body]

ReadAccount(t) ==
    /\ saw' = [saw EXCEPT ![t] = account] /\ read' = [read EXCEPT ![t] = password]

\* May create the account: someone with the token, or, if none is set, someone at the machine.
Entitled(t, body) == IF TokenIsSet THEN body.given ELSE t \in OnServer

\* POST /auth/setup up to the hash. Who is entitled is only looked at while there is no account.
SetupBegins(t, body) ==
    /\ status[t] = "setup" /\ body.kind = "setup" /\ Asks(t, body)
    /\ account # NoAccount \/ Entitled(t, body)
    /\ IF TokenIsSet /\ account = NoAccount
       THEN ~Limited(AddressOf[t]) /\ failures' = Looked(AddressOf[t]) ELSE UNCHANGED failures
    /\ Enter(t, "hashing")
    /\ UNCHANGED <<clock, account, password, sessionVars, serial, saw, read, shell, pageVarsOfTabs>>

SetupIsElsewhere(t, body) ==
    /\ status[t] = "setup" /\ body.kind = "setup" /\ Asks(t, body)
    /\ account = NoAccount /\ ~TokenIsSet /\ t \notin OnServer
    /\ Answer(t, "refused", NoCookie)
    /\ UNCHANGED <<clock, account, password, sessionVars, failures, serial, saw, read, shell,
                   pageVarsOfTabs>>

SetupIsLimited(t, body) ==
    /\ status[t] = "setup" /\ body.kind = "setup" /\ Asks(t, body)
    /\ account = NoAccount /\ TokenIsSet /\ Limited(AddressOf[t])
    /\ failures' = Looked(AddressOf[t]) /\ Answer(t, "refused", NoCookie)
    /\ UNCHANGED <<clock, account, password, sessionVars, serial, saw, read, shell, pageVarsOfTabs>>

SetupTokenIsWrong(t, body) ==
    /\ status[t] = "setup" /\ body.kind = "setup" /\ Asks(t, body)
    /\ account = NoAccount /\ TokenIsSet /\ ~Limited(AddressOf[t]) /\ ~body.given
    /\ RecordFailure(AddressOf[t]) /\ Answer(t, "refused", NoCookie)
    /\ UNCHANGED <<clock, account, password, sessionVars, saw, read, shell, pageVarsOfTabs>>

\* The insert that does nothing when there is a row already.
SetupCreates(t, c) ==
    /\ stage[t] = "hashing" /\ ask[t].kind = "setup" /\ account = NoAccount
    /\ account' = [name |-> ask[t].name, pass |-> ask[t].pass]
    /\ CreateSession(c, password) /\ Answer(t, "in", c)
    /\ UNCHANGED <<clock, password, failures, serial, ask, saw, read, shell, pageVarsOfTabs>>

SetupConflicts(t) ==
    /\ stage[t] = "hashing" /\ ask[t].kind = "setup" /\ account # NoAccount
    /\ Answer(t, "refused", NoCookie)
    /\ UNCHANGED <<clock, account, password, sessionVars, failures, serial, ask, saw, read, shell,
                   pageVarsOfTabs>>

\* POST /auth/login up to the comparison.
LoginBegins(t, body) ==
    /\ status[t] = "signIn" /\ body.kind = "login" /\ Asks(t, body)
    /\ failures' = Looked(AddressOf[t])
    /\ IF Limited(AddressOf[t])
       THEN Answer(t, "refused", NoCookie) /\ UNCHANGED <<saw, read>>
       ELSE Enter(t, "verifying") /\ ReadAccount(t)
    /\ UNCHANGED <<clock, account, password, sessionVars, serial, shell, pageVarsOfTabs>>

\* verifyLogin and changePassword's check, against the account as it was read.
Verified(t) ==
    /\ saw[t] # NoAccount /\ saw[t].pass = ask[t].pass
    /\ ask[t].kind = "login" => saw[t].name = ask[t].name

\* The password was wrong, for either.
IsWrong(t) ==
    /\ stage[t] = "verifying" /\ ~Verified(t)
    /\ RecordFailure(AddressOf[t]) /\ Answer(t, "refused", NoCookie)
    /\ UNCHANGED <<clock, account, password, sessionVars, ask, saw, read, shell, pageVarsOfTabs>>

LoginSucceeds(t, c) ==
    /\ stage[t] = "verifying" /\ ask[t].kind = "login" /\ Verified(t)
    /\ ResetFailures(AddressOf[t]) /\ CreateSession(c, read[t]) /\ Answer(t, "in", c)
    /\ UNCHANGED <<clock, account, password, ask, saw, read, shell, pageVarsOfTabs>>

\* POST /auth/password: the hook, before the body is read.
PasswordIsAsked(t, body) ==
    /\ status[t] = "in" /\ body.kind = "password" /\ Asks(t, body)
    /\ Resolve(body.cookie, TRUE)
    /\ IF SignedIn(body.cookie) THEN Enter(t, "admitted") ELSE Answer(t, "refused", NoCookie)
    /\ UNCHANGED <<clock, account, password, failures, serial, saw, read, shell, pageVarsOfTabs>>

\* Its handler, up to the comparison.
PasswordBegins(t) ==
    /\ stage[t] = "admitted" /\ failures' = Looked(AddressOf[t])
    /\ IF Limited(AddressOf[t])
       THEN Answer(t, "refused", NoCookie) /\ UNCHANGED <<saw, read>>
       ELSE Enter(t, "verifying") /\ ReadAccount(t)
    /\ UNCHANGED <<clock, account, password, sessionVars, serial, ask, shell, pageVarsOfTabs>>

PasswordIsRight(t) ==
    /\ stage[t] = "verifying" /\ ask[t].kind = "password" /\ Verified(t)
    /\ Enter(t, "hashing")
    /\ UNCHANGED <<clock, account, password, sessionVars, failures, serial, ask, saw, read, shell,
                   pageVarsOfTabs>>

PasswordChanges(t) ==
    /\ stage[t] = "hashing" /\ ask[t].kind = "password"
    /\ SetPassword(ask[t].next, {ask[t].cookie}) /\ ResetFailures(AddressOf[t])
    /\ Answer(t, "changed", NoCookie)
    /\ UNCHANGED <<clock, ask, saw, read, shell, pageVarsOfTabs>>

StatusOf(c) == IF SignedIn(c) THEN "in" ELSE IF account = NoAccount THEN "setup" ELSE "signIn"

\* POST /auth/logout.
LogsOut(t) ==
    /\ status[t] = "in" /\ stage[t] = "idle"
    /\ sessionRows' = sessionRows \ {CookieOf(t)}
    /\ Answer(t, IF account = NoAccount THEN "setup" ELSE "signIn", NoCookie)
    /\ UNCHANGED <<clock, account, password, expires, lastSeen, issued, proved, late, failures,
                   serial, ask, saw, read, shell, pageVarsOfTabs>>

\* Any other route behind the hook.
Uses(t) ==
    /\ status[t] = "in" /\ Resolve(CookieOf(t), TRUE)
    /\ UNCHANGED <<clock, account, password, failures, serial, requestVars, shell, pageVarsOfTabs>>

--------------------------------------------------------------------------------
(* The shell, the timer and the process.                                        *)

ResetBegins(p) ==
    /\ shell = NoPassword /\ account # NoAccount /\ shell' = p
    /\ UNCHANGED <<clock, account, password, sessionVars, failures, serial, requestVars,
                   pageVarsOfTabs>>

ResetCommits ==
    /\ shell # NoPassword /\ shell' = NoPassword /\ SetPassword(shell, {})
    /\ UNCHANGED <<clock, failures, serial, requestVars, pageVarsOfTabs>>

\* purgeExpiredSessions.
PurgeSessions ==
    /\ sessionRows' = {c \in sessionRows : ~(expires[c] < clock)}
    /\ UNCHANGED <<clock, account, password, expires, lastSeen, issued, proved, late, failures,
                   serial, requestVars, shell, pageVarsOfTabs>>

TimePasses(now) ==
    /\ now >= clock /\ clock' = now
    /\ UNCHANGED <<account, password, sessionVars, failures, serial, requestVars, shell,
                   pageVarsOfTabs>>

\* Requests under way are cut off, and the failures were only in memory.
ServerStartsAgain ==
    /\ stage' = [t \in Tabs |-> IF stage[t] = "answered" THEN "answered" ELSE "idle"]
    /\ failures' = [a \in Addresses |-> {}]
    /\ UNCHANGED <<clock, account, password, sessionVars, serial, ask, saw, read, answer, shell,
                   pageVarsOfTabs>>

--------------------------------------------------------------------------------
(* The tabs.                                                                    *)

\* The status query: as the page opens, after an answer 401, as the socket closes.
FetchesStatus(t) ==
    /\ fetch' = [fetch EXCEPT ![t] = StatusOf(CookieOf(t))]
    /\ Resolve(CookieOf(t), FALSE)
    /\ UNCHANGED <<clock, account, password, failures, serial, requestVars, shell, cookies, status>>

StatusLands(t) ==
    /\ fetch[t] # "none" /\ fetch' = [fetch EXCEPT ![t] = "none"]
    /\ status' = [status EXCEPT ![t] = fetch[t]]
    /\ UNCHANGED <<clock, account, password, sessionVars, failures, serial, requestVars, shell,
                   cookies>>

\* A failed fetch keeps the last known status.
StatusFails(t) ==
    /\ fetch' = [fetch EXCEPT ![t] = "none"]
    /\ status' = [status EXCEPT ![t] = IF status[t] = "loading" THEN "unreachable" ELSE status[t]]
    /\ UNCHANGED <<clock, account, password, sessionVars, failures, serial, requestVars, shell,
                   cookies>>

\* An answer with a status sets or clears the cookie and replaces the status; signing out drops
\* every query, the status on its way too.
AnswerLands(t) ==
    /\ stage[t] = "answered" /\ stage' = [stage EXCEPT ![t] = "idle"]
    /\ LET told == answer[t].says \in Statuses
           said == answer[t].says
       IN /\ status' = IF told THEN [status EXCEPT ![t] = said] ELSE status
          /\ cookies' = IF told THEN [cookies EXCEPT ![BrowserOf[t]] = answer[t].cookie]
                        ELSE cookies
          /\ fetch' = IF told /\ said # "in" THEN [fetch EXCEPT ![t] = "none"] ELSE fetch
    /\ UNCHANGED <<clock, account, password, sessionVars, failures, serial, ask, saw, read, answer,
                   shell>>

AnswerIsLost(t) ==
    /\ stage[t] = "answered" /\ Enter(t, "idle")
    /\ UNCHANGED <<clock, account, password, sessionVars, failures, serial, ask, saw, read, shell,
                   pageVarsOfTabs>>

\* The cookie expires, or the person deletes it.
CookieGoes(b) ==
    /\ cookies' = [cookies EXCEPT ![b] = NoCookie]
    /\ UNCHANGED <<clock, account, password, sessionVars, failures, serial, requestVars, shell,
                   status, fetch>>

--------------------------------------------------------------------------------

AuthNext ==
    \/ \E t \in Tabs, body \in Bodies :
          \/ SetupBegins(t, body) \/ SetupIsElsewhere(t, body) \/ SetupIsLimited(t, body)
          \/ SetupTokenIsWrong(t, body) \/ LoginBegins(t, body) \/ PasswordIsAsked(t, body)
    \/ \E t \in Tabs, c \in Cookies : SetupCreates(t, c) \/ LoginSucceeds(t, c)
    \/ \E t \in Tabs :
          \/ SetupConflicts(t) \/ IsWrong(t) \/ PasswordBegins(t) \/ PasswordIsRight(t)
          \/ PasswordChanges(t) \/ LogsOut(t) \/ Uses(t)
          \/ FetchesStatus(t) \/ StatusLands(t) \/ StatusFails(t)
          \/ AnswerLands(t) \/ AnswerIsLost(t)
    \/ \E p \in Passwords : ResetBegins(p)
    \/ ResetCommits \/ PurgeSessions \/ ServerStartsAgain
    \/ \E now \in Nat : TimePasses(now)
    \/ \E b \in Browsers : CookieGoes(b)

AuthSpec == AuthInit /\ [][AuthNext]_authVars

--------------------------------------------------------------------------------
(* Properties.                                                                  *)

\* Whoever holds a session knew the password as it was last set, or set it: a change and a reset
\* sign every other one out. Except for a sign-in that read the account before and ended after.
SessionsKnowThePassword == \A c \in sessionRows : c \in late \/ proved[c] = password

\* The account is made by someone entitled to, although those checks are skipped while there is one
\* and the insert comes after a wait.
OnlyTheEntitledSetUp ==
    [][account = NoAccount /\ account' # NoAccount =>
          \E t \in Tabs :
             stage[t] = "hashing" /\ ask[t].kind = "setup" /\ Entitled(t, ask[t])]_authVars

\* Wrong passwords counted for one address within the window: the limit is looked at before the
\* wait, so requests that wait together may all be wrong. One at a time, never more than the limit.
WrongGuessesAreFew ==
    \A a \in Addresses : Cardinality(Recent(a)) <= MaxFailures - 1 + Cardinality(Tabs)

\* A session that has ended never works again: neither a renewal nor a new account revives it.
TheDeadStayDead == [][\A c \in issued : ~SignedIn(c) => ~SignedIn(c)']_authVars

\* A session ends because time passes, its browser signs out, or the password is set by someone else
\* than it: the purge ends none, and a change keeps the one that asked for it.
SessionsEndForAReason ==
    [][\A c \in Cookies : SignedIn(c) /\ ~SignedIn(c)' =>
          \/ clock' # clock
          \/ shell # NoPassword /\ shell' = NoPassword
          \/ \E t \in Tabs : stage[t] # "answered" /\ stage'[t] = "answered" /\
                \/ CookieOf(t) = c /\ answer'[t].says = "signIn"
                \/ ask[t].cookie # c /\ answer'[t].says = "changed"]_authVars

\* A page that asks to sign in, or shows the app, has an account behind it, whatever answers were on
\* their way; a page that asks to set one up may have been overtaken.
PagesKnowOfTheAccount ==
    \A t \in Tabs : status[t] \in {"signIn", "in"} => account # NoAccount

================================================================================
