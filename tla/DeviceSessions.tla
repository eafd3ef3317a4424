---------------------------- MODULE DeviceSessions -----------------------------
(***************************************************************************)
(* Which console the server takes a request for: pairing codes, tokens     *)
(* and revocation (device/service.ts, auth hook of api/device-routes.ts),  *)
(* the session each USB link keeps (usb/handler.ts, usb-host's host.ts),   *)
(* and the token each console keeps (app/session.cpp).  A console sends    *)
(* one request at a time, over USB or the network; an answer can be lost,  *)
(* and a request the console has given up can still be handled.  The jobs  *)
(* themselves are in DeviceApi: here a console has one over a carrier or   *)
(* not.                                                                    *)
(***************************************************************************)
EXTENDS Integers, Sequences

CONSTANTS
    Consoles,   \* device uuids; the row of a console keeps its id
    Links,      \* USB links, each from an attach to its end
    OverNetwork, \* the carrier that is no link
    Plugged,    \* Plugged[l]: the console at the other end of l
    MaxTries,   \* PAIR_MAX_ATTEMPTS
    None

VARIABLES
    owner,      \* the tokens made so far, in order: which console each was made for
    rows,       \* devices: the token a console is known by (0: no row), whether it is revoked
    code,       \* the pairing code: wrong tries so far and whether it is still fresh, or None
    usbPairing, \* requireUsbPairing
    session,    \* of a link: whether it is up, and DeviceUsbHandler's #device and #token
    open,       \* consoles with a network request past the auth hook
    active,     \* <<console, carrier>>: it has a job claimed or running, claimed over that carrier
    held,       \* the token a console has saved, 0 for none
    answer,     \* the token in the answer on its way to a console, 0 for none
    gaveUp      \* history: consoles that have given up an answer

sessionVars == <<owner, rows, code, usbPairing, session, open, active, held, answer, gaveUp>>

Tokens == 1..Len(owner)
Carriers == Links \cup {OverNetwork}
Gone == [up |-> FALSE, dev |-> None, token |-> 0]

SessionsTypeOK ==
    /\ owner \in Seq(Consoles)
    /\ rows \in [Consoles -> [token : Tokens \cup {0}, revoked : BOOLEAN]]
    /\ code = None \/ code \in [tries : Nat, fresh : BOOLEAN]
    /\ usbPairing \in BOOLEAN
    /\ session \in [Links -> [up : BOOLEAN, dev : Consoles \cup {None}, token : Tokens \cup {0}]]
    /\ open \subseteq Consoles
    /\ active \subseteq Consoles \X Carriers
    /\ held \in [Consoles -> Tokens \cup {0}]
    /\ answer \in [Consoles -> Tokens \cup {0}]
    /\ gaveUp \subseteq Consoles

SessionsInit ==
    /\ owner = <<>> /\ rows = [c \in Consoles |-> [token |-> 0, revoked |-> FALSE]]
    /\ code = None /\ usbPairing = FALSE
    /\ session = [l \in Links |-> Gone] /\ open = {} /\ active = {}
    /\ held = [c \in Consoles |-> 0] /\ answer = [c \in Consoles |-> 0] /\ gaveUp = {}

--------------------------------------------------------------------------------
(* The server.                                                                  *)

\* resolveToken and requireActive: the console this token is for.
Accepts(t, c) == t # 0 /\ rows[c].token = t /\ ~rows[c].revoked

\* A new token replaces the console's and puts the console back in.  The answer goes to a console
\* that waits for it.
Issue(c) ==
    /\ owner' = Append(owner, c)
    /\ rows' = [rows EXCEPT ![c] = [token |-> Len(owner) + 1, revoked |-> FALSE]]
    /\ answer' \in {answer, [answer EXCEPT ![c] = Len(owner) + 1]}
    /\ answer' = answer => c \in gaveUp

\* The handler of link l keeps the console and the token.
Serves(l, c, t) == session' = [session EXCEPT ![l] = [up |-> TRUE, dev |-> c, token |-> t]]

\* createPairingCode replaces the last one.
CreateCode ==
    /\ code' = [tries |-> 0, fresh |-> TRUE]
    /\ UNCHANGED <<owner, rows, usbPairing, session, open, active, held, answer, gaveUp>>

CodeExpires ==
    /\ code # None /\ code' = [code EXCEPT !.fresh = FALSE]
    /\ UNCHANGED <<owner, rows, usbPairing, session, open, active, held, answer, gaveUp>>

\* pair refuses: an expired code is deleted, a wrong guess counted, until there were too many.
PairRefused ==
    /\ code # None
    /\ code' = IF ~code.fresh THEN None
               ELSE IF code.tries >= MaxTries THEN code
               ELSE [code EXCEPT !.tries = @ + 1]
    /\ UNCHANGED <<owner, rows, usbPairing, session, open, active, held, answer, gaveUp>>

\* A console waits for an answer, or gave one up whose request is handled only now.
Asks(c) == answer[c] = 0 \/ c \in gaveUp

\* pair accepts, over the network or a link.
Pair(c, via) ==
    /\ Asks(c)
    /\ code # None /\ code.fresh /\ code.tries < MaxTries
    /\ code' = None
    /\ Issue(c)
    /\ IF via = OverNetwork THEN UNCHANGED session
       ELSE session[via].up /\ Plugged[via] = c /\ Serves(via, c, Len(owner) + 1)
    /\ UNCHANGED <<usbPairing, open, active, held, gaveUp>>

\* The token of a request over link l: the console's, or the one the link had last.
Presented(l) == IF held[Plugged[l]] # 0 THEN held[Plugged[l]] ELSE session[l].token

\* usbHello with a token: the console it is for, which keeps it.
HelloKnown(l, c) ==
    /\ session[l].up /\ Asks(Plugged[l])
    /\ Accepts(Presented(l), c)
    /\ Serves(l, c, Presented(l))
    /\ answer' \in {answer, [answer EXCEPT ![Plugged[l]] = Presented(l)]}
    /\ answer' = answer => Plugged[l] \in gaveUp
    /\ UNCHANGED <<owner, rows, code, usbPairing, open, active, held, gaveUp>>

\* usbHello without one: the console is trusted, unless people asked for pairing.
HelloNew(l) ==
    /\ session[l].up /\ Asks(Plugged[l])
    /\ Presented(l) = 0 /\ ~usbPairing
    /\ Issue(Plugged[l])
    /\ Serves(l, Plugged[l], Len(owner) + 1)
    /\ UNCHANGED <<code, usbPairing, open, active, held, gaveUp>>

\* Any other request over a link: it may claim a job, or finish the console's.
UsbRequest(l, c) ==
    /\ session[l].up /\ Asks(Plugged[l])
    /\ Accepts(Presented(l), c)
    /\ Serves(l, c, Presented(l))
    /\ \/ active' = active \cup {<<c, l>>}
       \/ active' \in {active, active \ ({c} \X Carriers)}
    /\ UNCHANGED <<owner, rows, code, usbPairing, open, held, answer, gaveUp>>

\* The auth hook of the network's routes, before the request's body is read.
Authenticate(c, sender) ==
    /\ Asks(sender) /\ Accepts(held[sender], c)
    /\ open' = open \cup {c}
    /\ UNCHANGED <<owner, rows, code, usbPairing, session, active, held, answer, gaveUp>>

\* A handler behind the hook, which does not ask again who the console is.
NetworkRequest(c) ==
    /\ c \in open
    /\ \/ active' = active \cup {<<c, OverNetwork>>}
       \/ active' \in {active, active \ ({c} \X Carriers)}
    /\ open' = open \ {c}
    /\ UNCHANGED <<owner, rows, code, usbPairing, session, held, answer, gaveUp>>

Attach(l) ==
    /\ ~session[l].up
    /\ session' = [session EXCEPT ![l] = [up |-> TRUE, dev |-> None, token |-> 0]]
    /\ UNCHANGED <<owner, rows, code, usbPairing, open, active, held, answer, gaveUp>>

\* The link ends, and onDetach interrupts what its console was doing, over whatever carrier.
Detach(l) ==
    /\ session[l].up
    /\ active' = active \ ({session[l].dev} \X Carriers)
    /\ session' = [session EXCEPT ![l] = Gone]
    /\ UNCHANGED <<owner, rows, code, usbPairing, open, held, answer, gaveUp>>

Revoke(c) ==
    /\ rows[c].token # 0 /\ ~rows[c].revoked
    /\ rows' = [rows EXCEPT ![c].revoked = TRUE]
    /\ active' = active \ ({c} \X Carriers)
    /\ UNCHANGED <<owner, code, usbPairing, session, open, held, answer, gaveUp>>

RequireUsbPairing ==
    /\ usbPairing' = ~usbPairing
    /\ UNCHANGED <<owner, rows, code, session, open, active, held, answer, gaveUp>>

--------------------------------------------------------------------------------
(* The console.                                                                 *)

\* pair or usbHello returns, and the token is saved.
TakeToken(c) ==
    /\ answer[c] # 0
    /\ held' = [held EXCEPT ![c] = answer[c]] /\ answer' = [answer EXCEPT ![c] = 0]
    /\ UNCHANGED <<owner, rows, code, usbPairing, session, open, active, gaveUp>>

\* The console gives up: the answer is lost, or the request not handled yet.
GiveUp(c) ==
    /\ answer' = [answer EXCEPT ![c] = 0] /\ gaveUp' = gaveUp \cup {c}
    /\ UNCHANGED <<owner, rows, code, usbPairing, session, open, active, held>>

\* forgetDevice: after a request was refused, from the settings, or for another server.
Forget(c) ==
    /\ answer[c] = 0
    /\ held' = [held EXCEPT ![c] = 0]
    /\ UNCHANGED <<owner, rows, code, usbPairing, session, open, active, answer, gaveUp>>

SessionsNext ==
    \/ CreateCode \/ CodeExpires \/ PairRefused \/ RequireUsbPairing
    \/ \E c \in Consoles :
        \/ \E via \in Carriers : Pair(c, via)
        \/ \E l \in Links : HelloKnown(l, c) \/ UsbRequest(l, c)
        \/ \E sender \in Consoles : Authenticate(c, sender)
        \/ NetworkRequest(c) \/ Revoke(c) \/ TakeToken(c) \/ GiveUp(c) \/ Forget(c)
    \/ \E l \in Links : HelloNew(l) \/ Attach(l) \/ Detach(l)

SessionsSpec == SessionsInit /\ [][SessionsNext]_sessionVars

--------------------------------------------------------------------------------
(* Properties.                                                                  *)

\* The server takes every console for itself: no token, saved, cached by a link or on its way,
\* leads it to the row of another, whatever was paired, revoked, forgotten or replaced in between.
NobodyIsTakenForAnother ==
    /\ \A c, d \in Consoles : Accepts(held[d], c) => c = d
    /\ \A l \in Links : session[l].dev \in {None, Plugged[l]}
    /\ \A l \in Links, c \in Consoles : Accepts(session[l].token, c) => c = Plugged[l]

\* A console with a token is let in until it is revoked, however often it pairs: only an answer it
\* gave up waiting for can leave it with a token that was replaced.
OnlyALostAnswerShutsOut ==
    \A c \in Consoles :
        held[c] # 0 /\ answer[c] = 0 /\ c \notin gaveUp => rows[c].token = held[c]

\* A revoked console has no job that it claimed over USB: every request over a link is taken for
\* a console that is not revoked at that moment.  (Behind the network's hook it can have one.)
RevokedHasNoUsbJob ==
    \A c \in Consoles, l \in Links : rows[c].revoked => <<c, l>> \notin active

\* A link that ends interrupts jobs of the console that was plugged in, and of no other.
EndsOnlyItsOwn ==
    \A l \in Links : Detach(l) => \A j \in active : j[1] # Plugged[l] => j \in active'

================================================================================
