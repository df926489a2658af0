------------------------------ MODULE AuthGate ------------------------------
(***************************************************************************)
(* Signing in: useAuth.ts and lib/auth.ts of src/frontend/src in one page, *)
(* against SessionBook of src/backend/src/auth.ts and the auth routes of   *)
(* index.ts, with a password set.  Tokens live in the memory of the        *)
(* process and in localStorage, which other tabs share.                    *)
(*                                                                         *)
(* The answer of a request is made at the server in one step and reaches   *)
(* the page in another.  A token is the number of the login that issued    *)
(* it; the digest it is issued for is always the right one.                *)
(***************************************************************************)
EXTENDS Naturals

CONSTANTS
    MaxTokens,     \* bound: tokens issued
    MaxCalls       \* bound: requests of the page after it has opened

VARIABLE s

Token == 1..MaxTokens
None == 0
Call == [token : Token \cup {None}, answer : {"none", "ok", "unauthorized"}]

Page ==
    [book    : SUBSET Token,            \* sessions of the backend process
     expired : SUBSET Token,            \* by the clock, which all share
     issued  : 0..MaxTokens,
     stored  : Token \cup {None},       \* localStorage
     removal : BOOLEAN,                 \* a storage event of another tab is on its way
     status  : {"loading", "login", "ready"},
     config  : BOOLEAN,                 \* the auth config has been fetched
     unreachable : BOOLEAN,             \* the fetch of it, or of the session, failed
     session : Token \cup {None},
     init    : {"config", "session", "done"},
     asked   : Call,                    \* the request of init
     login   : BOOLEAN,                 \* signIn() awaits its answer,
     granted : Token \cup {None},       \* and this is the token in it
     logout  : Token \cup {None},       \* signOut() awaits its answer
     catalog : BOOLEAN,                 \* the bench has asked for the catalog
     calls   : SUBSET Call,
     made    : 0..MaxCalls]

TypeOK == s \in Page

\* A page is opened with a token from before, or without.
Init ==
    \E t \in {None, 1} :
        s = [book |-> {t} \ {None}, expired |-> {}, issued |-> t, stored |-> t,
             removal |-> FALSE, status |-> "loading", config |-> FALSE,
             unreachable |-> FALSE, session |-> t, init |-> "config",
             asked |-> [token |-> None, answer |-> "none"], login |-> FALSE,
             granted |-> None, logout |-> None, catalog |-> FALSE, calls |-> {}, made |-> 0]

-----------------------------------------------------------------------------
(* Operators from a page to the next                                         *)

\* readSession(), which drops what has expired
Read(x) == IF x.stored \in x.expired THEN None ELSE x.stored
Drop(x) == [x EXCEPT !.stored = Read(x)]
Clear(x) == [x EXCEPT !.stored = None]

\* The bench is shown; if it was not, it will ask for the catalog.
Bench(x) == [x EXCEPT !.status = "ready", !.catalog = @ /\ x.status = "ready"]

SignedOut(x) == [x EXCEPT !.session = None, !.status = "login"]

Kick(x) ==
    [Clear(x) EXCEPT !.session = None, !.status = IF @ = "loading" THEN @ ELSE "login"]

Sent(t) == [token |-> t, answer |-> "none"]

\* sessions.get()
Verdict(x, t) == IF t \in x.book THEN "ok" ELSE "unauthorized"

-----------------------------------------------------------------------------
(* The page opens                                                            *)

\* Without a token there is nothing to ask.
ConfigArrives ==
    /\ s.init = "config"
    /\ LET y == [Drop(s) EXCEPT !.config = TRUE]
       IN  s' = IF y.stored = None THEN SignedOut([y EXCEPT !.init = "done"])
                ELSE [y EXCEPT !.init = "session", !.asked = Sent(y.stored)]

\* A gate that cannot be reached cannot be required.
Unreachable ==
    /\ s.init # "done"
    /\ s' = Bench([s EXCEPT !.init = "done", !.unreachable = TRUE])

SessionHandled ==
    /\ s.init = "session"
    /\ s.asked.answer = "none"
    /\ s' = [s EXCEPT !.asked.answer = Verdict(s, s.asked.token)]

SessionArrives ==
    /\ s.init = "session"
    /\ s.asked.answer # "none"
    /\ LET y == [s EXCEPT !.init = "done"]
       IN  s' = IF s.asked.answer = "ok"
                THEN Bench([y EXCEPT !.session = s.asked.token])
                ELSE SignedOut(Clear(y))

-----------------------------------------------------------------------------
(* The bench                                                                 *)

\* authFetch()
Request(x) == [Drop(x) EXCEPT !.calls = @ \cup {Sent(Read(x))}]

\* The bench asks for the catalog as it mounts, and for other things later.
CatalogAsked ==
    /\ s.status = "ready"
    /\ ~s.catalog
    /\ s' = Request([s EXCEPT !.catalog = TRUE])

Asks ==
    /\ s.status = "ready"
    /\ s.made < MaxCalls
    /\ s' = Request([s EXCEPT !.made = @ + 1])

CallHandled(c) ==
    /\ c \in s.calls
    /\ c.answer = "none"
    /\ s' = [s EXCEPT !.calls = (@ \ {c}) \cup {[c EXCEPT !.answer = Verdict(s, c.token)]}]

\* A 401 is a kick-out, whichever token it was for.
CallArrives(c) ==
    /\ c \in s.calls
    /\ c.answer # "none"
    /\ LET y == [s EXCEPT !.calls = @ \ {c}]
       IN  s' = IF c.answer = "ok" THEN y ELSE Kick(y)

-----------------------------------------------------------------------------
(* In and out                                                                *)

\* Without the config, signIn() throws.
SignIn ==
    /\ s.status = "login"
    /\ s.config
    /\ ~s.login
    /\ s.issued < MaxTokens
    /\ s' = [s EXCEPT !.login = TRUE, !.granted = None]

LoginHandled ==
    /\ s.login
    /\ s.granted = None
    /\ s.issued < MaxTokens
    /\ LET t == s.issued + 1
       IN  s' = [s EXCEPT !.issued = t, !.book = @ \cup {t}, !.granted = t]

LoginArrives ==
    /\ s.login
    /\ s.granted # None
    /\ s' = Bench([s EXCEPT !.login = FALSE, !.stored = s.granted,
                            !.session = s.granted, !.granted = None])

\* The token is taken out of the storage before the server is told.
SignOut ==
    /\ s.status = "ready"
    /\ s.config
    /\ s.logout = None
    /\ s' = IF Read(s) = None THEN SignedOut(Clear(s))
            ELSE [Clear(s) EXCEPT !.logout = s.stored]

\* The answer is not looked at.
LogoutArrives ==
    /\ s.logout # None
    /\ \E told \in BOOLEAN :
         s' = SignedOut([s EXCEPT !.logout = None,
                                  !.book = IF told THEN @ \ {s.logout} ELSE @])

-----------------------------------------------------------------------------
(* The clock, the process, other tabs                                        *)

\* Tokens live equally long.  get() deletes what has expired, so it might as well
\* be gone from the book.
Expires(t) ==
    /\ t \in (1..s.issued) \ s.expired
    /\ 1..(t - 1) \subseteq s.expired
    /\ s' = [s EXCEPT !.expired = @ \cup {t}, !.book = @ \ {t}]

ExpiryTimer ==
    /\ s.session \in s.expired
    /\ s' = SignedOut(Clear(s))

Restart == s.book # {} /\ s' = [s EXCEPT !.book = {}]

OtherTabOut ==
    /\ s.stored # None
    /\ s' = [Clear(s) EXCEPT !.removal = TRUE, !.book = @ \ {s.stored}]

OtherTabIn ==
    /\ s.stored = None
    /\ s.issued < MaxTokens
    /\ LET t == s.issued + 1
       IN  s' = [s EXCEPT !.issued = t, !.book = @ \cup {t}, !.stored = t]

StorageEvent == s.removal /\ s' = Kick([s EXCEPT !.removal = FALSE])

-----------------------------------------------------------------------------
\* What is asked for is answered, and timers and events come.
Timers ==
    \/ ConfigArrives \/ SessionHandled \/ SessionArrives
    \/ CatalogAsked \/ \E c \in s.calls : CallHandled(c) \/ CallArrives(c)
    \/ LoginArrives \/ LogoutArrives \/ ExpiryTimer \/ StorageEvent

Next ==
    \/ Timers \/ Unreachable \/ Asks
    \/ SignIn \/ LoginHandled \/ SignOut
    \/ \E t \in Token : Expires(t)
    \/ Restart \/ OtherTabOut \/ OtherTabIn

Spec == Init /\ [][Next]_s
FairSpec == Spec /\ WF_s(Timers)

-----------------------------------------------------------------------------
(* Properties                                                                *)

\* A page whose token expired, or is gone from the storage, does not stay open on
\* it, and a login page whose config can be fetched becomes one that can log in.
Owes ==
    \/ s.session \in s.expired
    \/ s.status = "ready" /\ s.config /\ s.stored = None
    \/ s.status = "login" /\ ~s.config /\ ~s.unreachable
GateSettles == Owes ~> ~Owes
=============================================================================
