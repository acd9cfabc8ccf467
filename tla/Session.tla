---- MODULE Session ----
(***************************************************************************)
(* Who is logged in: the token and the user in the local storage of a      *)
(* browser (AuthContext.tsx), the copy of the user that each tab keeps,    *)
(* the guards of the routes (App.tsx), and the accounts of the server,     *)
(* whose handlers load the user of a token and use what they loaded later  *)
(* (middleware.go, handler_auth.go, handler_user.go).  A user is shown by  *)
(* id and role; the rest of a profile is in ProfileForm.                   *)
(***************************************************************************)
EXTENDS ClientValues

CONSTANTS
    Windows,        \* tabs
    Browsers,
    Homes,          \* the ways in which the tabs are distributed over the browsers
    Accounts,
    Seeded,         \* the administrator that the seed makes
    MaxActs         \* bound: what users do that sends a request or ends a session

Roles == {"user", "admin"}
Users == [id : Accounts, role : Roles]

ASSUME SessionAssumption ==
    /\ Homes \subseteq [Windows -> Browsers] /\ Seeded \in Accounts
    /\ None \notin Accounts \cup Windows \cup Roles \cup Users /\ MaxActs \in Nat

VARIABLES
    account,        \* server: account -> role, None before it is registered
    browserOf,      \* tab -> its browser
    token,          \* browser -> account of the token in local storage, or None
    storedUser,     \* browser -> user in local storage, or None
    user,           \* tab -> user of the context, or None
    route,          \* tab -> page
    calls,          \* requests under way
    acts,
    estranged,      \* history: tabs of a browser where another tab logged in or out
    leaked,         \* history: browsers that stored a user that is not their token's
    raced           \* history: a role was changed by somebody whose own had been taken

sessionVars == <<account, browserOf, token, storedUser, user, route, calls, acts,
                 estranged, leaked, raced>>
storeVars == <<browserOf, token, storedUser, user, route, estranged, leaked>>

Routes == {"problems", "login", "profile", "users"}
Calls == [tab : Windows \cup {None}, kind : {"login", "register", "me", "role"}, as : Accounts,
          step : {"sent", "read", "done"}, user : Users \cup {None},
          change : Users \cup {None}]

SessionTypeOK ==
    /\ account \in [Accounts -> Roles \cup {None}]
    /\ browserOf \in [Windows -> Browsers]
    /\ token \in [Browsers -> Accounts \cup {None}]
    /\ storedUser \in [Browsers -> Users \cup {None}]
    /\ user \in [Windows -> Users \cup {None}]
    /\ route \in [Windows -> Routes]
    /\ calls \subseteq Calls
    /\ acts \in 0 .. MaxActs
    /\ estranged \subseteq Windows /\ leaked \subseteq Browsers /\ raced \in BOOLEAN

RecordOf(a) == IF a = None THEN None ELSE [id |-> a, role |-> account[a]]

\* Some browsers know a session of before.
SessionInit ==
    /\ account \in [Accounts -> Roles \cup {None}] /\ account[Seeded] = "admin"
    /\ browserOf \in Homes
    /\ token \in [Browsers -> {a \in Accounts : account[a] # None} \cup {None}]
    /\ \A b \in Browsers : token[b] # None => \E t \in Windows : browserOf[t] = b
    /\ storedUser = [b \in Browsers |-> RecordOf(token[b])]
    /\ user = [t \in Windows |-> storedUser[browserOf[t]]]
    /\ route = [t \in Windows |-> "problems"]
    /\ calls = {} /\ acts = 0
    /\ estranged = {} /\ leaked = {} /\ raced = FALSE

Act == acts < MaxActs /\ acts' = acts + 1

\* RequireAuth and RequireAdmin: where a tab ends up that asks for a page.
Guarded(r, u) ==
    IF r \in {"profile", "users"} /\ u = None THEN "login"
    ELSE IF r = "users" /\ u.role # "admin" THEN "problems"
    ELSE r

Others(t) == {w \in Windows \ {t} : browserOf[w] = browserOf[t]}

\* request: with the token of local storage at this moment.
NewCall(t, kind, change) ==
    [tab |-> t, kind |-> kind, as |-> token[browserOf[t]], step |-> "sent", user |-> None,
     change |-> change]

\* Wrong variant: a request is sent in the name of a user whose token is gone.
CallWithoutToken(t, kind, change) == calls' = calls \cup {NewCall(t, kind, change)}
\* Without a token the server answers 401, which is not modelled as a request.
Call(t, kind, change) ==
    /\ token[browserOf[t]] # None
    /\ calls' = calls \cup {NewCall(t, kind, change)}

-----------------------------------------------------------------------------
(* The tabs.                                                               *)

\* The page of the profile asks for it when it is mounted.
Mount(t, r) ==
    IF r = "profile" /\ token[browserOf[t]] # None THEN Act /\ Call(t, "me", None)
    ELSE UNCHANGED <<calls, acts>>

\* A link of the header, or the address bar's history.
Visit(t, r) ==
    /\ Guarded(r, user[t]) # route[t]
    /\ route' = [route EXCEPT ![t] = Guarded(r, user[t])]
    /\ Mount(t, Guarded(r, user[t]))
    /\ UNCHANGED <<account, browserOf, token, storedUser, user, estranged, leaked, raced>>

\* A tab is loaded again: what it asked for before has nobody to answer to.
Reload(t) ==
    LET b == browserOf[t]
        r == Guarded(route[t], storedUser[b])
        orphans == {IF c.tab = t THEN [c EXCEPT !.tab = None] ELSE c : c \in calls}
        mine == IF r = "profile" /\ token[b] # None THEN {NewCall(t, "me", None)} ELSE {} IN
    /\ Act
    /\ user' = [user EXCEPT ![t] = storedUser[b]]
    /\ route' = [route EXCEPT ![t] = r]
    /\ calls' = orphans \cup mine
    /\ estranged' = IF b \in leaked THEN estranged \cup {t} ELSE estranged \ {t}
    /\ UNCHANGED <<account, browserOf, token, storedUser, leaked, raced>>

LoginOrRegister(t, kind, a) ==
    /\ route[t] = "login" /\ Act
    /\ calls' = calls \cup {[tab |-> t, kind |-> kind, as |-> a, step |-> "sent",
                             user |-> None, change |-> None]}
    /\ UNCHANGED <<account, storeVars, raced>>
Login(t, a) == LoginOrRegister(t, "login", a)
Register(t, a) == LoginOrRegister(t, "register", a)

\* Wrong variant: the token stays.
LogoutKeepingToken(t) ==
    /\ user[t] # None /\ Act
    /\ storedUser' = [storedUser EXCEPT ![browserOf[t]] = None]
    /\ user' = [user EXCEPT ![t] = None]
    /\ route' = [route EXCEPT ![t] = "problems"]
    /\ estranged' = (estranged \ {t}) \cup Others(t)
    /\ leaked' = leaked \ {browserOf[t]}
    /\ UNCHANGED <<account, browserOf, token, calls, raced>>
Logout(t) ==
    /\ user[t] # None /\ Act
    /\ token' = [token EXCEPT ![browserOf[t]] = None]
    /\ storedUser' = [storedUser EXCEPT ![browserOf[t]] = None]
    /\ user' = [user EXCEPT ![t] = None]
    /\ route' = [route EXCEPT ![t] = "problems"]
    /\ estranged' = (estranged \ {t}) \cup Others(t)
    /\ leaked' = leaked \ {browserOf[t]}
    /\ UNCHANGED <<account, browserOf, calls, raced>>

\* Saving the nickname or an image: the answer has the user, like that of the profile.
SaveProfile(t) ==
    /\ route[t] = "profile" /\ Act
    /\ Call(t, "me", None)
    /\ UNCHANGED <<account, storeVars, raced>>

UpdateRoleOf(t, a, r) ==
    /\ route[t] = "users" /\ account[a] \notin {None, r} /\ Act
    /\ Call(t, "role", [id |-> a, role |-> r])
    /\ UNCHANGED <<account, storeVars, raced>>

\* persistAuth, and the page goes to the problems, wherever the tab is by then.
LoginAnswers(c) ==
    LET b == browserOf[c.tab] IN
    /\ token' = [token EXCEPT ![b] = c.as]
    /\ storedUser' = [storedUser EXCEPT ![b] = c.user]
    /\ user' = [user EXCEPT ![c.tab] = c.user]
    /\ route' = [route EXCEPT ![c.tab] = "problems"]
    /\ estranged' = (estranged \ {c.tab}) \cup Others(c.tab)
    /\ leaked' = leaked \ {b}
    /\ UNCHANGED browserOf

\* updateUser, whether or not somebody is still logged in.
MeAnswers(c) ==
    LET b == browserOf[c.tab] IN
    /\ storedUser' = [storedUser EXCEPT ![b] = c.user]
    /\ user' = [user EXCEPT ![c.tab] = c.user]
    /\ route' = [route EXCEPT ![c.tab] = Guarded(@, c.user)]
    /\ IF c.as = token[b]
       THEN leaked' = leaked \ {b} /\ estranged' = estranged \ {c.tab}
       ELSE leaked' = leaked \cup {b} /\ estranged' = estranged \cup {c.tab}
    /\ UNCHANGED <<browserOf, token>>

CallReturns(c) ==
    /\ c.step = "done"
    /\ calls' = calls \ {c}
    /\ \/ c.tab # None /\ c.kind \in {"login", "register"} /\ LoginAnswers(c)
       \/ c.tab # None /\ c.kind = "me" /\ MeAnswers(c)
       \/ (c.tab = None \/ c.kind = "role") /\ UNCHANGED storeVars
    /\ UNCHANGED <<account, acts, raced>>

\* An error of the network or of the server, an expired token: the page tells it.
CallFails(c) ==
    /\ calls' = calls \ {c}
    /\ UNCHANGED <<account, storeVars, acts, raced>>

-----------------------------------------------------------------------------
(* The server.                                                             *)

Become(c, new) == calls' = (calls \ {c}) \cup {new}

ServeLogin(c) ==
    /\ c.kind = "login" /\ c.step = "sent" /\ account[c.as] # None
    /\ Become(c, [c EXCEPT !.step = "done", !.user = RecordOf(c.as)])
    /\ UNCHANGED <<account, raced>>

ServeRegister(c) ==
    /\ c.kind = "register" /\ c.step = "sent" /\ account[c.as] = None
    /\ account' = [account EXCEPT ![c.as] = "user"]
    /\ Become(c, [c EXCEPT !.step = "done", !.user = [id |-> c.as, role |-> "user"]])
    /\ UNCHANGED raced

\* userFromAuthorization, and adminRequired for the routes of administrators.
LoadUser(c) ==
    /\ c.kind \in {"me", "role"} /\ c.step = "sent"
    /\ c.kind = "role" => account[c.as] = "admin"
    /\ Become(c, [c EXCEPT !.step = IF c.kind = "me" THEN "done" ELSE "read",
                           !.user = RecordOf(c.as)])
    /\ UNCHANGED <<account, raced>>

\* Wrong variant: an administrator may take their own role away.
WriteAnyRole(c) ==
    /\ c.kind = "role" /\ c.step = "read"
    /\ account' = [account EXCEPT ![c.change.id] = c.change.role]
    /\ raced' = (raced \/ account[c.as] # "admin")
    /\ Become(c, [c EXCEPT !.step = "done"])
\* adminUpdateUserRole, with the user that was loaded before.
WriteRole(c) ==
    /\ c.kind = "role" /\ c.step = "read"
    /\ ~(c.change.id = c.user.id /\ c.change.role # "admin")
    /\ account' = [account EXCEPT ![c.change.id] = c.change.role]
    /\ raced' = (raced \/ account[c.as] # "admin")
    /\ Become(c, [c EXCEPT !.step = "done"])

ServeCall(c) ==
    /\ ServeLogin(c) \/ ServeRegister(c) \/ LoadUser(c) \/ WriteRole(c)
    /\ UNCHANGED <<storeVars, acts>>

-----------------------------------------------------------------------------
SessionNext ==
    \/ \E t \in Windows :
           \/ Reload(t) \/ Logout(t) \/ SaveProfile(t)
           \/ \E r \in Routes : Visit(t, r)
           \/ \E a \in Accounts :
                  \/ Login(t, a) \/ Register(t, a)
                  \/ \E r \in Roles : UpdateRoleOf(t, a, r)
    \/ \E c \in calls : ServeCall(c) \/ CallReturns(c) \/ CallFails(c)

SessionSpec == SessionInit /\ [][SessionNext]_sessionVars

-----------------------------------------------------------------------------
ShowsAccount(u, a) == IF a = None THEN u = None ELSE u # None /\ u.id = a

(* A tab shows the user in whose name its requests are sent, and the next    *)
(* tab will as well, unless another tab of the browser logged in or out      *)
(* since, or an answer to the profile page came after the end of the session *)
(* it belongs to and brought its user back (AuthContext.tsx:34).             *)
ScreenIsTheTokens ==
    \A t \in Windows : browserOf[t] \notin leaked =>
        /\ ShowsAccount(storedUser[browserOf[t]], token[browserOf[t]])
        /\ t \notin estranged => ShowsAccount(user[t], token[browserOf[t]])

(* Administrators cannot lock everybody out of the administration: the last  *)
(* one cannot lose the role, unless two of them take each other's between    *)
(* the check of adminRequired and the update (handler_user.go:111).          *)
AnAdminRemains == (\E a \in Accounts : account[a] = "admin") \/ raced
====
