-------------------------------- MODULE Access --------------------------------
(***************************************************************************)
(* How the Cloud lets operators and Event Edges in.  An operator proves a  *)
(* password and a code from an e-mail to the identity provider and gets a  *)
(* session; every later request is admitted by the guards, authenticated,  *)
(* projected on an organisation and served, with administrators' commands  *)
(* and other requests committing between any two of those steps.  An Edge  *)
(* presents its credential with every request.  Each step is one statement *)
(* or transaction of the database, one call of the provider, or one turn   *)
(* of the event loop; the tabs of a browser share its cookies.             *)
(***************************************************************************)
EXTENDS Integers, FiniteSets, FiniteSetsExt

CONSTANTS
    Operators, Organisations, Roles,
    Challenges, Sessions,   \* identifiers a login may draw
    Tabs, Tools, Edges,     \* the callers: browser tabs, bearer clients, Edges
    NoSession, NoChallenge, NoOperator, NoOrganisation,
    Policies, MaxInFlight,  \* policy -> requests that may be under way
    MaxAccounts,            \* accounts an e-mail address has had at the provider
    MaxVersion,             \* versions of an Edge's credential
    MaxUnderWay,            \* requests under way at once
    MaxEvents               \* requests sent, and commands, expiries, minutes and
                            \* replaced accounts around them

ASSUME AccessAssumptions ==
    /\ Policies = {"LOGIN", "READ", "MUTATION", "PUBLIC", "EDGE"}
    /\ "ADMIN" \in Roles /\ "NONE" \notin Roles
    /\ MaxInFlight \in [Policies -> Nat \ {0}]
    /\ {MaxAccounts, MaxVersion, MaxUnderWay, MaxEvents} \subseteq Nat \ {0}
    /\ IsFiniteSet(Tabs \cup Tools \cup Edges)

Callers == Tabs \cup Tools \cup Edges
LoginKinds == {"begin", "resend", "verify"}
OperatorKinds == {"check", "change", "event", "logout"}
NoUser == 0

VARIABLES
    identity,   \* operator -> its row: status and the provider's user bound to it
    role,       \* operator -> organisation -> active membership, or "NONE"
    account,    \* operator -> the user its e-mail address is at the provider
    code,       \* operator -> a code is outstanding at the provider
    challenge, session, edge,
    command,    \* administrators' commands that have checked and not yet written
    jar,        \* the browser's cookies
    page,       \* tab -> the page it shows
    request,    \* caller -> the request it waits for
    inFlight,   \* policy -> the guards' counter
    events      \* bound: requests and changes so far

rows == <<identity, role, challenge, session, edge>>
provider == <<account, code>>
browser == <<jar, page>>
vars == <<rows, provider, command, browser, request, inFlight, events>>

Idle == [at |-> "idle", kind |-> "none", session |-> NoSession, version |-> 0, seen |-> 0,
         challenge |-> NoChallenge, user |-> NoUser, actor |-> NoOperator,
         org |-> NoOrganisation, target |-> NoOrganisation, role |-> "NONE",
         ok |-> FALSE, barred |-> FALSE, held |-> FALSE]

Init ==
    /\ identity = [o \in Operators |-> [status |-> "NONE", user |-> NoUser]]
    /\ role = [o \in Operators |-> [g \in Organisations |-> "NONE"]]
    /\ account = [o \in Operators |-> 1]
    /\ code = [o \in Operators |-> FALSE]
    /\ challenge = [c \in Challenges |->
          [state |-> "NONE", actor |-> NoOperator, user |-> NoUser, waited |-> FALSE]]
    /\ session = [s \in Sessions |->
          [state |-> "NONE", actor |-> NoOperator, user |-> NoUser, by |-> NoChallenge]]
    /\ edge = [e \in Edges |-> [state |-> "NONE", version |-> 0]]
    /\ command = {}
    /\ jar = [login |-> NoChallenge, session |-> NoSession]
    /\ page = [t \in Tabs |-> "credentials"]
    /\ request = [c \in Callers |-> Idle]
    /\ inFlight = [p \in Policies |-> 0]
    /\ events = 0

-----------------------------------------------------------------------------
(* The guards: counters, credentials, roles *)

Policy(r) ==
    IF r.kind \in LoginKinds THEN "LOGIN"
    ELSE IF r.kind = "edge" THEN "EDGE"
    ELSE IF r.session = NoSession THEN "PUBLIC"
    ELSE IF r.kind = "check" THEN "READ" ELSE "MUTATION"

MayEnter(p) == inFlight[p] < MaxInFlight[p]
Enter(p) == inFlight' = [inFlight EXCEPT ![p] = @ + 1]
Leave(p) == inFlight' = [inFlight EXCEPT ![p] = @ - 1]

\* The UPDATE that authenticates joins the session with its identity.
AuthenticatesByToken(s) == s # NoSession /\ session[s].state = "ACTIVE"
Authenticates(s) ==
    /\ s # NoSession /\ session[s].state = "ACTIVE"
    /\ identity[session[s].actor].status = "ACTIVE"

Membership(actor, org) ==
    IF org = NoOrganisation THEN "NONE" ELSE role[actor][org]

\* For the properties: who is locked out, and who holds the role in the target.
LockedOut(row, version) == row.state # "ACTIVE" \/ row.version # version
Barred(c, r) ==
    IF r.kind = "edge" THEN LockedOut(edge[c], r.version)
    ELSE r.session = NoSession
           \/ session[r.session].state # "ACTIVE"
           \/ identity[session[r.session].actor].status # "ACTIVE"
Holds(r) ==
    /\ r.session # NoSession /\ session[r.session].state # "NONE"
    /\ r.target # NoOrganisation
    /\ role[session[r.session].actor][r.target] = "ADMIN"

Happens == events < MaxEvents /\ events' = events + 1
Move(c, r) == request' = [request EXCEPT ![c] = r]
At(c, phase) == request[c].at = phase

\* A request that the rate or the concurrency of its policy refuses changes
\* nothing.  With an operator's credential the guard counts it while it
\* authenticates; signing out needs no authentication.
Arrive(c, r) ==
    LET p == Policy(r)
        guarded == r.session # NoSession IN
    /\ request[c] = Idle
    /\ Happens
    /\ Cardinality({d \in Callers : request[d] # Idle}) < MaxUnderWay
    /\ guarded => MayEnter(p)
    /\ LET waits == guarded /\ r.kind # "logout" IN
       /\ Move(c, [r EXCEPT !.at = IF waits THEN "authenticating" ELSE "admitted",
                            !.barred = Barred(c, r), !.held = Holds(r)])
       /\ IF waits THEN Enter(p) ELSE UNCHANGED inFlight
    /\ UNCHANGED <<rows, provider, command, browser>>

\* What a change or an action in an event is about need not be in the
\* organisation that is selected, and the latter may select none.
Mutate(c, s) ==
    \E h \in Organisations :
        \/ \E g \in Organisations :
             Arrive(c, [Idle EXCEPT !.kind = "change", !.session = s, !.org = g, !.target = h])
        \/ \E g \in Organisations \cup {NoOrganisation} :
             Arrive(c, [Idle EXCEPT !.kind = "event", !.session = s, !.org = g, !.target = h])

SubmitCredentials(t) ==
    /\ page[t] = "credentials"
    /\ \E o \in Operators : Arrive(t, [Idle EXCEPT !.kind = "begin", !.actor = o])
SubmitCode(t) ==
    /\ page[t] = "verify"
    /\ Arrive(t, [Idle EXCEPT !.kind = "verify", !.challenge = jar.login])
ResendCode(t) ==
    /\ page[t] = "verify"
    /\ Arrive(t, [Idle EXCEPT !.kind = "resend", !.challenge = jar.login])
CheckSession(t) ==
    /\ page[t] \in {"credentials", "home"}
    /\ Arrive(t, [Idle EXCEPT !.kind = "check", !.session = jar.session])
SignOut(t) ==
    /\ page[t] = "home"
    /\ Arrive(t, [Idle EXCEPT !.kind = "logout", !.session = jar.session])
Work(t) ==
    /\ page[t] = "home"
    /\ Mutate(t, jar.session)

FromTool(c) ==
    \E s \in Sessions :
        /\ session[s].state # "NONE" /\ session[s].by = NoChallenge
        /\ Mutate(c, s)

\* The Edge presents the credential that it holds, which may be an old one.
FromEdge(e) ==
    \E v \in 1..edge[e].version :
        Arrive(e, [Idle EXCEPT !.kind = "edge", !.version = v])

\* The interceptor's finalize runs whatever the handler's outcome.
Outcome(ok, r) ==
    IF ~ok THEN [Idle EXCEPT !.at = "answering", !.kind = r.kind]
    ELSE [r EXCEPT !.at = "answering", !.ok = TRUE, !.actor = NoOperator,
                   !.user = NoUser, !.org = NoOrganisation, !.role = "NONE"]
AnswerOnce(c, ok, r) ==
    /\ Move(c, Outcome(ok, r))
    /\ IF ok THEN Leave(Policy(r)) ELSE UNCHANGED inFlight
Answer(c, ok, r) ==
    /\ Move(c, Outcome(ok, r))
    /\ Leave(Policy(r))

\* The guard's own authentication and the role in the selected organisation.
Authenticate(c) ==
    LET r == request[c] IN
    /\ At(c, "authenticating")
    /\ IF Authenticates(r.session)
       THEN /\ Move(c, [r EXCEPT !.actor = session[r.session].actor,
                          !.at = IF r.org = NoOrganisation THEN "admitted"
                                 ELSE "projecting"])
            /\ IF r.org = NoOrganisation THEN Leave(Policy(r)) ELSE UNCHANGED inFlight
       ELSE Answer(c, FALSE, r)
    /\ UNCHANGED <<rows, provider, command, browser, events>>

Project(c) ==
    LET r == request[c] IN
    /\ At(c, "projecting")
    /\ Move(c, [r EXCEPT !.role = Membership(r.actor, r.org), !.at = "admitted"])
    /\ Leave(Policy(r))
    /\ UNCHANGED <<rows, provider, command, browser, events>>

Intercept(c) ==
    LET r == request[c] IN
    /\ At(c, "admitted")
    /\ \/ /\ MayEnter(Policy(r))
          /\ Enter(Policy(r))
          /\ Move(c, [r EXCEPT !.at = "handling"])
       \/ /\ ~MayEnter(Policy(r))
          /\ Move(c, [Idle EXCEPT !.at = "answering", !.kind = "refused"])
          /\ UNCHANGED inFlight
    /\ UNCHANGED <<rows, provider, command, browser, events>>

-----------------------------------------------------------------------------
(* Signing in *)

\* Of the provider's answer only the user matters: it names the address asked.
ProvePassword(c) ==
    LET r == request[c] IN
    /\ At(c, "handling") /\ r.kind = "begin"
    /\ \/ /\ Move(c, [r EXCEPT !.at = "proved", !.user = account[r.actor]])
          /\ UNCHANGED inFlight
       \/ Answer(c, FALSE, r)
    /\ UNCHANGED <<rows, provider, command, browser, events>>

SelectIdentity(c) ==
    LET r == request[c] IN
    /\ At(c, "proved") /\ r.kind = "begin"
    /\ IF /\ identity[r.actor].status = "ACTIVE"
          /\ identity[r.actor].user \in {NoUser, r.user}
       THEN Move(c, [r EXCEPT !.at = "selected"]) /\ UNCHANGED inFlight
       ELSE Answer(c, FALSE, r)
    /\ UNCHANGED <<rows, provider, command, browser, events>>

InsertChallenge(c) ==
    LET r == request[c] IN
    /\ At(c, "selected")
    /\ \E ch \in Challenges :
         /\ challenge[ch].state = "NONE"
         /\ challenge' = [challenge EXCEPT ![ch] =
              [state |-> "OPEN", actor |-> r.actor, user |-> r.user, waited |-> FALSE]]
         /\ Move(c, [r EXCEPT !.at = "sending", !.challenge = ch])
    /\ UNCHANGED <<identity, role, session, edge, provider, command, browser,
                   inFlight, events>>

\* A code that cannot be sent ends the challenge of a new login; a resend that
\* fails leaves it open.
SendCode(c) ==
    LET r == request[c] IN
    /\ At(c, "sending")
    /\ \/ /\ code' = [code EXCEPT ![r.actor] = TRUE]
          /\ Answer(c, TRUE, r)
          /\ UNCHANGED challenge
       \/ /\ challenge' = [challenge EXCEPT ![r.challenge].state =
                             IF r.kind = "begin" THEN "DONE" ELSE @]
          /\ Answer(c, FALSE, r)
          /\ UNCHANGED code
    /\ UNCHANGED <<identity, role, session, edge, account, command, browser, events>>

IsOpen(ch) == ch # NoChallenge /\ challenge[ch].state = "OPEN"

Resend(c) ==
    LET r == request[c] IN
    /\ At(c, "handling") /\ r.kind = "resend"
    /\ IF IsOpen(r.challenge) /\ challenge[r.challenge].waited
       THEN /\ challenge' = [challenge EXCEPT ![r.challenge].waited = FALSE]
            /\ Move(c, [r EXCEPT !.at = "sending", !.actor = challenge[r.challenge].actor])
            /\ UNCHANGED inFlight
       ELSE Answer(c, FALSE, r) /\ UNCHANGED challenge
    /\ UNCHANGED <<identity, role, session, edge, provider, command, browser, events>>

ReadChallenge(c) ==
    LET r == request[c] IN
    /\ At(c, "handling") /\ r.kind = "verify"
    /\ IF IsOpen(r.challenge)
       THEN /\ Move(c, [r EXCEPT !.at = "verifying", !.actor = challenge[r.challenge].actor])
            /\ UNCHANGED inFlight
       ELSE Answer(c, FALSE, r)
    /\ UNCHANGED <<rows, provider, command, browser, events>>

\* The provider takes the newest code once; a wrong one changes nothing.
VerifyCode(c) ==
    LET r == request[c] IN
    /\ At(c, "verifying")
    /\ \/ /\ code[r.actor]
          /\ code' = [code EXCEPT ![r.actor] = FALSE]
          /\ IF account[r.actor] = challenge[r.challenge].user
             THEN /\ Move(c, [r EXCEPT !.at = "issuing", !.user = account[r.actor]])
                  /\ UNCHANGED inFlight
             ELSE Answer(c, FALSE, r)
       \/ Answer(c, FALSE, r) /\ UNCHANGED code
    /\ UNCHANGED <<rows, account, command, browser, events>>

MayIssueUnbound(r) == IsOpen(r.challenge) /\ identity[r.actor].status = "ACTIVE"
MayIssue(r) ==
    /\ IsOpen(r.challenge)
    /\ identity[r.actor].status = "ACTIVE"
    /\ identity[r.actor].user \in {NoUser, r.user}

\* The transaction that spends the challenge, binds the user and adds a session.
IssueSession(c) ==
    LET r == request[c] IN
    /\ At(c, "issuing")
    /\ IF MayIssue(r)
       THEN \E s \in Sessions :
              /\ session[s].state = "NONE"
              /\ session' = [session EXCEPT ![s] =
                   [state |-> "ACTIVE", actor |-> r.actor, user |-> r.user, by |-> r.challenge]]
              /\ challenge' = [challenge EXCEPT ![r.challenge].state = "DONE"]
              /\ identity' = [identity EXCEPT ![r.actor].user =
                                IF @ = NoUser THEN r.user ELSE @]
              /\ Answer(c, TRUE, [r EXCEPT !.session = s])
       ELSE /\ Answer(c, FALSE, r)
            /\ UNCHANGED <<session, challenge, identity>>
    /\ UNCHANGED <<role, edge, provider, command, browser, events>>

-----------------------------------------------------------------------------
(* Serving *)

\* GET operator-auth/session authenticates again, then reads the profile.
Check(c) ==
    LET r == request[c] IN
    /\ At(c, "handling") /\ r.kind = "check"
    /\ IF Authenticates(r.session)
       THEN /\ Move(c, [r EXCEPT !.at = "reading", !.actor = session[r.session].actor])
            /\ UNCHANGED inFlight
       ELSE Answer(c, FALSE, r)
    /\ UNCHANGED <<rows, provider, command, browser, events>>
ReadProfile(c) ==
    /\ At(c, "reading")
    /\ Answer(c, identity[request[c].actor].status = "ACTIVE", request[c])
    /\ UNCHANGED <<rows, provider, command, browser, events>>

\* A controller of the configuration trusts the projection of the guard and
\* compares its organisation with that of the object it has found.
AdminAnywhere(r) == r.role = "ADMIN"
AdminOfTarget(r) == r.role = "ADMIN" /\ r.org = r.target
Change(c) ==
    /\ At(c, "handling") /\ request[c].kind = "change"
    /\ Answer(c, AdminOfTarget(request[c]), request[c])
    /\ UNCHANGED <<rows, provider, command, browser, events>>

\* A controller of an event authenticates again, finds the event's organisation
\* and reads the role there, whatever organisation the caller had selected.
ContextForEvent(c) ==
    LET r == request[c] IN
    /\ At(c, "handling") /\ r.kind = "event"
    /\ IF Authenticates(r.session)
       THEN /\ Move(c, [r EXCEPT !.at = "authorizing", !.actor = session[r.session].actor])
            /\ UNCHANGED inFlight
       ELSE Answer(c, FALSE, r)
    /\ UNCHANGED <<rows, provider, command, browser, events>>
AdminWhereSelected(r) == r.role = "ADMIN"
AdminThere(r) == Membership(r.actor, r.target) = "ADMIN"
AuthorizeOrganisation(c) ==
    /\ At(c, "authorizing")
    /\ Answer(c, AdminThere(request[c]), request[c])
    /\ UNCHANGED <<rows, provider, command, browser, events>>

Logout(c) ==
    LET r == request[c] IN
    /\ At(c, "handling") /\ r.kind = "logout"
    /\ session' = IF r.session = NoSession THEN session
                  ELSE [session EXCEPT ![r.session].state = "REVOKED"]
    /\ Answer(c, TRUE, r)
    /\ UNCHANGED <<identity, role, challenge, edge, provider, command, browser, events>>

\* The tab takes the cookies of the answer and moves on; the others share them.
Receive(c) ==
    LET r == request[c] IN
    /\ At(c, "answering")
    /\ Move(c, Idle)
    /\ jar' = CASE r.kind = "begin" /\ r.ok -> [jar EXCEPT !.login = r.challenge]
                [] r.kind = "verify" /\ r.ok ->
                     [login |-> NoChallenge, session |-> r.session]
                [] r.kind = "logout" -> [login |-> NoChallenge, session |-> NoSession]
                [] OTHER -> jar
    /\ page' = IF c \notin Tabs THEN page
               ELSE [page EXCEPT ![c] =
                 CASE r.kind = "begin" /\ r.ok -> "verify"
                   [] r.kind \in {"verify", "check"} /\ r.ok -> "home"
                   [] r.kind = "check" /\ ~r.ok -> "credentials"
                   [] r.kind = "logout" /\ r.ok -> "credentials"
                   [] OTHER -> @]
    /\ UNCHANGED <<rows, provider, command, inFlight, events>>

Back(t) ==
    /\ page[t] = "verify" /\ request[t] = Idle
    /\ page' = [page EXCEPT ![t] = "credentials"]
    /\ UNCHANGED <<rows, provider, command, jar, request, inFlight, events>>

-----------------------------------------------------------------------------
(* An Event Edge's request *)

IsActive(e, version) == edge[e].state = "ACTIVE"

\* The digest in the row is that of the version that is presented.
Matches(e, version) == edge[e].state = "ACTIVE" /\ edge[e].version = version
ReadCredential(e) ==
    LET r == request[e] IN
    /\ At(e, "handling") /\ r.kind = "edge"
    /\ IF Matches(e, r.version)
       THEN /\ Move(e, [r EXCEPT !.at = "touching", !.seen = edge[e].version])
            /\ UNCHANGED inFlight
       ELSE Answer(e, FALSE, r)
    /\ UNCHANGED <<rows, provider, command, browser, events>>

\* The UPDATE goes by the version of the row that was read.
IsCurrent(e, version) == edge[e].state = "ACTIVE" /\ edge[e].version = version
TouchCredential(e) ==
    LET r == request[e] IN
    /\ At(e, "touching")
    /\ Answer(e, IsCurrent(e, r.seen), r)
    /\ UNCHANGED <<rows, provider, command, browser, events>>

-----------------------------------------------------------------------------
(* The administrators' commands *)

Invited == "INVITED"
FirstStatus == "ACTIVE"
CreateIdentity(o) ==
    /\ identity[o].status = "NONE"
    /\ identity' = [identity EXCEPT ![o].status = FirstStatus]
    /\ UNCHANGED <<role, challenge, session, edge, provider, command, browser,
                   request, inFlight, events>>

\* Granting and adding a session look at the identity first and do not lock it.
BeginCommand(o) ==
    /\ Happens
    /\ identity[o].status = "ACTIVE"
    /\ \E new \in ([does : {"grant"}, actor : {o}, org : Organisations, role : Roles]
                   \cup [does : {"session"}, actor : {o}]) :
         new \notin command /\ command' = command \cup {new}
    /\ UNCHANGED <<rows, provider, browser, request, inFlight>>

GrantMembership(x) ==
    /\ x \in command /\ x.does = "grant"
    /\ role' = [role EXCEPT ![x.actor][x.org] = x.role]
    /\ request' = [c \in Callers |-> LET r == request[c] IN
         IF /\ r.session # NoSession /\ session[r.session].actor = x.actor
            /\ r.target = x.org /\ x.role = "ADMIN"
         THEN [r EXCEPT !.held = TRUE] ELSE r]
    /\ command' = command \ {x}
    /\ UNCHANGED <<identity, challenge, session, edge, provider, browser, inFlight, events>>

CreateSession(x) ==
    /\ x \in command /\ x.does = "session"
    /\ \E s \in Sessions :
         /\ session[s].state = "NONE"
         /\ session' = [session EXCEPT ![s] =
              [state |-> "ACTIVE", actor |-> x.actor, user |-> NoUser, by |-> NoChallenge]]
    /\ command' = command \ {x}
    /\ UNCHANGED <<identity, role, challenge, edge, provider, browser, request,
                   inFlight, events>>

RevokeMembership(o) ==
    /\ Happens
    /\ \E g \in Organisations :
         role[o][g] # "NONE" /\ role' = [role EXCEPT ![o][g] = "NONE"]
    /\ UNCHANGED <<identity, challenge, session, edge, provider, command, browser,
                   request, inFlight>>

RevokeSession(s) ==
    /\ Happens
    /\ session[s].state \in {"ACTIVE", "EXPIRED"}
    /\ session' = [session EXCEPT ![s].state = "REVOKED"]
    /\ UNCHANGED <<identity, role, challenge, edge, provider, command, browser,
                   request, inFlight>>

RevokeIdentity(o) ==
    /\ Happens
    /\ identity[o].status = "ACTIVE"
    /\ identity' = [identity EXCEPT ![o].status = "REVOKED"]
    /\ session' = [s \in Sessions |->
         IF session[s].actor = o /\ session[s].state # "REVOKED"
         THEN [session[s] EXCEPT !.state = "REVOKED"] ELSE session[s]]
    /\ role' = [role EXCEPT ![o] = [g \in Organisations |-> "NONE"]]
    /\ UNCHANGED <<challenge, edge, provider, command, browser, request, inFlight>>

\* The commands on an Edge's credential hold its lock and its row.
ManageEdge(e) ==
    /\ Happens
    /\ \/ edge[e].state = "NONE" /\ edge' = [edge EXCEPT ![e] = [state |-> "ACTIVE", version |-> 1]]
       \/ /\ edge[e].state = "ACTIVE" /\ edge[e].version < MaxVersion
          /\ edge' = [edge EXCEPT ![e].version = @ + 1]
       \/ edge[e].state = "ACTIVE" /\ edge' = [edge EXCEPT ![e].state = "REVOKED"]
    /\ request' = [request EXCEPT ![e].barred =
         @ \/ /\ request[e].kind = "edge" /\ ~At(e, "answering")
              /\ LockedOut(edge'[e], request[e].version)]
    /\ UNCHANGED <<identity, role, challenge, session, provider, command, browser,
                   inFlight>>

-----------------------------------------------------------------------------
(* Time, and the provider *)

Expire ==
    /\ Happens
    /\ \/ /\ \E s \in Sessions :
               /\ session[s].state = "ACTIVE"
               /\ session' = [session EXCEPT ![s].state = "EXPIRED"]
          /\ UNCHANGED challenge
       \/ /\ \E ch \in Challenges :
               /\ challenge[ch].state = "OPEN"
               /\ challenge' = [challenge EXCEPT ![ch].state = "DONE"]
          /\ UNCHANGED session
    /\ UNCHANGED <<identity, role, edge, provider, command, browser, request,
                   inFlight>>

MinutePasses ==
    /\ Happens
    /\ \E ch \in Challenges :
         /\ challenge[ch].state = "OPEN" /\ ~challenge[ch].waited
         /\ challenge' = [challenge EXCEPT ![ch].waited = TRUE]
    /\ UNCHANGED <<identity, role, session, edge, provider, command, browser, request,
                   inFlight>>

\* The operator's account is closed and opened again under the same address.
ReplaceAccount(o) ==
    /\ Happens
    /\ account[o] < MaxAccounts
    /\ account' = [account EXCEPT ![o] = @ + 1]
    /\ code' = [code EXCEPT ![o] = FALSE]
    /\ UNCHANGED <<rows, command, browser, request, inFlight>>

-----------------------------------------------------------------------------
Handle(c) ==
    \/ Authenticate(c) \/ Project(c) \/ Intercept(c)
    \/ ProvePassword(c) \/ SelectIdentity(c) \/ InsertChallenge(c) \/ SendCode(c)
    \/ Resend(c) \/ ReadChallenge(c) \/ VerifyCode(c) \/ IssueSession(c)
    \/ Check(c) \/ ReadProfile(c) \/ Change(c) \/ ContextForEvent(c)
    \/ AuthorizeOrganisation(c) \/ Logout(c) \/ Receive(c)

Administer ==
    \/ \E o \in Operators :
         \/ CreateIdentity(o) \/ BeginCommand(o)
         \/ RevokeMembership(o) \/ RevokeIdentity(o)
    \/ \E x \in command : GrantMembership(x) \/ CreateSession(x)
    \/ \E s \in Sessions : RevokeSession(s)
    \/ \E e \in Edges : ManageEdge(e)

Next ==
    \/ \E t \in Tabs :
         \/ SubmitCredentials(t) \/ SubmitCode(t) \/ ResendCode(t) \/ Back(t)
         \/ CheckSession(t) \/ SignOut(t) \/ Work(t)
    \/ \E c \in Tools : FromTool(c)
    \/ \E e \in Edges : FromEdge(e) \/ ReadCredential(e) \/ TouchCredential(e)
    \/ \E c \in Callers : Handle(c)
    \/ Administer
    \/ Expire \/ MinutePasses
    \/ \E o \in Operators : ReplaceAccount(o)

Spec == Init /\ [][Next]_vars

-----------------------------------------------------------------------------
(* What must hold *)

Phases == {"idle", "authenticating", "projecting", "admitted", "handling", "proved",
           "selected", "sending", "verifying", "issuing", "reading", "authorizing",
           "touching", "answering"}
Users == NoUser..MaxAccounts

\* The tables, the cookies and the requests under way have their types.
TypeOK ==
    /\ identity \in [Operators -> [status : {"NONE", "ACTIVE", "REVOKED"}, user : Users]]
    /\ role \in [Operators -> [Organisations -> Roles \cup {"NONE"}]]
    /\ account \in [Operators -> 1..MaxAccounts] /\ code \in [Operators -> BOOLEAN]
    /\ challenge \in [Challenges -> [state : {"NONE", "OPEN", "DONE"}, user : Users,
                                     actor : Operators \cup {NoOperator}, waited : BOOLEAN]]
    /\ session \in [Sessions -> [state : {"NONE", "ACTIVE", "EXPIRED", "REVOKED"},
                                 actor : Operators \cup {NoOperator}, user : Users,
                                 by : Challenges \cup {NoChallenge}]]
    /\ edge \in [Edges -> [state : {"NONE", "ACTIVE", "REVOKED"}, version : 0..MaxVersion]]
    /\ jar \in [login : Challenges \cup {NoChallenge}, session : Sessions \cup {NoSession}]
    /\ page \in [Tabs -> {"credentials", "verify", "home"}]
    /\ \A c \in Callers : request[c].at \in Phases /\ request[c].user \in Users
    /\ inFlight \in [Policies -> Nat] /\ events \in 0..MaxEvents

\* Every session that came from a login came from a challenge of its own, and
\* from the provider's user that the operator is bound to: a second tab, a code
\* sent again or an account opened again under the address cannot make another.
SessionsAreProved ==
    \A s, t \in Sessions :
        session[s].by # NoChallenge =>
            /\ session[s].user = identity[session[s].actor].user
            /\ session[t].by = session[s].by => s = t

Served(c) == At(c, "answering") /\ request[c].ok
                /\ request[c].kind \in {"check", "change", "event", "edge"}

\* A request that arrives after its session ended or its operator was revoked is
\* never served, even when a command that had looked at the operator before
\* writes its row after the revocation.
LockedOutIsRefused ==
    \A c \in Callers : Served(c) /\ request[c].kind # "edge" => ~request[c].barred

\* An operator is served in an organisation only if they were its
\* administrator at some moment while the request was there.
ServedInOrganisation ==
    \A c \in Callers :
        Served(c) /\ request[c].kind \in {"change", "event"} => request[c].held

Inside(p) == {c \in Callers : /\ Policy(request[c]) = p
                              /\ request[c].at \notin {"idle", "admitted", "answering"}}

\* The counter of a policy is the number of requests that the guard or the
\* handler really has under way, however each of them ended: none leaks, none
\* is given back twice, and the limit is kept.
InFlightIsExact ==
    \A p \in Policies :
        inFlight[p] = Cardinality(Inside(p)) /\ inFlight[p] <= MaxInFlight[p]

\* Who is served proved who they are, still may, where they asked, and the
\* counters that admitted them are true.
ServiceIsDeserved ==
    SessionsAreProved /\ LockedOutIsRefused /\ ServedInOrganisation /\ InFlightIsExact

\* An Edge is let in only if the credential it presents was the current one from
\* the arrival of the request until its acceptance: no rotation or revocation
\* before it, between the statements that read and touch the row, or both, lets
\* an old credential open the Cloud once more.
AcceptedEdgesAreCurrent ==
    \A c \in Callers : Served(c) /\ request[c].kind = "edge" => ~request[c].barred

=============================================================================
