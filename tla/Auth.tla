------------------------------- MODULE Auth -------------------------------
(***************************************************************************)
(* Logins, client-credential grants and the requests made with the tokens  *)
(* they issue: loginHandler, oauthTokenHandler and meHandler with          *)
(* auth.Service under them.  Each read of the store is a step of its own,  *)
(* other handlers change the users, groups and credentials in between,     *)
(* time passes, and the process may be restarted with another secret.      *)
(*                                                                         *)
(* A password matches a bcrypt hash iff it is equal to it; no password is  *)
(* the one of the dummy hashes.  A token is its claims and the key it was  *)
(* signed with; whoever presents one got it from the service.              *)
(***************************************************************************)
EXTENDS Handlers

CONSTANTS
    Setup,          \* the commands applied before the first request
    Command,        \* the commands other handlers may submit
    Login,          \* bodies of POST /api/auth/login
    Grant,          \* requests to /api/oauth/token
    Lowered,        \* strings.ToLower and TrimSpace on the usernames sent
    Secret,         \* values of AERENDIL_JWT_SECRET
    tokenTTL, ServiceTokenTTL,
    MaxChange, MaxClock, MaxToken, MaxRestart   \* bounds

ASSUME TTLAssumption == tokenTTL \in Nat \ {0} /\ ServiceTokenTTL \in Nat \ {0}

VARIABLES
    fsm, changes,   \* the maps, and how many commands were applied since setup
    now,            \* time.Now, in units of the service's shortest lifetime
    secretKey, restarts,
    tokens,         \* the tokens that clients hold
    login,          \* the request that is being issued a token
    req             \* the request that carries one

store == <<fsm, changes>>
process == <<secretKey, restarts>>
vars == <<store, now, process, tokens, login, req>>

SetUp ==
    LET at[i \in 0..Len(Setup)] ==
            IF i = 0 THEN newFSM ELSE Apply(at[i - 1], i, Setup[i]).state
    IN  at[Len(Setup)]

----------------------------------------------------------------------------
(* auth.Service *)

\* What a check of credentials finds.
Found(id, username) == [code |-> OK, user |-> [id |-> id, username |-> username]]
NotFound(code) == [code |-> code]

\* The scan of getUserByUsername; two users never share a name (module Store).
CheckPassword(s, username, password) ==
    LET valid == {id \in UsersNamed(s, Lowered[username]) :
                     s.users[id].active /\ s.users[id].passwordHash = password}
    IN  IF valid = {} THEN NotFound("AuthInvalidCredentials")
        ELSE Found(CHOOSE id \in valid : TRUE, Lowered[username])

AuthenticateClientCredentials(s, clientID, clientSecret) ==
    IF /\ clientID \in DOMAIN s.applicationCredentials
       /\ s.applicationCredentials[clientID].active
       /\ s.applicationCredentials[clientID].clientSecretHash = clientSecret
    THEN Found(clientID, NoString) ELSE NotFound("invalid_client")

TTL_Same(service) == tokenTTL
TTL(service) == IF service THEN ServiceTokenTTL ELSE tokenTTL
\* GenerateToken, GenerateServiceToken.  The account, its username and the
\* time of issue are history.
Token(user, service) ==
    [sub |-> user.id, service |-> service, exp |-> now + TTL(service), key |-> secretKey,
     account |-> user.id, username |-> user.username, issued |-> now]

Valid(token) == token.key = secretKey /\ now < token.exp

\* Whom the token is about.
SubjectOf(s, token) == [id |-> token.sub, service |-> token.service]

\* Authenticate of Handlers is AuthenticateToken's read of the subject.
ReadSubjectOf_Cached(s, token) == Authenticate(SetUp, SubjectOf(s, token))
ReadSubjectOf(s, token) == Authenticate(s, SubjectOf(s, token))

\* A group that is gone is passed over, the Admin group ends the loop.
GroupsAfter_Stops(s, p, groupIDs, groupID) ==
    IF p.isAdmin \/ groupID \notin DOMAIN s.groups THEN {} ELSE groupIDs \ {groupID}
GroupsAfter(s, p, groupIDs, groupID) == IF p.isAdmin THEN {} ELSE groupIDs \ {groupID}

----------------------------------------------------------------------------
(* History of a request: the groups its account was in and what every      *)
(* group granted at some moment since it arrived, and what the account     *)
(* held throughout (steady).  A credential is the only source of its own   *)
(* powers.                                                                 *)

Live(s, account) ==
    IF account.service
    THEN account.id \in DOMAIN s.applicationCredentials /\ s.applicationCredentials[account.id].active
    ELSE account.id \in DOMAIN s.users /\ s.users[account.id].active

Sources(s, account) ==
    IF ~Live(s, account) THEN {}
    ELSE IF account.service THEN {<<"credential", account.id>>}
    ELSE {<<"group", groupID>> : groupID \in s.users[account.id].groupIDs}

\* A power is a permission, an environment, or everything.
Everything == <<"admin">>
PowersOf(perms, envs) ==
    {<<"permission", perm>> : perm \in perms} \cup {<<"environment", id>> : id \in envs}
GroupPowers(s, groupID) ==
    IF groupID = AdminGroupID /\ s.groups[groupID].system THEN {Everything}
    ELSE PowersOf(s.groups[groupID].permissions, s.groups[groupID].environmentIDs)
CredentialPowers(s, id) ==
    PowersOf(s.applicationCredentials[id].scopes, {s.applicationCredentials[id].environmentID})

GroupGrants(s, id) == {<<<<"group", id>>, power>> : power \in GroupPowers(s, id)}
CredentialGrants(s, id) == {<<<<"credential", id>>, power>> : power \in CredentialPowers(s, id)}
Grants(s) ==
    (UNION {GroupGrants(s, id) : id \in DOMAIN s.groups})
    \cup (UNION {CredentialGrants(s, id) : id \in DOMAIN s.applicationCredentials})
Held(s, account) == {grant \in Grants(s) : grant[1] \in Sources(s, account)}

\* The account the token was issued for; no other field of it is looked at.
AccountOf(token) == [id |-> token.account, service |-> token.service]
Watch(s, token) ==
    [live |-> Live(s, AccountOf(token)), sources |-> Sources(s, AccountOf(token)),
     grants |-> Grants(s), steady |-> Held(s, AccountOf(token))]
Watched(w, s, token) ==
    LET seen == Watch(s, token) IN
    [live |-> w.live \/ seen.live, sources |-> w.sources \cup seen.sources,
     grants |-> w.grants \cup seen.grants, steady |-> w.steady \cap seen.steady]

----------------------------------------------------------------------------

InProgress == req.step \in {"subject", "groups", "resolved"}
NoLogin == [step |-> "idle"]
NoRequest == [step |-> "idle"]

Init ==
    /\ fsm = SetUp /\ changes = 0 /\ now = 0
    /\ secretKey \in Secret /\ restarts = 0
    /\ tokens = {} /\ login = NoLogin /\ req = NoRequest

(* Login and grant: read and compare, then sign *)

loginHandler ==
    /\ login.step = "idle" /\ Cardinality(tokens) < MaxToken
    /\ \E q \in Login :
         LET read == CheckPassword(fsm, q.username, q.password) IN
         login' = IF read.code = OK
                  THEN [step |-> "sign", user |-> read.user, service |-> FALSE]
                  ELSE NoLogin
    /\ UNCHANGED <<store, now, process, tokens, req>>

\* Basic authentication first, the form for what it leaves empty.
Field(basic, form) == IF basic = NoString THEN form ELSE basic
parseOAuthTokenRequest(q) ==
    [clientID |-> Field(q.basic.id, q.form.id),
     clientSecret |-> Field(q.basic.secret, q.form.secret), grantType |-> q.grantType]

oauthTokenHandler ==
    /\ login.step = "idle" /\ Cardinality(tokens) < MaxToken
    /\ \E q \in Grant :
         LET parsed == parseOAuthTokenRequest(q)
             read == AuthenticateClientCredentials(fsm, parsed.clientID, parsed.clientSecret)
         IN  login' = IF /\ parsed.grantType = "client_credentials"
                         /\ NoString \notin {parsed.clientID, parsed.clientSecret}
                         /\ read.code = OK
                      THEN [step |-> "sign", user |-> read.user, service |-> TRUE]
                      ELSE NoLogin
    /\ UNCHANGED <<store, now, process, tokens, req>>

Sign ==
    /\ login.step = "sign"
    /\ tokens' = tokens \cup {Token(login.user, login.service)}
    /\ login' = NoLogin
    /\ UNCHANGED <<store, now, process, req>>

(* A request with a token: authenticateRequest, then the route *)

End(answer, shown) ==
    req' = [req EXCEPT !.step = "answered", !.answer = answer, !.shown = shown]

Resolve(p, groupIDs) ==
    req' = [req EXCEPT !.p = p, !.groupIDs = groupIDs,
                       !.step = IF groupIDs = {} THEN "resolved" ELSE "groups"]

\* parseTokenClaims.
Arrive ==
    /\ req.step \in {"idle", "answered"}
    /\ \E token \in tokens :
         /\ Valid(token)
         /\ req' = [step |-> "subject", token |-> token, watch |-> Watch(fsm, token),
                    at |-> now, key |-> secretKey, p |-> Principal(token.sub), groupIDs |-> {},
                    answer |-> Continue, shown |-> {}]
    /\ UNCHANGED <<store, now, process, tokens, login>>

ReadSubject ==
    /\ req.step = "subject"
    /\ LET read == ReadSubjectOf(fsm, req.token) IN
       IF read.code = Continue THEN Resolve(read.principal, read.groupIDs)
       ELSE End(read.code, {})
    /\ UNCHANGED <<store, now, process, tokens, login>>

ReadGroup ==
    /\ req.step = "groups"
    /\ \E groupID \in req.groupIDs :
         LET p == WithGroup(fsm, req.p, groupID) IN
         Resolve(p, GroupsAfter(fsm, p, req.groupIDs, groupID))
    /\ UNCHANGED <<store, now, process, tokens, login>>

\* resolveEnvironmentSummaries.
meHandler_Unfiltered ==
    /\ req.step = "resolved"
    /\ End(OK, IF req.p.isAdmin THEN DOMAIN fsm.environments ELSE req.p.envs)
    /\ UNCHANGED <<store, now, process, tokens, login>>
meHandler ==
    /\ req.step = "resolved"
    /\ End(OK, {id \in DOMAIN fsm.environments : hasEnvironmentAccess(req.p, id)})
    /\ UNCHANGED <<store, now, process, tokens, login>>

(* The rest of the world *)

\* Another handler's command is applied.
Change ==
    /\ changes < MaxChange
    /\ changes' = changes + 1
    /\ \E cmd \in Command :
         LET result == Apply(fsm, Len(Setup) + changes', cmd) IN
         result.err = OK /\ fsm' = result.state
    /\ req' = IF InProgress
              THEN [req EXCEPT !.watch = Watched(@, fsm', req.token)] ELSE req
    /\ UNCHANGED <<now, process, tokens, login>>

Tick ==
    /\ now < MaxClock
    /\ now' = now + 1
    /\ UNCHANGED <<store, process, tokens, login, req>>

\* NewService with the secret of that process's environment.
Restart ==
    /\ restarts < MaxRestart
    /\ restarts' = restarts + 1
    /\ secretKey' \in Secret
    /\ login' = NoLogin /\ req' = NoRequest
    /\ UNCHANGED <<store, now, tokens>>

Next ==
    \/ loginHandler \/ oauthTokenHandler \/ Sign
    \/ Arrive \/ ReadSubject \/ ReadGroup \/ meHandler
    \/ Change \/ Tick \/ Restart

Spec == Init /\ [][Next]_vars

----------------------------------------------------------------------------
(* Properties *)

Answered == req.step = "answered" /\ req.answer = OK
Resolved == req.step = "resolved" \/ Answered
Accepted == req.step = "groups" \/ Resolved
Powers(p) == PowersOf(p.perms, p.envs) \cup (IF p.isAdmin THEN {Everything} ELSE {})

\* "so a renamed or deactivated user takes effect immediately rather than only
\* after the token expires" (service.go:165): a request is let in only as the
\* account its token was issued for, whatever that is called by then, and only
\* if it was active at some moment since the request arrived.
RevocationImmediate ==
    Accepted =>
        /\ req.watch.live
        /\ req.p.id = req.token.account /\ req.p.isService = req.token.service

\* No request is let in with a token older than its kind allows, or one that a
\* process with another secret has signed.
TokenLifeBounded ==
    Accepted =>
        /\ req.at < req.token.issued + (IF req.token.service THEN ServiceTokenTTL ELSE tokenTTL)
        /\ req.token.key = req.key

\* Whatever the changes between the reads, every permission and environment a
\* request is given was granted while it was being resolved, by a group its
\* account was in while it was being resolved (resolvePermissionsForUser).
PowersWereGranted ==
    Accepted => \A power \in Powers(req.p) :
        \E source \in req.watch.sources : <<source, power>> \in req.watch.grants

\* and none that the account held throughout is missing: a group deleted in
\* the meantime takes nothing away that another grants.
PowersNotLost ==
    Resolved => req.p.isAdmin \/ \A grant \in req.watch.steady : grant[2] \in Powers(req.p)

\* GET /api/auth/me shows only environments that still exist, though groups
\* keep the IDs of deleted ones (group.go:15), each of them granted while the
\* request was being resolved; and it leaves out none that exists and was
\* granted throughout, to an admin none at all.
MeShowsTheHeld ==
    [][req.step = "resolved" /\ req'.step = "answered" =>
         /\ \A id \in req'.shown :
              /\ id \in DOMAIN fsm.environments
              /\ \E grant \in req.watch.grants :
                   grant[1] \in req.watch.sources
                   /\ grant[2] \in {<<"environment", id>>, Everything}
         /\ \A grant \in req.watch.steady, id \in DOMAIN fsm.environments :
              grant[2] \in {<<"environment", id>>, Everything} => id \in req'.shown]_vars
=============================================================================
