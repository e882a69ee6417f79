----------------------------- MODULE AuthProofs -----------------------------
(***************************************************************************)
(* Proofs about Auth, for every set of users, groups, credentials, secrets *)
(* and commands and every bound: what a request is let in as, and with     *)
(* which powers, however the maps change between its reads.                *)
(*                                                                         *)
(* Nothing is used of the commands that Change applies: the argument rests *)
(* on the history of a request being brought up to date with every change  *)
(* (WatchCurrent), so that whatever a step reads is already in it.         *)
(***************************************************************************)
EXTENDS Auth, TLAPS

----------------------------------------------------------------------------
(* The inductive invariant *)

ShapeOfPrincipal(p) ==
    /\ p = [id |-> p.id, isAdmin |-> p.isAdmin, isService |-> p.isService,
            perms |-> p.perms, envs |-> p.envs]
    /\ p.isAdmin \in BOOLEAN

ShapeOfRequest(r) ==
    /\ r = [step |-> r.step, token |-> r.token, watch |-> r.watch, at |-> r.at, key |-> r.key,
            p |-> r.p, groupIDs |-> r.groupIDs, answer |-> r.answer, shown |-> r.shown]
    /\ ShapeOfPrincipal(r.p)

Steps == req.step \in {"idle", "subject", "groups", "resolved", "answered"}

\* A token as Sign makes them.
Issued(token) ==
    /\ token.service \in BOOLEAN
    /\ token.sub = token.account
    /\ token.exp = token.issued + (IF token.service THEN ServiceTokenTTL ELSE tokenTTL)
TokensIssued == \A token \in tokens : Issued(token)

Signing == login.step = "sign" => login.service \in BOOLEAN

RequestShaped ==
    req.step # "idle" =>
        /\ ShapeOfRequest(req)
        /\ Issued(req.token) /\ req.at < req.token.exp /\ req.token.key = req.key

\* The history of a request includes what the maps hold now.
Includes(w, s, token) ==
    /\ Live(s, AccountOf(token)) => w.live
    /\ Sources(s, AccountOf(token)) \subseteq w.sources
    /\ Grants(s) \subseteq w.grants
    /\ w.steady \subseteq Held(s, AccountOf(token))
WatchCurrent == InProgress => Includes(req.watch, fsm, req.token)

\* While groups are read: the subject is a user, the groups left to read were
\* all its own, and what it held throughout comes from what was read or is
\* left to read.
Unread ==
    req.step = "groups" =>
        /\ ~req.token.service
        /\ \A groupID \in req.groupIDs : <<"group", groupID>> \in req.watch.sources
        /\ \A grant \in req.watch.steady :
              \/ grant[2] \in Powers(req.p)
              \/ \E groupID \in req.groupIDs : grant[1] = <<"group", groupID>>

IInv ==
    /\ Steps /\ TokensIssued /\ Signing /\ RequestShaped /\ WatchCurrent /\ Unread
    /\ RevocationImmediate /\ PowersWereGranted /\ PowersNotLost

----------------------------------------------------------------------------
(* What one read finds *)

\* A group that was read adds its own powers, and no others; the Admin group
\* takes the place of all of them.
LEMMA GroupAddsItsPowers ==
    ASSUME NEW s, NEW p, NEW groupID, ShapeOfPrincipal(p)
    PROVE  LET after == WithGroup(s, p, groupID)
               granted == IF groupID \in DOMAIN s.groups THEN GroupPowers(s, groupID) ELSE {}
           IN  /\ ShapeOfPrincipal(after)
               /\ after.id = p.id /\ after.isService = p.isService
               /\ Powers(after) \subseteq Powers(p) \cup granted
               /\ after.isAdmin \/ Powers(p) \cup granted \subseteq Powers(after)
<1> DEFINE after == WithGroup(s, p, groupID)
<1>1. CASE groupID \notin DOMAIN s.groups
  BY <1>1 DEF WithGroup
<1>2. CASE groupID \in DOMAIN s.groups /\ groupID = AdminGroupID /\ s.groups[groupID].system
  <2>1. after = [p EXCEPT !.isAdmin = TRUE, !.perms = {}, !.envs = {}]
    BY <1>2 DEF WithGroup
  <2>2. /\ after = [id |-> p.id, isAdmin |-> TRUE, isService |-> p.isService,
                    perms |-> {}, envs |-> {}]
    BY <2>1 DEF ShapeOfPrincipal
  <2>3. Powers(after) = {Everything} /\ GroupPowers(s, groupID) = {Everything}
    BY <1>2, <2>2 DEF Powers, PowersOf, GroupPowers
  <2>4. ShapeOfPrincipal(after) /\ after.id = p.id /\ after.isService = p.isService
    BY <2>2 DEF ShapeOfPrincipal
  <2>5. after.isAdmin
    BY <2>2
  <2> HIDE DEF after
  <2> QED BY <1>2, <2>3, <2>4, <2>5 DEF after
<1>3. CASE groupID \in DOMAIN s.groups /\ ~(groupID = AdminGroupID /\ s.groups[groupID].system)
  <2> DEFINE g == s.groups[groupID]
  <2>1. after = [p EXCEPT !.perms = @ \cup g.permissions, !.envs = @ \cup g.environmentIDs]
    BY <1>3 DEF WithGroup
  <2>2. after = [id |-> p.id, isAdmin |-> p.isAdmin, isService |-> p.isService,
                 perms |-> p.perms \cup g.permissions, envs |-> p.envs \cup g.environmentIDs]
    BY <2>1 DEF ShapeOfPrincipal
  <2>3. GroupPowers(s, groupID) = PowersOf(g.permissions, g.environmentIDs)
    BY <1>3 DEF GroupPowers
  <2>4. Powers(after) = Powers(p) \cup PowersOf(g.permissions, g.environmentIDs)
    BY <2>2 DEF Powers, PowersOf
  <2>5. ShapeOfPrincipal(after) /\ after.id = p.id /\ after.isService = p.isService
    BY <2>2 DEF ShapeOfPrincipal
  <2> QED BY <1>3, <2>3, <2>4, <2>5
<1> QED BY <1>1, <1>2, <1>3

\* A grant held comes from a group the account is in, or from the credential.
LEMMA HeldFrom ==
    ASSUME NEW s, NEW account, NEW grant \in Held(s, account)
    PROVE  /\ Live(s, account) /\ grant[1] \in Sources(s, account) /\ grant \in Grants(s)
           /\ account.service =>
                /\ grant[1] = <<"credential", account.id>>
                /\ grant[2] \in CredentialPowers(s, account.id)
           /\ ~account.service => \E groupID \in s.users[account.id].groupIDs :
                /\ grant[1] = <<"group", groupID>>
                /\ groupID \in DOMAIN s.groups
                /\ grant[2] \in GroupPowers(s, groupID)
<1>1. grant \in Grants(s) /\ grant[1] \in Sources(s, account) /\ Live(s, account)
  BY DEF Held, Sources
<1>2. \/ \E id \in DOMAIN s.groups : \E power \in GroupPowers(s, id) :
            grant = <<<<"group", id>>, power>>
      \/ \E id \in DOMAIN s.applicationCredentials : \E power \in CredentialPowers(s, id) :
            grant = <<<<"credential", id>>, power>>
  BY <1>1 DEF Grants, GroupGrants, CredentialGrants
<1>3. ASSUME account.service
      PROVE  /\ grant[1] = <<"credential", account.id>>
             /\ grant[2] \in CredentialPowers(s, account.id)
  <2>1. grant[1] = <<"credential", account.id>>
    BY <1>1, <1>3 DEF Sources
  <2> QED BY <1>2, <2>1
<1>4. ASSUME ~account.service
      PROVE  \E groupID \in s.users[account.id].groupIDs :
                /\ grant[1] = <<"group", groupID>>
                /\ groupID \in DOMAIN s.groups
                /\ grant[2] \in GroupPowers(s, groupID)
  <2>1. PICK groupID \in s.users[account.id].groupIDs : grant[1] = <<"group", groupID>>
    BY <1>1, <1>4 DEF Sources
  <2> QED BY <1>2, <2>1
<1> QED BY <1>1, <1>3, <1>4

\* The principal that a live credential gets at once.
ServicePrincipal(s, id) ==
    [id |-> id, isAdmin |-> FALSE, isService |-> TRUE,
     perms |-> s.applicationCredentials[id].scopes,
     envs |-> {s.applicationCredentials[id].environmentID}]

LEMMA PrincipalShape ==
    ASSUME NEW id, NEW p, NEW perms, NEW envs, NEW isService,
           p = [id |-> id, isAdmin |-> FALSE, isService |-> isService, perms |-> perms,
                envs |-> envs]
    PROVE  ShapeOfPrincipal(p) /\ p.id = id /\ p.isService = isService
BY DEF ShapeOfPrincipal

\* What AuthenticateToken's one read of a live account returns.
LEMMA Authenticated ==
    ASSUME NEW s, NEW account, Live(s, account)
    PROVE  LET read == Authenticate(s, account) IN
           /\ account.service => read = [code |-> Continue, groupIDs |-> {},
                                         principal |-> ServicePrincipal(s, account.id)]
           /\ ~account.service => read = [code |-> Continue,
                                          groupIDs |-> s.users[account.id].groupIDs,
                                          principal |-> Principal(account.id)]
<1>1. CASE account.service
  <2>1. ASSUME NEW id, NEW perms, NEW envs, NEW p,
               p = [Principal(id) EXCEPT !.isService = TRUE, !.perms = perms, !.envs = envs]
        PROVE  p = [id |-> id, isAdmin |-> FALSE, isService |-> TRUE, perms |-> perms,
                    envs |-> envs]
    BY <2>1 DEF Principal
  <2>2. Authenticate(s, account).principal = ServicePrincipal(s, account.id)
    BY <1>1, <2>1 DEF Authenticate, Live, ServicePrincipal
  <2> QED BY <1>1, <2>2 DEF Authenticate, Live
<1>2. CASE ~account.service
  BY <1>2 DEF Authenticate, Live
<1> QED BY <1>1, <1>2

\* The powers of a group or a credential are grants.
LEMMA PowersAreGrants ==
    ASSUME NEW s
    PROVE  /\ \A id \in DOMAIN s.groups : \A power \in GroupPowers(s, id) :
                 <<<<"group", id>>, power>> \in Grants(s)
           /\ \A id \in DOMAIN s.applicationCredentials : \A power \in CredentialPowers(s, id) :
                 <<<<"credential", id>>, power>> \in Grants(s)
BY DEF Grants, GroupGrants, CredentialGrants

----------------------------------------------------------------------------
(* The invariant holds at first and in every step *)

THEOREM InitIInv == Init => IInv
BY DEF Init, IInv, NoRequest, NoLogin, Steps, TokensIssued, Signing, RequestShaped, WatchCurrent, InProgress,
       Unread, RevocationImmediate, PowersWereGranted, PowersNotLost,
       Accepted, Resolved, Answered

\* A step that leaves the request and the maps alone.
LEMMA OtherSteps ==
    ASSUME IInv, TokensIssued', Signing', UNCHANGED <<fsm, req>>
    PROVE  IInv'
BY DEF IInv, Steps, RequestShaped, WatchCurrent, Includes, InProgress, Unread,
       RevocationImmediate, PowersWereGranted, PowersNotLost,
       Accepted, Resolved, Answered

LEMMA SignStep ==
    ASSUME IInv, Sign
    PROVE  IInv'
<1>1. TokensIssued'
  <2> SUFFICES ASSUME NEW token \in tokens'
               PROVE  Issued(token)
    BY DEF TokensIssued, Issued
  <2>1. CASE token \in tokens
    BY <2>1 DEF IInv, TokensIssued
  <2>2. CASE token = Token(login.user, login.service)
    <3>1. login.service \in BOOLEAN
      BY DEF IInv, Signing, Sign
    <3> QED BY <2>2, <3>1 DEF Token, TTL, Issued
  <2> QED BY <2>1, <2>2 DEF Sign
<1>2. Signing' /\ UNCHANGED <<fsm, req>>
  BY DEF Sign, store, Signing, NoLogin
<1> QED BY <1>1, <1>2, OtherSteps

LEMMA CredentialSteps ==
    ASSUME IInv, loginHandler \/ oauthTokenHandler
    PROVE  IInv'
<1>1. Signing'
  <2>1. CASE loginHandler
    <3>1. \/ login' = NoLogin
          \/ \E user : login' = [step |-> "sign", user |-> user, service |-> FALSE]
      BY <2>1 DEF loginHandler
    <3>2. ASSUME NEW user, login' = [step |-> "sign", user |-> user, service |-> FALSE]
          PROVE  login'.service \in BOOLEAN
      BY <3>2
    <3> QED BY <3>1, <3>2 DEF Signing, NoLogin
  <2>2. CASE oauthTokenHandler
    <3>1. \/ login' = NoLogin
          \/ \E user : login' = [step |-> "sign", user |-> user, service |-> TRUE]
      BY <2>2 DEF oauthTokenHandler
    <3>2. ASSUME NEW user, login' = [step |-> "sign", user |-> user, service |-> TRUE]
          PROVE  login'.service \in BOOLEAN
      BY <3>2
    <3> QED BY <3>1, <3>2 DEF Signing, NoLogin
  <2> QED BY <2>1, <2>2
<1>2. TokensIssued' /\ UNCHANGED <<fsm, req>>
  BY DEF loginHandler, oauthTokenHandler, store, IInv, TokensIssued, Issued
<1> QED BY <1>1, <1>2, OtherSteps

\* A request starts with the history of one moment.
LEMMA ArriveStep ==
    ASSUME IInv, Arrive
    PROVE  IInv'
<1>1. PICK token \in tokens :
        /\ Valid(token)
        /\ req' = [step |-> "subject", token |-> token, watch |-> Watch(fsm, token),
                   at |-> now, key |-> secretKey, p |-> Principal(token.sub), groupIDs |-> {},
                   answer |-> Continue, shown |-> {}]
  BY DEF Arrive
<1>2. UNCHANGED <<fsm, tokens, login>>
  BY DEF Arrive, store
<1>3. Issued(token)
  BY DEF IInv, TokensIssued
<1>4. TokensIssued' /\ Signing'
  BY <1>2 DEF IInv, TokensIssued, Issued, Signing
<1>5. RequestShaped'
  BY <1>1, <1>3 DEF RequestShaped, ShapeOfRequest, ShapeOfPrincipal, Principal, Valid, Issued
<1>6. WatchCurrent'
  BY <1>1, <1>2 DEF WatchCurrent, Includes, Watch
<1> QED BY <1>1, <1>4, <1>5, <1>6
        DEF IInv, Steps, Unread, RevocationImmediate, PowersWereGranted,
            PowersNotLost, Accepted, Resolved, Answered

\* What AuthenticateToken reads of the subject is in the history; a user's
\* groups are all left to read, a credential's powers are complete.
LEMMA ReadSubjectStep ==
    ASSUME IInv, ReadSubject
    PROVE  IInv'
<1> DEFINE token == req.token
           account == AccountOf(token)
           found == ReadSubjectOf(fsm, token)
<1>1. /\ req.step = "subject" /\ ShapeOfRequest(req) /\ Issued(token)
      /\ Includes(req.watch, fsm, token)
      /\ req.at < token.exp /\ token.key = req.key
  BY DEF ReadSubject, IInv, RequestShaped, WatchCurrent, InProgress
<1>2. UNCHANGED <<fsm, tokens, login>>
  BY DEF ReadSubject, store
<1>3. TokensIssued' /\ Signing'
  BY <1>2 DEF IInv, TokensIssued, Issued, Signing
<1>4. account.id = token.sub /\ account.service = token.service
  BY <1>1 DEF AccountOf, Issued
<1>5. found = Authenticate(fsm, account)
  BY <1>4 DEF ReadSubjectOf, SubjectOf, AccountOf
<1>6. CASE found.code # Continue
  <2>1. req' = [req EXCEPT !.step = "answered", !.answer = found.code, !.shown = {}]
    BY <1>6 DEF ReadSubject, End
  <2>2. found.code = "AuthInvalidToken"
    BY <1>5, <1>6 DEF Authenticate
  <2>3. /\ req'.step = "answered" /\ req'.answer = "AuthInvalidToken"
        /\ ShapeOfRequest(req') /\ req'.token = token /\ req'.at = req.at /\ req'.key = req.key
    BY <1>1, <2>1, <2>2 DEF ShapeOfRequest
  <2> QED BY <1>1, <1>3, <2>3
          DEF IInv, Steps, RequestShaped, WatchCurrent, InProgress, Unread, RevocationImmediate, PowersWereGranted, PowersNotLost, Accepted, Resolved,
              Answered, OK
<1>7. CASE found.code = Continue
  <2> DEFINE p == found.principal
             step == IF found.groupIDs = {} THEN "resolved" ELSE "groups"
  <2>1. req' = [req EXCEPT !.p = p, !.groupIDs = found.groupIDs, !.step = step]
    BY <1>7 DEF ReadSubject, Resolve
  <2>2. Live(fsm, account)
    BY <1>5, <1>7 DEF Authenticate, Live, Continue
  <2>3. /\ account.service =>
             /\ found.groupIDs = {} /\ account.id \in DOMAIN fsm.applicationCredentials
             /\ p = ServicePrincipal(fsm, account.id)
        /\ ~account.service =>
             /\ found.groupIDs = fsm.users[account.id].groupIDs
             /\ p = Principal(account.id)
    <3> HIDE DEF found, account
    <3> QED BY <1>5, <2>2, Authenticated DEF Live
  <2>4. /\ ShapeOfPrincipal(p) /\ p.id = account.id
        /\ account.service => p.isService = TRUE
        /\ ~account.service => p.isService = FALSE
    <3>1. CASE account.service
      <4>1. p = ServicePrincipal(fsm, account.id)
        BY <2>3, <3>1
      <4> HIDE DEF found, account
      <4> QED BY <3>1, <4>1, PrincipalShape DEF ServicePrincipal
    <3>2. CASE ~account.service
      <4>1. p = Principal(account.id)
        BY <2>3, <3>2
      <4> HIDE DEF found, account
      <4> QED BY <3>2, <4>1, PrincipalShape DEF Principal
    <3> QED BY <3>1, <3>2
  <2>5. /\ ShapeOfRequest(req') /\ req'.step = step /\ req'.p = p
        /\ req'.groupIDs = found.groupIDs
        /\ req'.token = token /\ req'.at = req.at /\ req'.key = req.key
        /\ req'.watch = req.watch
    BY <1>1, <2>1, <2>4 DEF ShapeOfRequest
  <2>6. req.watch.live /\ Sources(fsm, account) \subseteq req.watch.sources
    BY <1>1, <2>2 DEF Includes
  <2>7. \A power \in Powers(p) :
           \E source \in req.watch.sources : <<source, power>> \in req.watch.grants
    <3>1. CASE ~account.service
      BY <2>3, <3>1 DEF Powers, PowersOf, Principal
    <3>2. CASE account.service
      <4>1. Powers(p) = CredentialPowers(fsm, account.id)
        BY <2>3, <3>2 DEF Powers, CredentialPowers, ServicePrincipal
      <4>2. <<"credential", account.id>> \in req.watch.sources
        BY <2>2, <2>6, <3>2 DEF Sources
      <4>3. \A power \in Powers(p) : <<<<"credential", account.id>>, power>> \in req.watch.grants
        BY <1>1, <2>3, <3>2, <4>1, PowersAreGrants DEF Includes
      <4> QED BY <4>2, <4>3
    <3> QED BY <3>1, <3>2
  <2>8. \A grant \in req.watch.steady :
           \/ grant[2] \in Powers(p)
           \/ ~account.service /\ \E groupID \in found.groupIDs : grant[1] = <<"group", groupID>>
    <3> SUFFICES ASSUME NEW grant \in req.watch.steady
                 PROVE  \/ grant[2] \in Powers(p)
                        \/ /\ ~account.service
                           /\ \E groupID \in found.groupIDs : grant[1] = <<"group", groupID>>
      OBVIOUS
    <3>1. grant \in Held(fsm, account)
      BY <1>1 DEF Includes
    <3>2. CASE account.service
      <4>1. Powers(p) = CredentialPowers(fsm, account.id)
        BY <2>3, <3>2 DEF Powers, CredentialPowers, ServicePrincipal
      <4> QED BY <3>1, <3>2, <4>1, HeldFrom
    <3>3. CASE ~account.service
      BY <2>3, <3>1, <3>3, HeldFrom
    <3> QED BY <3>2, <3>3
  <2>9. step = "groups" => ~account.service
    BY <2>3
  <2>10. \A groupID \in found.groupIDs : <<"group", groupID>> \in req.watch.sources
    BY <2>2, <2>3, <2>6 DEF Sources
  <2>11. Steps' /\ RequestShaped' /\ WatchCurrent'
    BY <1>1, <1>2, <2>5 DEF Steps, RequestShaped, WatchCurrent, InProgress, Includes
  <2>12. Unread'
    BY <1>4, <2>5, <2>8, <2>9, <2>10 DEF Unread
  <2>13. RevocationImmediate'
    <3>1. p.isService = account.service
      <4>1. account.service \in BOOLEAN
        BY <1>1, <1>4 DEF Issued
      <4> HIDE DEF found, account
      <4> QED BY <2>4, <4>1
    <3> QED BY <1>1, <1>4, <2>4, <2>5, <2>6, <3>1 DEF RevocationImmediate, Issued
  <2>14. PowersWereGranted'
    BY <2>5, <2>7 DEF PowersWereGranted
  <2>15. PowersNotLost'
    <3>1. Resolved' => found.groupIDs = {}
      BY <2>5 DEF Resolved, Answered
    <3> QED BY <2>5, <2>8, <3>1 DEF PowersNotLost
  <2> QED BY <1>3, <2>11, <2>12, <2>13, <2>14, <2>15 DEF IInv
<1> QED BY <1>6, <1>7

\* One group read: what it grants is added to the powers and is in the history,
\* and what was held throughout is not looked for there any more.
LEMMA ReadGroupStep ==
    ASSUME IInv, ReadGroup
    PROVE  IInv'
<1> DEFINE token == req.token
           account == AccountOf(token)
<1>1. /\ req.step = "groups" /\ ShapeOfRequest(req) /\ Issued(token)
      /\ Includes(req.watch, fsm, token)
      /\ req.at < token.exp /\ token.key = req.key
  BY DEF ReadGroup, IInv, RequestShaped, WatchCurrent, InProgress
<1>2. UNCHANGED <<fsm, tokens, login>>
  BY DEF ReadGroup, store
<1>3. TokensIssued' /\ Signing'
  BY <1>2 DEF IInv, TokensIssued, Issued, Signing
<1>4. account.id = token.sub /\ account.service = token.service /\ ~account.service
  BY <1>1 DEF AccountOf, Issued, IInv, Unread
<1>5. PICK groupID \in req.groupIDs :
        Resolve(WithGroup(fsm, req.p, groupID),
                GroupsAfter(fsm, WithGroup(fsm, req.p, groupID), req.groupIDs, groupID))
  BY DEF ReadGroup
<1> DEFINE p == WithGroup(fsm, req.p, groupID)
           left == GroupsAfter(fsm, p, req.groupIDs, groupID)
           step == IF left = {} THEN "resolved" ELSE "groups"
           granted == IF groupID \in DOMAIN fsm.groups THEN GroupPowers(fsm, groupID) ELSE {}
<1>6. /\ ShapeOfPrincipal(p) /\ p.id = req.p.id /\ p.isService = req.p.isService
      /\ Powers(p) \subseteq Powers(req.p) \cup granted
      /\ p.isAdmin \/ Powers(req.p) \cup granted \subseteq Powers(p)
  BY <1>1, GroupAddsItsPowers DEF ShapeOfRequest
<1>7. /\ p.isAdmin => left = {}
      /\ ~p.isAdmin => left = req.groupIDs \ {groupID}
  BY DEF GroupsAfter
<1> HIDE DEF p, left
<1>8. req' = [req EXCEPT !.p = p, !.groupIDs = left, !.step = step]
  BY <1>5 DEF Resolve, p, left
<1>9. /\ ShapeOfRequest(req') /\ req'.step = step /\ req'.p = p /\ req'.groupIDs = left
      /\ req'.token = token /\ req'.at = req.at /\ req'.key = req.key
      /\ req'.watch = req.watch
  BY <1>1, <1>6, <1>8 DEF ShapeOfRequest
<1>10. Steps' /\ RequestShaped' /\ WatchCurrent'
  BY <1>1, <1>2, <1>9 DEF Steps, RequestShaped, WatchCurrent, InProgress, Includes
<1>11. /\ <<"group", groupID>> \in req.watch.sources
       /\ \A other \in left : <<"group", other>> \in req.watch.sources
  BY <1>1, <1>7 DEF IInv, Unread
<1>12. PowersWereGranted'
  <2> SUFFICES ASSUME NEW power \in Powers(p)
               PROVE  \E source \in req.watch.sources : <<source, power>> \in req.watch.grants
    BY <1>9 DEF PowersWereGranted
  <2>1. CASE power \in Powers(req.p)
    BY <1>1, <2>1 DEF IInv, PowersWereGranted, Accepted
  <2>2. CASE power \in granted
    <3>1. groupID \in DOMAIN fsm.groups /\ power \in GroupPowers(fsm, groupID)
      BY <2>2
    <3>2. <<<<"group", groupID>>, power>> \in Grants(fsm)
      BY <3>1 DEF Grants, GroupGrants
    <3> QED BY <1>1, <1>11, <3>2 DEF Includes
  <2> QED BY <1>6, <2>1, <2>2
<1>13. p.isAdmin \/ \A grant \in req.watch.steady :
          \/ grant[2] \in Powers(p)
          \/ \E other \in left : grant[1] = <<"group", other>>
  <2> SUFFICES ASSUME ~p.isAdmin, NEW grant \in req.watch.steady,
                      ~ \E other \in left : grant[1] = <<"group", other>>
               PROVE  grant[2] \in Powers(p)
    OBVIOUS
  <2>1. Powers(req.p) \cup granted \subseteq Powers(p) /\ left = req.groupIDs \ {groupID}
    BY <1>6, <1>7
  <2>2. grant[2] \in Powers(req.p) \/ grant[1] = <<"group", groupID>>
    BY <1>1, <2>1 DEF IInv, Unread
  <2>3. CASE grant[1] = <<"group", groupID>>
    <3>1. grant \in Held(fsm, account)
      BY <1>1 DEF Includes
    <3>2. groupID \in DOMAIN fsm.groups /\ grant[2] \in GroupPowers(fsm, groupID)
      BY <1>4, <2>3, <3>1, HeldFrom
    <3> QED BY <2>1, <3>2
  <2> QED BY <2>1, <2>2, <2>3
<1>14. Unread'
  <2> SUFFICES ASSUME step = "groups"
               PROVE  \A grant \in req.watch.steady :
                         \/ grant[2] \in Powers(p)
                         \/ \E other \in left : grant[1] = <<"group", other>>
    BY <1>4, <1>9, <1>11 DEF Unread
  <2>1. ~p.isAdmin
    BY <1>7
  <2> QED BY <1>13, <2>1
<1>15. PowersNotLost'
  <2>1. Resolved' => left = {}
    BY <1>9 DEF Resolved, Answered
  <2> QED BY <1>9, <1>13, <2>1 DEF PowersNotLost
<1>16. RevocationImmediate'
  BY <1>1, <1>6, <1>9 DEF IInv, RevocationImmediate, Accepted
<1> QED BY <1>3, <1>10, <1>12, <1>14, <1>15, <1>16 DEF IInv

LEMMA meHandlerStep ==
    ASSUME IInv, meHandler
    PROVE  IInv'
<1> DEFINE shown == {id \in DOMAIN fsm.environments : hasEnvironmentAccess(req.p, id)}
<1>1. req.step = "resolved" /\ ShapeOfRequest(req)
  BY DEF meHandler, IInv, RequestShaped
<1>2. TokensIssued' /\ Signing'
  BY DEF meHandler, store, IInv, TokensIssued, Issued, Signing
<1> HIDE DEF shown
<1>3. req' = [req EXCEPT !.step = "answered", !.answer = OK, !.shown = shown]
  BY DEF meHandler, End, shown
<1>4. /\ ShapeOfRequest(req') /\ req'.step = "answered" /\ req'.p = req.p
      /\ req'.token = req.token /\ req'.at = req.at /\ req'.key = req.key
      /\ req'.watch = req.watch
  BY <1>1, <1>3 DEF ShapeOfRequest
<1> QED BY <1>1, <1>2, <1>4
        DEF IInv, Steps, RequestShaped, WatchCurrent, InProgress, Unread, RevocationImmediate, PowersWereGranted, PowersNotLost, Accepted, Resolved

\* Whatever the command does, the history grows to include it, and what was
\* held throughout shrinks.
LEMMA ChangeStep ==
    ASSUME IInv, Change
    PROVE  IInv'
<1>1. UNCHANGED <<tokens, login>>
  BY DEF Change
<1>2. TokensIssued' /\ Signing'
  BY <1>1 DEF IInv, TokensIssued, Issued, Signing
<1>3. CASE ~InProgress
  <2>1. req' = req
    BY <1>3 DEF Change
  <2> QED BY <1>2, <1>3, <2>1
          DEF IInv, Steps, RequestShaped, WatchCurrent, InProgress, Unread, RevocationImmediate, PowersWereGranted, PowersNotLost, Accepted, Resolved, Answered
<1>4. CASE InProgress
  <2> DEFINE w == Watched(req.watch, fsm', req.token)
  <2>1. ShapeOfRequest(req) /\ req.step # "answered" /\ req.step # "idle"
    BY <1>4 DEF IInv, RequestShaped, InProgress
  <2>2. /\ Includes(w, fsm', req.token)
        /\ req.watch.live => w.live
        /\ req.watch.sources \subseteq w.sources
        /\ req.watch.grants \subseteq w.grants
        /\ w.steady \subseteq req.watch.steady
    BY DEF Includes, Watched, Watch
  <2> HIDE DEF w
  <2>3. req' = [req EXCEPT !.watch = w]
    BY <1>4 DEF Change, w
  <2>4. /\ ShapeOfRequest(req') /\ req'.step = req.step /\ req'.p = req.p
        /\ req'.token = req.token /\ req'.at = req.at /\ req'.key = req.key
        /\ req'.groupIDs = req.groupIDs /\ req'.watch = w
    BY <2>1, <2>3 DEF ShapeOfRequest
  <2>5. Steps' /\ RequestShaped' /\ WatchCurrent'
    BY <2>1, <2>2, <2>4 DEF IInv, Steps, RequestShaped, WatchCurrent
  <2>6. Unread' /\ RevocationImmediate'
    BY <2>1, <2>2, <2>4
       DEF IInv, Unread, RevocationImmediate, Accepted, Resolved, Answered
  <2>7. PowersWereGranted' /\ PowersNotLost'
    BY <2>1, <2>2, <2>4 DEF IInv, PowersWereGranted, PowersNotLost, Accepted, Resolved, Answered
  <2> QED BY <1>2, <2>5, <2>6, <2>7 DEF IInv
<1> QED BY <1>3, <1>4

LEMMA RestartStep ==
    ASSUME IInv, Restart
    PROVE  IInv'
<1>1. req' = NoRequest /\ login' = NoLogin /\ tokens' = tokens
  BY DEF Restart
<1> QED BY <1>1
        DEF IInv, NoRequest, NoLogin, Steps, TokensIssued, Issued, Signing, RequestShaped,
            WatchCurrent, InProgress, Unread, RevocationImmediate,
            PowersWereGranted, PowersNotLost, Accepted, Resolved, Answered

LEMMA NextIInv == IInv /\ [Next]_vars => IInv'
<1> SUFFICES ASSUME IInv, [Next]_vars
             PROVE  IInv'
  OBVIOUS
<1>1. CASE loginHandler \/ oauthTokenHandler
  BY <1>1, CredentialSteps
<1>2. CASE Sign
  BY <1>2, SignStep
<1>3. CASE Arrive
  BY <1>3, ArriveStep
<1>4. CASE ReadSubject
  BY <1>4, ReadSubjectStep
<1>5. CASE ReadGroup
  BY <1>5, ReadGroupStep
<1>6. CASE meHandler
  BY <1>6, meHandlerStep
<1>7. CASE Change
  BY <1>7, ChangeStep
<1>8. CASE Restart
  BY <1>8, RestartStep
<1>9. CASE Tick \/ UNCHANGED vars
  <2>1. UNCHANGED <<fsm, req, tokens, login>>
    BY <1>9 DEF Tick, vars, store
  <2>2. TokensIssued' /\ Signing'
    BY <2>1 DEF IInv, TokensIssued, Issued, Signing
  <2> QED BY <2>1, <2>2, OtherSteps
<1> QED BY <1>1, <1>2, <1>3, <1>4, <1>5, <1>6, <1>7, <1>8, <1>9 DEF Next

----------------------------------------------------------------------------
(* The theorems *)

\* In every reachable state, for every set of accounts, commands and secrets.
THEOREM Invariance == Spec => []IInv
BY InitIInv, NextIInv, PTL DEF Spec

\* Nobody is let in who was inactive from the arrival of the request on, nor as
\* another account than the one the token was issued for.
THEOREM RevocationIsImmediate == Spec => []RevocationImmediate
<1>1. IInv => RevocationImmediate
  BY DEF IInv
<1> QED BY <1>1, Invariance, PTL

\* A token lets nobody in after its lifetime, or under another secret.
THEOREM TokenLivesBounded == Spec => []TokenLifeBounded
<1>1. IInv => TokenLifeBounded
  BY DEF IInv, RequestShaped, Issued, TokenLifeBounded, Accepted, Resolved, Answered
<1> QED BY <1>1, Invariance, PTL

\* Groups that change between the reads give nobody a power that no group of
\* theirs granted meanwhile.
THEOREM PowersAlwaysGranted == Spec => []PowersWereGranted
<1>1. IInv => PowersWereGranted
  BY DEF IInv
<1> QED BY <1>1, Invariance, PTL

\* Nor take away one that was held throughout.
THEOREM PowersNeverLost == Spec => []PowersNotLost
<1>1. IInv => PowersNotLost
  BY DEF IInv
<1> QED BY <1>1, Invariance, PTL

\* What /api/auth/me shows existed when it was read and had been granted, and
\* nothing is left out that the account held throughout.
THEOREM MeAlwaysShowsTheHeld == Spec => MeShowsTheHeld
<1> DEFINE Shows ==
        req.step = "resolved" /\ req'.step = "answered" =>
            /\ \A id \in req'.shown :
                 /\ id \in DOMAIN fsm.environments
                 /\ \E grant \in req.watch.grants :
                      grant[1] \in req.watch.sources
                      /\ grant[2] \in {<<"environment", id>>, Everything}
            /\ \A grant \in req.watch.steady, id \in DOMAIN fsm.environments :
                 grant[2] \in {<<"environment", id>>, Everything} => id \in req'.shown
<1>1. ASSUME IInv, [Next]_vars, req.step = "resolved", req'.step = "answered"
      PROVE  Shows
  <2>1. meHandler
    <3>1. ~Arrive /\ ~ReadSubject /\ ~ReadGroup
      BY <1>1 DEF Arrive, ReadSubject, ReadGroup
    <3>2. req' # req
      BY <1>1
    <3>3. ~(loginHandler \/ oauthTokenHandler \/ Sign \/ Tick \/ UNCHANGED vars)
      BY <3>2 DEF loginHandler, oauthTokenHandler, Sign, Tick, vars
    <3>4. ~Restart
      BY <1>1 DEF Restart, NoRequest
    <3>5. ~Change
      <4>1. ASSUME NEW watch PROVE [req EXCEPT !.watch = watch].step = req.step
        BY <1>1 DEF IInv, RequestShaped, ShapeOfRequest
      <4>2. SUFFICES ASSUME Change PROVE req'.step = req.step
        BY <1>1
      <4> QED BY <4>1, <4>2 DEF Change
    <3> QED BY <1>1, <3>1, <3>3, <3>4, <3>5 DEF Next
  <2> DEFINE all == {id \in DOMAIN fsm.environments : hasEnvironmentAccess(req.p, id)}
  <2>2. req'.shown = all
    <3> HIDE DEF all
    <3>1. req' = [req EXCEPT !.step = "answered", !.answer = OK, !.shown = all]
      BY <2>1 DEF meHandler, End, all
    <3> QED BY <1>1, <3>1 DEF IInv, RequestShaped, ShapeOfRequest
  <2>3. Accepted /\ Resolved
    BY <1>1 DEF Accepted, Resolved
  <2>4. /\ req.p.isAdmin => Everything \in Powers(req.p)
        /\ \A id \in req.p.envs : <<"environment", id>> \in Powers(req.p)
    BY DEF Powers, PowersOf
  <2>5. ASSUME NEW id \in req'.shown
        PROVE  /\ id \in DOMAIN fsm.environments
               /\ \E grant \in req.watch.grants :
                    grant[1] \in req.watch.sources
                    /\ grant[2] \in {<<"environment", id>>, Everything}
    <3>1. \E power \in {<<"environment", id>>, Everything} : power \in Powers(req.p)
      BY <2>2, <2>4, <2>5 DEF hasEnvironmentAccess
    <3>2. PICK power \in {<<"environment", id>>, Everything}, source \in req.watch.sources :
            <<source, power>> \in req.watch.grants
      BY <1>1, <2>3, <3>1 DEF IInv, PowersWereGranted
    <3>3. <<source, power>>[1] = source /\ <<source, power>>[2] = power
      OBVIOUS
    <3> QED BY <2>2, <2>5, <3>2, <3>3
  <2>6. ASSUME NEW grant \in req.watch.steady, NEW id \in DOMAIN fsm.environments,
               grant[2] \in {<<"environment", id>>, Everything}
        PROVE  id \in req'.shown
    <3>1. req.p.isAdmin \/ grant[2] \in Powers(req.p)
      BY <1>1, <2>3 DEF IInv, PowersNotLost
    <3>2. req.p.isAdmin \/ id \in req.p.envs
      BY <2>6, <3>1 DEF Powers, PowersOf, Everything
    <3> QED BY <2>2, <3>2 DEF hasEnvironmentAccess
  <2> QED BY <2>5, <2>6
<1>2. IInv /\ [Next]_vars => [Shows]_vars
  BY <1>1
<1> QED BY <1>2, Invariance, PTL DEF Spec, MeShowsTheHeld
=============================================================================
