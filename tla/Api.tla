-------------------------------- MODULE Api --------------------------------
(***************************************************************************)
(* Concurrent HTTP requests on the mutating routes, from authentication to *)
(* the audited answer: requirePermission, withAudit and the handlers, each *)
(* read of the store a step of its own, over the shared maps.  The store   *)
(* applies one command at a time; it may also fail, having applied the     *)
(* command or not (RaftNode shows when), and the process may crash.        *)
(***************************************************************************)
EXTENDS Handlers

CONSTANTS
    Handler,        \* the goroutines that serve requests
    Request,        \* the requests clients make, their number still 0
    Subject,        \* whose tokens they carry: [service, id]
    Setup,          \* the commands applied before the first request
    MaxRequest,     \* bounds on requests
    MaxFault        \* and on failures of the store and crashes

\* The mux hands over requests on its routes only.
ASSUME RequestAssumption ==
    \A request \in Request :
        /\ {"entity", "method", "number"} \subseteq DOMAIN request
        /\ ActionOf(request) \in Route
 \* Only withAudit writes to the trail; Environment.Order is never negative.
ASSUME SetupAssumption ==
    /\ Setup \in Seq({Setup[i] : i \in DOMAIN Setup})
    /\ \A i \in DOMAIN Setup :
         /\ Setup[i].entity # "audit"
         /\ Setup[i].entity = "environment" /\ Setup[i].op = "set" =>
              /\ {"order", "version"} \subseteq DOMAIN Setup[i].environment
              /\ Setup[i].environment.order \in Nat

VARIABLES
    fsm,            \* the maps
    index,          \* the last log index applied
    req,            \* what each handler is doing
    requests,       \* how many requests have arrived
    faults,
    \* History, read by no action
    accepted,       \* request number -> index of its accepted command
    answers         \* request number -> the code its client was answered with, and
                    \* whether requirePermission had let the request in

vars == <<fsm, index, req, requests, faults, accepted, answers>>

\* What a handler knows of its request: the token's subject, the groups still
\* to be read, the principal, the records read, the command, the IDs still to be
\* looked up and the outcome; since is history, the index its request arrived at.
Serving(q, subject) ==
    [step |-> "authenticate", q |-> q, subject |-> subject, groupIDs |-> {},
     p |-> Principal(subject.id), before |-> NoRecord, existing |-> NoRecord,
     cmd |-> NoCommand, ids |-> {}, code |-> OK, since |-> index]
Idle == [step |-> "idle"]

SetUp ==
    LET at[i \in 0..Len(Setup)] ==
            IF i = 0 THEN newFSM ELSE Apply(at[i - 1], i, Setup[i]).state
    IN  at[Len(Setup)]

Init ==
    /\ fsm = SetUp /\ index = Len(Setup)
    /\ req = [h \in Handler |-> Idle]
    /\ requests = 0 /\ faults = 0
    /\ accepted = EmptyMap /\ answers = EmptyMap

history == <<accepted, answers>>
Reading == UNCHANGED <<fsm, index, requests, faults, accepted>>
Step(h, step) == req[h].step = step
Move(h, r) == req' = [req EXCEPT ![h] = r]
Respond(h, letIn, code) ==
    /\ Move(h, Idle)
    /\ answers' = Put(answers, req[h].q.number, [letIn |-> letIn, code |-> code])

----------------------------------------------------------------------------
(* requirePermission *)

Arrive(h) ==
    /\ Step(h, "idle") /\ requests < MaxRequest
    /\ requests' = requests + 1
    /\ \E request \in Request, subject \in Subject :
         Move(h, Serving([request EXCEPT !.number = requests'], subject))
    /\ UNCHANGED <<fsm, index, faults, history>>

\* The first step of withAudit: POST routes have no record to look up.
Entry(q) == IF q.method = "POST" THEN "decide" ELSE "before"
\* Once the principal is resolved the permission decides.
Gate(h, p, groupIDs) ==
    IF groupIDs # {} /\ ~p.isAdmin
    THEN /\ Move(h, [req[h] EXCEPT !.step = "groups", !.p = p, !.groupIDs = groupIDs])
         /\ UNCHANGED answers
    ELSE IF ~Permitted(p, req[h].q) THEN Respond(h, FALSE, "AuthForbidden")
    ELSE /\ Move(h, [req[h] EXCEPT !.p = p, !.groupIDs = {}, !.step = Entry(req[h].q)])
         /\ UNCHANGED answers

ReadSubject(h) ==
    /\ Step(h, "authenticate")
    /\ LET read == Authenticate(fsm, req[h].subject) IN
       IF read.code = Continue THEN Gate(h, read.principal, read.groupIDs)
       ELSE Respond(h, FALSE, read.code)
    /\ Reading

ReadGroup(h) ==
    /\ Step(h, "groups")
    /\ \E groupID \in req[h].groupIDs :
         Gate(h, WithGroup(fsm, req[h].p, groupID), req[h].groupIDs \ {groupID})
    /\ Reading

----------------------------------------------------------------------------
(* withAudit and the handler *)

ToAudit(h, code) == Move(h, [req[h] EXCEPT !.step = "audit", !.code = code])

\* The body is too large, or ends early: the handler does not run.
BodyUnreadable(h) ==
    /\ req[h] # Idle /\ Step(h, Entry(req[h].q))
    /\ \E code \in {"PayloadTooLarge", "BadRequestBody"} : ToAudit(h, code)
    /\ UNCHANGED answers /\ Reading

ReadBefore(h) ==
    /\ Step(h, "before")
    /\ Move(h, [req[h] EXCEPT !.step = "existing", !.before = Before(fsm, req[h].q)])
    /\ UNCHANGED answers /\ Reading

ReadExisting(h) ==
    /\ Step(h, "existing")
    /\ LET read == Existing(fsm, req[h].p, req[h].q) IN
       IF read.code = Continue
       THEN Move(h, [req[h] EXCEPT !.step = "decide", !.existing = read.existing])
       ELSE ToAudit(h, read.code)
    /\ UNCHANGED answers /\ Reading

\* ids are still to be looked up for the command cmd.
ToWrite(h, cmd, ids) ==
    Move(h, [req[h] EXCEPT !.cmd = cmd, !.ids = ids,
                           !.step = IF ids = {} THEN "precheck" ELSE "lookup"])

DecideWrite(h) ==
    /\ Step(h, "decide")
    /\ LET decision == Decide(fsm, req[h].p, req[h].q, req[h].existing) IN
       IF decision.code = Continue
       THEN ToWrite(h, decision.cmd, LookUps(req[h].q, req[h].existing))
       ELSE ToAudit(h, decision.code)
    /\ UNCHANGED answers /\ Reading

\* In any order, as clients list them in any order.
LookUp(h) ==
    /\ Step(h, "lookup")
    /\ \E id \in req[h].ids :
         LET error == LookUpError(fsm, req[h].p, req[h].q, id) IN
         IF error = OK THEN ToWrite(h, req[h].cmd, req[h].ids \ {id})
         ELSE ToAudit(h, error)
    /\ UNCHANGED answers /\ Reading

RepositoryCheck(h) ==
    /\ Step(h, "precheck")
    /\ LET err == Precheck(fsm, req[h].cmd) IN
       IF err = OK THEN Move(h, [req[h] EXCEPT !.step = "submit"])
       ELSE ToAudit(h, CodeOf(err))
    /\ UNCHANGED answers /\ Reading

\* The command takes the next place in the log.
Applied(h) ==
    LET result == Apply(fsm, index + 1, req[h].cmd) IN
    /\ index' = index + 1
    /\ fsm' = result.state
    /\ accepted' = IF result.err = OK THEN Put(accepted, req[h].q.number, index')
                   ELSE accepted

SubmitCommand(h) ==
    /\ Step(h, "submit")
    /\ Applied(h)
    /\ ToAudit(h, CodeOf(Apply(fsm, index + 1, req[h].cmd).err))
    /\ UNCHANGED <<requests, faults, answers>>

\* Store.apply fails: not submitted, or stored and applied all the same.
SubmitFails_Unchecked(h) ==
    /\ Step(h, "submit") /\ faults < MaxFault
    /\ faults' = faults + 1
    /\ Applied(h) \/ UNCHANGED <<fsm, index, accepted>>
    /\ ToAudit(h, OK)
    /\ UNCHANGED <<requests, answers>>
SubmitFails(h) ==
    /\ Step(h, "submit") /\ faults < MaxFault
    /\ faults' = faults + 1
    /\ Applied(h) \/ UNCHANGED <<fsm, index, accepted>>
    /\ ToAudit(h, "InternalGeneric")
    /\ UNCHANGED <<requests, answers>>

----------------------------------------------------------------------------
(* recordAudit *)

\* The entry; request stands for its timestamp and bodies, which tell two
\* entries apart.
EntryFor(r) ==
    [id |-> 0, request |-> r.q.number, actorID |-> r.p.id, isService |-> r.p.isService,
     action |-> ActionOf(r.q), target |-> TargetOf(r.q, r.code), before |-> r.before,
     success |-> r.code = OK, code |-> r.code]

AppendEntry(entry) ==
    /\ index' = index + 1
    /\ fsm' = Apply(fsm, index', [entity |-> "audit", op |-> "append", audit |-> entry]).state

RecordAudit_OnlySuccess(h) ==
    /\ Step(h, "audit")
    /\ IF req[h].code = OK THEN AppendEntry(EntryFor(req[h])) ELSE UNCHANGED <<fsm, index>>
    /\ Respond(h, TRUE, req[h].code)
    /\ UNCHANGED <<requests, faults, accepted>>
RecordAudit(h) ==
    /\ Step(h, "audit")
    /\ AppendEntry(EntryFor(req[h]))
    /\ Respond(h, TRUE, req[h].code)
    /\ UNCHANGED <<requests, faults, accepted>>

\* The append fails, stored or not: the handler's answer is replaced.
RecordAuditFails(h) ==
    /\ Step(h, "audit") /\ faults < MaxFault
    /\ faults' = faults + 1
    /\ AppendEntry(EntryFor(req[h])) \/ UNCHANGED <<fsm, index>>
    /\ Respond(h, TRUE, "InternalAuditFailed")
    /\ UNCHANGED <<requests, accepted>>

\* The process dies and is started again: what the log holds is kept, the
\* requests being served are never answered.
Crash ==
    /\ faults < MaxFault
    /\ faults' = faults + 1
    /\ req' = [h \in Handler |-> Idle]
    /\ UNCHANGED <<fsm, index, requests, history>>

Next ==
    \/ \E h \in Handler :
         \/ Arrive(h) \/ ReadSubject(h) \/ ReadGroup(h)
         \/ BodyUnreadable(h) \/ ReadBefore(h) \/ ReadExisting(h)
         \/ DecideWrite(h) \/ LookUp(h) \/ RepositoryCheck(h)
         \/ SubmitCommand(h) \/ SubmitFails(h)
         \/ RecordAudit(h) \/ RecordAuditFails(h)
    \/ Crash

Spec == Init /\ [][Next]_vars

----------------------------------------------------------------------------
(* Properties *)

Entries == {fsm.auditEntries[id] : id \in DOMAIN fsm.auditEntries}
Audited(number) == \E entry \in Entries : entry.request = number
InFlight == {req[h].q.number : h \in {g \in Handler : req[g] # Idle}}

\* "every invocation -- success or rejection -- is durably recorded ... before
\* the response reaches the client" (withAudit): the answer to a request that
\* requirePermission let in, a handler's own 403 and a body that cannot be read
\* included, is in the trail with its code, unless it says that the trail failed.
AuditedBeforeAnswer ==
    \A number \in DOMAIN answers :
        LET answer == answers[number] IN
        answer.letIn /\ answer.code # "InternalAuditFailed" =>
            \E entry \in Entries :
                entry.request = number /\ entry.code = answer.code
                /\ (entry.success <=> answer.code = OK)

\* The trail never claims more than was done: an entry that says success is
\* of a mutation that was accepted, and comes after it in the log.
TrailTellsNoMore ==
    \A entry \in Entries : entry.success =>
        entry.request \in DOMAIN accepted /\ accepted[entry.request] < entry.id

\* The trail tells everything: when no failure interfered, each accepted
\* mutation whose request is over has its one entry, marked as a success.
TrailTellsAll ==
    faults = 0 => \A number \in DOMAIN accepted \ InFlight :
        Cardinality({entry \in Entries : entry.request = number /\ entry.success}) = 1

Submitting(h, entity, method) ==
    /\ Step(h, "submit") /\ req'[h] # req[h]
    /\ ActionOf(req[h].q) = <<entity, method>>

\* Nobody becomes a member of the Admin group but by a request of an Admin,
\* however stale the record the request was computed from
\* (requireAdminForAdminGroupChange looks at the old groups and the new).
AdminMember(s, id) == id \in DOMAIN s.users /\ AdminGroupID \in s.users[id].groupIDs
AdminGrantedByAdmin ==
    [][\A id \in DOMAIN fsm'.users :
         AdminMember(fsm', id) /\ ~AdminMember(fsm, id) =>
             \E h \in Handler : req[h] # req'[h] /\ Step(h, "submit") /\ req[h].p.isAdmin]_vars

\* "a new environment always sequences after every existing one"
\* (environments.go:90), for the ones that were there before the request and
\* that nobody has touched since.
OrdersFollow ==
    [][\A h \in Handler, id \in DOMAIN fsm'.environments \ DOMAIN fsm.environments :
         Submitting(h, "environment", "POST") =>
             \A other \in DOMAIN fsm.environments :
                 fsm.environments[other].version <= req[h].since =>
                     fsm.environments[other].order < fsm'.environments[id].order]_vars

(* What comments of the repository say and the code does not do            *)

\* environments.go:91, on what must not happen: "two environments share an
\* Order".
OrdersDistinct ==
    \A i, j \in DOMAIN fsm.environments :
        fsm.environments[i].order = fsm.environments[j].order => i = j

\* application_credentials.go:263 "PUT never changes the secret": an update
\* leaves the credential with the secret it has, as rotated last.
PutKeepsSecret ==
    [][\A h \in Handler : Submitting(h, "applicationCredential", "PUT") =>
         LET id == req[h].q.id IN
         id \in DOMAIN fsm.applicationCredentials /\ id \in DOMAIN fsm'.applicationCredentials =>
             fsm'.applicationCredentials[id].clientSecretHash
               = fsm.applicationCredentials[id].clientSecretHash]_vars
=============================================================================
