# Aerendil in TLA+

Aerendil is a feature-flag server: a Go backend that keeps flags, segments,
users, groups, environments, application credentials and an audit trail in maps
replicated through Raft (hashicorp/raft), an HTTP API over them, a TCP listener
for the FQDP protocol, and a SvelteKit UI. This directory models the part of it
that decides what is stored and who is told what: the state machine, the node
around it, the HTTP requests that change it, the tokens they carry, the lists
readers page through, and the FQDP listener.

Run a model with `tlc -config MCStoreScoped.cfg MCStore`, check the proofs with
`tlapm StoreProofs.tla` (also `Induction`, `ApplyProofs`, `RaftNodeProofs`,
`ApiProofs`, `AuthProofs`, `ListingProofs`, `FqdpProofs`). `PROJECT.json` lists
every run and theorem, which source lines each definition translates, the hazards
the properties are aimed at, and for each property a mistake in the code that
would break it.

## 1. Inventory

| Part | Source (`src/`) | State | Operations | What makes it correct |
|---|---|---|---|---|
| State machine | `backend/internal/store/fsm.go` and one file per entity | seven maps | `Apply` of set, setBatch, delete, append; `Snapshot`, `Restore` | nothing orphaned; unique usernames; an active admin and the Admin group stay; a refusal changes nothing; a snapshot can be restored |
| Raft node, store | `store/store.go`, `cluster.go` | log, snapshots, leadership, call futures | `Open`, `Store.apply`, `Close` | readers see prefixes of the log; acknowledged means durable; every call is answered |
| Seeding | `auth/bootstrap.go` | none; reads and writes the store | `SeedAdminGroupAndUser` | ends; creates what is missing; touches nothing else |
| Server process | `cmd/server/main.go` | the phase of `run` | open, seed, serve, shut down | whoever is served can be administered |
| Handlers | `api/users.go`, `groups.go`, `environments.go`, `flags.go`, `application_credentials.go` | per request | 17 mutating routes, and reads | privileges and scopes change only as the rules say, whatever interleaves |
| Middleware | `api/middleware.go`, `audit_middleware.go`, `auth/permissions.go` | per request | `requirePermission`, `withAudit` | the trail tells all that was done, and no more, before the client hears of it |
| Authentication | `auth/service.go`, `api/auth.go`, `oauth_token.go` | none (signed tokens) | login, grant, issue, parse, resolve | a token is worth what its live subject is worth, while that is resolved, and until it expires |
| Listing | `api/audits.go`, `pagination.go`, the collection routes | none; a client holds a cursor | filter, page by entry ID or by offset | following cursors neither skips nor repeats, while the list changes |
| FQDP | `fqdp/server.go` | per connection | accept, frames, a handshake stub, stop | frames are answered in order, once; the server ends when told and not before |
| UI | `ui/src` | session cookie, selected environment | proxying with the session's token | what is shown is of the selected environment |
| Proxy | `proxy/nginx.conf` | none | routing | - |

How they interact. A request passes nginx, or the UI's server side, to a
handler. The handler reads the maps directly, taking their read lock once per
read, and writes only through `Store.apply`, which checks leadership, submits a
command to Raft and waits for the state machine's answer. `withAudit` wraps each
mutating handler: it reads the prior record before, buffers the answer, appends
the audit entry through a second command, and only then lets the answer out.
Seeding uses the same repositories before the HTTP server listens. A token carries an
account's ID; each request reads the account, then its groups one at a time. The
FQDP listener, started before seeding and stopped by the same signal as the
server, shares nothing else with the rest yet.

What is hard here: handlers are sequences of separately locked reads followed by
an upsert; leadership is looked at before it is used; a restarted node is leader
before its log is replayed, and answers reads in the meantime; a mutation and
its audit entry are two commands with a crash possible between them; snapshots
are written while commands go on; tokens and cursors outlive what they were
issued for; frames arrive in pieces; and the store's cross-entity invariants hold
only if every write path checks them. `PROJECT.json` lists these one by one, at
the line where each bites.

## 2. Modules

```
Fsm            the state machine: constant operators on a state record
 |- StoreTypes     records, inputs, commands, the predicates of the invariants
 |   |- ApplyProofs    lemmas: what one command keeps and changes
 |   |- Store        abstract store: one action per mutating repository method
 |   |   |- MCStore      instances
 |   |   `- StoreProofs  theorems about Store
 |   `- RaftNode     the process, its disk, seeding; implements Store
 |       |- MCRaftNode
 |       `- RaftNodeProofs  theorems about RaftNode, the refinement among them
 `- Handlers       what each step of a handler computes from the maps it sees
     |- Api          concurrent requests, audit, failures, crashes
     |   |- MCApi
     |   `- ApiProofs    theorems about Api
     `- Auth         logins, grants, tokens, and the requests that carry them
         |- MCAuth
         `- AuthProofs   theorems about Auth

Listing        readers that page through the trail or a collection
 |- MCListing
 `- ListingProofs    theorems about Listing

Fqdp           the accept loop, the connections, their clients
 |- MCFqdp
 `- FqdpProofs       theorem about Fqdp

Induction      induction over the natural numbers, and what it makes of iterations
```

**Fsm** is shared by everything else, so that the abstract store, the replaying
node and the handlers all run the same `Apply`. A Go map is a function, an error
a name, and each `apply...` operator lists the refusals in the order of the code.
`applyFlag` and the others return the new state and the answer. `Snapshot`,
`Decode`, `RestoreError` and `Restore` model the JSON document by which keys and
fields are present, which is all `Restore` distinguishes.
An operator `X_Why` just before `X` is `X` with one plausible mistake; nothing
uses it in a run, it is what `PROJECT.json` names as the mutant of a property.

**StoreTypes** declares the records, the inputs callers may pass, with
assumptions no stronger than what the Go types and callers guarantee, and the
set of commands. The only assumption about behaviour is that system groups are
written under the Admin ID alone, which is what `auth/bootstrap.go` (the only
writer of `System: true`) does.

**Store** is what the storage layer promises: commands applied once each, in log
order. Entries Raft writes by itself only take an index.

**RaftNode** is one process and its data directory. `log`, `compacted` and
`snapshots` are on disk and survive `Crash`; everything else is lost. `phase`
follows `run()`, `role` follows Raft (with `Elected` for the window between
becoming leader and having stored the no-op), `call` is each caller's
`Store.apply`, split where the code is: check, submit, wait, return. `seed` is
the program counter of `SeedAdminGroupAndUser`. hashicorp/raft is external and
modelled from how the code uses it: `NewRaft` restores the newest usable
snapshot before it returns; log entries reach the state machine only after
election; a log store that fails makes the leader step down and answers callers
with errors while stored entries stay in the log.

**Handlers** and **Api**. `Handlers` has one operator per mutating handler, from
the maps it sees to a code or a command. `Api` runs them: `Arrive`,
`ReadSubject`, `ReadGroup` (one group per step), `ReadBefore`, `ReadExisting`,
`DecideWrite`, `LookUp` (one group or environment per step), `RepositoryCheck`,
`SubmitCommand`, `RecordAudit`, each under one taking of the lock, with any other
handler in between. `BodyUnreadable` is the answer of `withAudit` itself, which it
records like a handler's. `SubmitFails` and
`RecordAuditFails` are the failures RaftNode shows to be possible: the command
was dropped, or was applied all the same. `Crash` drops the handlers.

**Auth** uses the same `Authenticate` and `WithGroup` of `Handlers`, for one login
and one request at a time, with every change other handlers may make in between
(`Change`, one command of the state machine). `loginHandler` and
`oauthTokenHandler` read the account; `Sign` issues the token later, as the code
does. `Arrive` is `parseTokenClaims`, `ReadSubject` the lookup of the subject,
`ReadGroup` one turn of the loop over its groups, in any order (`GroupIDs` is a
list that clients order), `meHandler` the only route with a
result of its own. `Tick` moves the clock, `Restart` starts a process with the
secret its environment gives it. A token carries, besides its claims, whom it
was issued for and when, and a request (`watch`) what its account was and held
since it arrived: history, which no action reads.

**Listing** takes a sorted slice as the set of its sort keys; the index of an
element is a count. `auditsPage` has the arithmetic of `auditsGetHandler` with
IDs as cursors, `paginate` that of the offset cursors; `collectionGet` is the
list routes, which all hand a list sorted by a unique key (environments by order
and ID) to `paginate`. A reader starts a walk, follows `nextCursor` or
`prevCursor` as long as it is given one, and keeps its query. The trail only
grows (`Append`, at the next log index); collections change by `Insert` and
`Remove`, and an environment that is given another order is removed at one place
and inserted at the other.

**Fqdp** is byte-exact about lengths, over a small radix. A connection's stream is
fixed at the start; `Send` delivers any piece of it, `Read` is what `io.ReadFull`
gets in one turn, `Answer` the dispatch of a frame and the write of the Error.
`Accept`, `AcceptFails`, `CheckDone` and `CloseListener` are the loop and the
goroutine that ends it. `Close`, `Reset` and `Take`, by which it reads what was
written, are the client's. `Exit` is the end of the process, which `run()` reaches
without waiting for any of these goroutines.

Abstractions, all named: the body of a flag definition, names, colours and
hashes are opaque; a segment is its number of rules and keys and whether it uses
`inSegment`; string slices are sets; a permission is an entity and a method;
random IDs and secrets are named after the request that drew them. Reads that are
done one after the other are one step in one place of `Api`, the parts of a
repository's pre-check (`RepositoryCheck`), all of which the state machine checks
again. A body that is read but does not decode, or is refused for its wording, is
left out.

## 3. Runs

| Run | Question | States (distinct) | Time |
|---|---|---|---|
| `store_scoped` | environment-scoped records, any commands | 2,565, complete up to versions | 7 s |
| `store_records` | accounts, versions, trail | 552,059 | 29 s |
| `node_safety` | prefixes, recovery, durability | 668,479 | 52 s |
| `node_accounts` | seeding over crashes | 550,129 | 21 s |
| `node_liveness` | refinement, termination | 11,897 | 15 s |
| `api_concurrent` | audit, privileges, orders | 2,220,166 | 82 s |
| `auth` | whom a token speaks for, how long, with which powers | 1,343,532 | 80 s |
| `listing` | what following cursors shows | 344,827 | 65 s |
| `fqdp` | frames, two clients, the end of the server | 144,396 | 130 s |
| `node_reseed`, `api_orders`, `api_secret` | disagreements, section 5 | stop at the violation | 1-5 s |

`store_scoped` is the one run that checks a type invariant. The types of the other
modules' variables are part of the invariants proved about them, as far as
their properties need them.

Bounds, and why they suffice.

- `store_scoped`: two environments, one flag key and one segment key, two types.
  Every invariant relates at most two records and one environment; batches of
  two, one naming an environment twice, cover partial validation. `VIEW
  Unversioned` drops versions, which no command reads, and the graph is then
  explored to its end: `MaxIndex` exceeds its diameter.
- `store_records`: two users over two usernames, renames included; every other
  entity once; five commands, no view, because versions are what is looked at.
- `node_safety`: two clients, two starts (a restore or replay and a second run
  on the same disk), one snapshot, one fault. `MaxIndex` is larger than the
  entries that so many starts and calls can write, so it never blocks a step.
- `node_accounts`: three starts, so that two crashes can fall inside seeding,
  and two admin names.
- `auth`: a user in two groups with overlapping grants and a credential, which
  thirteen commands rename, deactivate, demote, promote, rotate, rescope and
  delete, environments included; one token, so that every state is about one
  account; three changes, so that one can fall before each read of a request with
  two groups; a clock that passes the end of either kind of token; one restart
  under either secret.
- `listing`: one reader, since readers do not affect each other (the proofs are
  for any set of them); five entries and four items against pages of one, two
  and three, so that there is a first, a middle and a last page, full and short;
  two changes, so that an insertion and a removal can be on either side of the
  cursor. A trail or a collection changes only while somebody reads it.
- `fqdp`: two connections. One is over a stream with each kind of frame, first,
  second or torn, in every division (`AnswersInOrder` is proved for all streams);
  its client may stop in the middle of a frame, or not read its first answer and
  so block the Write of the second. The other sends nothing and may be the one
  that was accepted first, or the one that waits. Radix 4 with lengths of two
  bytes, so that both bytes of a length matter and a length may exceed the limit
  of 7; one error of `Accept` besides the one of the close.
- `api_*`: two handlers, two requests. Every hazard here is one request
  overtaking another; 25 requests, three principals and one fault give every
  pair. The setup is a reachable state, built by `Apply` from commands.

`CHECK_DEADLOCK FALSE` in `store_records`, the Api runs and `auth` is for the
bounds alone (`MaxIndex`, `MaxRequest`, `MaxChange` and the like), in the node
runs for a process that is down and has no start left, and in `fqdp` for a
server that has returned and connections that are closed.

Fairness in `node_liveness`. Raft's goroutines, the handlers and the seeding
goroutine are weakly fair: the Go scheduler runs them as long as the process
lives. `SF(SeedGiveUp)` stands for the ten-second deadline: attempts that keep
being refused are not retried for ever. There is none on `Start` (the compose
file has no restart policy), `Crash`, shutdown, snapshots, faults, or on the
enqueue timeout, so an answer never depends on one of them.

Fairness in `fqdp`. The accept loop, the goroutine that closes
the listener and each connection's goroutine are weakly fair while the process
lasts; `Accept` fails for certain once the listener is closed. Clients owe
nothing: they may connect and never send, send half a frame and stay, go, or not
read. `conn.Write` has no deadline (`server.go:140`), so `Answer` is fair only in
states where its client has read what was written before, or is gone (`Drained`):
earlier, buffers may let it return or not. `FramesAnswered` is therefore about
clients that keep reading, and `ClientsServed` and `CancelReturns` hold whatever
they do. There is no fairness on `Cancel` nor on `Exit`, and each of the three
properties asks nothing of a process that has ended.

## 4. Proofs

Every invariant and every action property that a passing run checks is proved
for all values of the constants, and so is the refinement of `Store` by
`RaftNode`. Only liveness is left to the runs. Each theorem has the same shape:
a strengthening `IInv`, that `Init` implies it, that each action keeps it, and
the property from it by PTL.

**Induction.** The library's induction theorems take a predicate, which the
provers here cannot instantiate. `SetInduction` has a set in its place: one that
holds 0 and each successor holds all natural numbers. `IterationExists` and
`IterationUnique` follow, by which a recursive function (`BigEndian`, `Shifted`,
`Parsed`) is what its recursion says; `Replay` gets lemmas of its own, in the same
way. Such a definition is unfolded there, and nowhere else.

**StoreProofs**, over the lemmas of `ApplyProofs`. Three layers:

1. For each entity, lemmas that `apply<Entity>` keeps `Typed`, `OwnKeys`,
   `NoOrphans`, `DistinctUsernames` and `AdminIsSystem`, and the relations
   between before and after; then one lemma over `Apply` for every member of
   `Command`. They are about a state and an index, so `RaftNodeProofs` cites them
   of a log.
2. `IInv`: the index is a natural number, the maps are `Good` (the conjunction
   above), audit IDs do not exceed the index, nor do versions. No listed
   property is inductive without it: append-only needs the fresh index, a fixed
   Admin group needs it to be a system group, `SnapshotRestorable` needs flags to
   have environments and types that are not `""`, which only `Typed` gives, and
   two writes have different versions because the next index is beyond them all.
   `NoOrphans` holds across `EnvironmentDelete` because the three `has...` guards
   together name every kind of record that has an environment.
3. `Invariance`, and each invariant and action property from it.

**RaftNodeProofs.** `IInv` has four parts. `DiskInv`: the log holds commands,
snapshots are those of its prefixes, and what compaction dropped is covered by
the newest. `MemoryInv`: the maps are the replay of the log up to `applied`, which
is at or past every snapshot. `CallInv`: a caller waits for an entry that holds
its command, and is told OK only of one whose replay was accepted; seeding has
the process for itself. `SeedInv`: every prefix of the log with an account has an
active admin, which takes the rule of the state machine (`AdminNeverLost`, along
the log: `ReplayKeeps`) and the order in which seeding writes; without it
`ServingHasAdmin` is not inductive, as a crash between the group and the user is
what has to be survived.
`ImplementsAbstractStore` maps the maps of `Store` to the replay of the whole log
and its index to the log's length: storing an entry is the abstract command,
everything else, crashes and restores included, a stutter. The abstract module
is instantiated with its own copies of `Apply` and its helpers; `SameMaps`,
`SameFlags`, `SameBatch`, `SameRefusals` and `SameApply` show them equal.

**ApiProofs.** `IInv == MapsInv /\ TrailInv /\ HistoryInv /\ RequestInv /\ ToldInv`.
`TrailInv` files each entry under its index, at most one per request, and any
success after the command it tells of. `HistoryInv` bounds what was accepted and
answered by the requests made. `RequestInv` says what holds of a request from its
arrival to its answer (`Served`): it is not in the trail yet, which is why it will
be there once; its command is accepted only when it is about to be audited, with
the code that will be told; and the command is one that its handler may submit for its
principal (`Decided`), from whatever maps it was computed (`DecideSound`), and
stays so while the handler looks up groups or environments. `ToldInv`
is `TrailTellsAll` for the requests that are over. `MapsInv` bounds the orders of
environments, without which "after all others" has no highest to be after. The
frame lemmas (`FlagFrame` ... `ApplyFrame`) say which map a command may touch; that
is all that these proofs need of most commands, and `UsersApplied`,
`EnvironmentsApplied` and `EntryApplied` are the exceptions. `AdminGrantedByAdmin`
needs nothing of the maps: `Decided` lets a command that puts a user in the Admin
group come from an Admin's request only, however stale what was read.

**ListingProofs.** First about counting: ranks fall strictly as IDs rise and every
rank is taken (`RankFalls`, `RankTaken`), so `sort.Search` on a cursor that is an
ID finds its rank (`BelowCursor`), and a page is exactly the window of IDs between
two cursors (`PageIsWindow`). Three strengthenings, one per question.
`AllServed`: what a forward reader has seen is the window from the newest entry
at its start down to its cursor; it stays true while the trail grows because a
new entry has a higher index than `top`, and across `FollowNext` because windows
adjoin. `BackServed`: between a page and its previous cursor there are no more
entries than fit in a page (`PageHolds`, from ranks that split the list,
`RankSplits`), so the page of that cursor reaches back to it (`PageJoins`).
`Tracked`, for collections: while nothing was removed no cursor is past the end
and what was not served is behind the cursor (`Kept`, `Ahead`); while nothing was
inserted what was served is before it (`Behind`).

**AuthProofs** proves the five properties of `Auth`, for every command, setup,
secret and lifetime. `IInv` ties a request to its history: its principal's powers
are grants of sources the account had, a group still to be read is one of them,
and a power held throughout is granted already or by a group still to be read.
`MeShowsTheHeld` follows from it at the one step that answers.
The history always includes the present maps (`WatchCurrent`), which is why a
read of them may be accounted for by it, and it only grows (`ChangeStep`), so
that nothing need be known of what `Apply` does: the argument does not depend on
which commands other handlers may submit.

**FqdpProofs** proves `AnswersInOrder` for every stream, radix and field size.
Bytes first: reading what was written gives the number and writing what was read
gives the bytes (`PutThenRead`, `ReadThenPut`), so that `Number`, the reference
reading of a field, which is defined by the writer, is what `BigEndian` reads.
Then the reference parse of a whole stream: it advances, grows, ends, and stays
what it is when bytes follow (`ParsedAdvances` to `ParsedKept`). `ConnInv` has two
halves. What was read is some number of turns of that parse, whose frames are
the ones answered, and the part of the next frame that the phase of
`serveConnection` stands for (`Reading`); what was written is again frames, that
tell the answers one by one, all of them unless the client reset (`Written`).
The pieces TCP delivers appear in one lemma only, `Arriving`.

Assumptions used, which TLC evaluates in the runs: the empty string is no flag
type and no environment's ID, and limits are numbers (`Fsm`, `StoreTypes`); callers
pass the types of the Go structs, and write a system group under the Admin ID
alone (`StoreTypes`); what seeding writes is such an input, and it is not one of
the clients (`RaftNode`); requests are on the routes there are, with the fields
that are read, and the setup has no audit entries and no negative order (`Api`);
page limits are positive and
items finite (`Listing`); lifetimes are positive (`Auth`); streams are bytes, codes
and texts fit in their fields and an Error in a frame (`Fqdp`). The bound on the
index is any positive number.

Only model-checked: the liveness properties (`node_liveness`, `fqdp`), which this
prover does not do, and the three disagreements of section 5 that a run shows.

## 5. What the code does and its comments do not say

- `node_reseed`: `bootstrap.go:19` calls seeding idempotent. A restarted leader
  reads maps not yet replayed, submits the Admin group again, is refused with
  `ErrProtectedSystemGroup`, and `run()` ends. `SeedingTouchesNoAccount` and
  `ServingHasAdmin` hold all the same: it fails loudly and harms nothing.
- `api_orders`: `environments.go:89` wants each new environment after all others;
  two concurrent creates share an order. What does hold (`OrdersFollow`, in
  `api_concurrent`) is that a new environment follows all those there were when
  its request began.
- `api_secret`: `application_credentials.go:263` says PUT never changes the
  secret; a PUT overlapping a rotate restores the old one.

Seen while modelling, and not singled out by a run:

- `store.go:16` promises `ErrNotLeader` from any mutation on a node that is not
  leader. Leadership lost between the check (line 78) and `raft.Apply` gives
  Raft's own error (`RaftNode`, `EnqueueTimeout` and `SubmitRefused`), which
  seeding does not retry.
- `audit_middleware.go:15` says Before is set on routes that overwrite; with a
  blank around `environmentId`, `flags.go:25` looks up another key than the
  handler does, and the entry has none.
- `store/environment.go:30` says that an environment's order is stamped "from the
  current count". `nextEnvironmentOrder` takes one past the highest order in use,
  which is larger than the count once an earlier environment is deleted:
  `OrdersFollow` holds of the code, and the count the comment speaks of is the
  mutant that breaks it. The code is right and the comment out of date:
  `environments.go:91` says why a count would be wrong, and
  `TestEnvironmentsCreateKeepsOrderUniqueAfterDelete` tests for it.
- `error_codes.go:30` calls an invalid cursor one the server never issued; an
  offset that was issued is refused once the list has become shorter than it.
- `docs/fqdp.md` has limits and closes that the stub in `fqdp/server.go` does not
  implement. Its connections outlive a cancelled context, but not the process:
  `run()` waits for HTTP requests only (`main.go:71`), so that frames may stay
  unanswered at a shutdown (`Exit`).

Behaviours the models have and no line of the repository speaks about, so that
no property is claimed: a flag PUT resurrects a flag deleted while it ran; a
user PUT without `groupIds` is refused once one of the old groups is gone; a
user may be given, for one request, a set of powers that it never held at one
moment, always between what it held throughout and what was granted at some
moment (`PowersNotLost`, `PowersWereGranted`).

## 6. Not modelled

Clusters of several nodes (nothing in the repository adds a voter; a follower
exists only as "not leader"). Malformed requests and wording. The text form of
tokens, bcrypt and the cost of its dummy comparison; `ParseToken` and `Resolve`,
which only tests call. Single reads (`GET .../{id}`): one lookup in one map.
Redaction of secrets in audit entries, nesting of their JSON. `run`'s reading of
the environment. Segments over HTTP
(there is no route yet, so segments appear in `Store` only). The UI, nginx, the
error and message tables.

## 7. Plan

Done: the state machine, the node, the API core, authentication, listing and
FQDP, with proofs of all their invariants and action properties. Next, in order:

1. `Conditions`: the recursion of `usesInSegment` against a set-based definition.
2. `Session`: the UI's session and selected environment against the backend's
   deletions.
3. Further handlers of section 6, should they come to change state: segments over
   HTTP, the handshake that FQDP does not implement yet.
