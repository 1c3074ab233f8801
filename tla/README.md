# TLA+ model of the Mattermost plugin for Microsoft Teams

The plugin runs inside every node of a Mattermost cluster. It lets users connect
their Teams account (OAuth), and posts a notification to a connected user when a
Teams chat message arrives. Microsoft Graph calls a webhook for every message in
every chat of the tenant, as long as the plugin keeps a *change-notification
subscription* open. This directory holds TLA+ models of that code, the
configurations with which TLC checks them, and proofs checked by TLAPS. Paths
below are relative to `src/server/`.

## 1. The system

| Component | State it keeps | Operations | What is hard |
|---|---|---|---|
| **Admission** (`connect.go`, `api.go`) | tables `users` (`lastConnectAt`), `invited_users`, `whitelist` | `MaybeSendInviteMessage` (on every login), second half of the OAuth callback, upload of the whitelist | two handlers, any node, one cluster-wide mutex; decisions made on reads from a replica; calls that fail in between |
| **Subscription monitor** (`monitor.go`, `subscriptions.go`, `handlers.go`) | the subscriptions Graph has, table `subscriptions` | the job, once a minute on one node; lifecycle events | two stores that can disagree after a crash; lost answers; an expiry that will not wait |
| **Accounts** (`plugin.go`, `command.go`, `store.go`, `preferences.go`, `client_disconnectionlayer`) | the user's row: token, `lastConnectAt`, `lastDisconnectAt`, `LastChatReceivedAt`; the preference | `GetClientForUser` with refresh, the handler of a refused token, OAuth callback, commands `disconnect` and `notifications`, delivery | read-modify-write of one row by five kinds of handlers without a lock |
| **OAuth flow before the mutex** (`api.go`) | state and code verifier in the KV store | `connect`, `oauthRedirectHandler` | two tabs, replay, expiry |
| **Activity queue** (`handlers.go`, `worker.go`, `api.go`) | channel of 5000, 50 workers, wait group, `quit` | `processActivity`, `Handle`, `startWorker`, `Stop` | a full queue, panics and restarts, shutdown |
| **Notifications** (`handlers.go`, `notifications.go`, `presence.go`, `bot_messages.go`) | `LastChatReceivedAt` | one activity to all members of the chat | which member's client fetches the message; partial failures |
| **Message conversion and attachments** (`converters.go`, `attachments.go`) | counts, uploaded files | `msgToPost`, `handleAttachments`, streamed upload | accounting of what was skipped; a pipe whose other end is gone |
| **Plugin lifecycle** (`plugin.go`, `configuration.go`) | job, handler, metrics server, secrets, configuration | `OnActivate`, `OnDeactivate`, `OnConfigurationChange`, `restart` | restarts in goroutines of their own, several nodes |
| **Graph client** (`msteams/client.go`, its two layers) | none | about 50 operations, each a chain of REST calls | failures before and after the effect; errors rewritten on their way up |
| **SQL store** (`store/sqlstore`) | all tables | about 40 operations, annotated `db:withReplica` or not, in a transaction or not | replica lag, isolation |
| **Migrations** (`migrate.go`, `data_migrations.go`) | schema, "done" marker | run at activation | a crash between statements |
| **Reports and paging** (`api.go`, `store.go`) | none | connected users, whitelist as CSV | pages over a table that changes |

How they interact: Graph calls the webhook (`processActivity`), which feeds the
queue; a worker handles an activity by fetching the message with the client of a
connected chat member (Accounts), converts it and posts to the members
(Notifications). The monitor keeps Graph calling. A login triggers an invitation,
the invitation leads the user to the OAuth flow, its callback asks Admission and
writes the row that Accounts works on. Every client of a user is wrapped in a
layer that calls `OnDisconnectedTokenHandler` when Graph refuses the token. The
lifecycle starts and stops the monitor and the workers. All handlers share the
tables; only the two of Admission share a mutex.

Credentials check, encryption, metrics, generated timer layers, the web
application and the build keep no state of interest; `PROJECT.json` lists them
with the reason.

What makes each component correct:

- Admission: never more seats, taken or reserved, than the limit; never more
  pending invitations than theirs; one invitation per user; nobody denied a seat
  that is free or reserved for them; a whitelist that is honoured; the mutex
  always comes free.
- Subscriptions: at most one open (two would notify twice); an open one is never
  forgotten; a recorded one never runs out while attempts outnumber the faults;
  after faults stop exactly one is open and recorded.
- Accounts: the recorded times tell whether the user is connected; a user that
  ever connected keeps the right to; notifications are off until the first
  connection; a disconnected account stays so until its owner connects it.
- OAuth flow: the tab opened last connects, whatever was left behind; a Teams
  account has one user.
- Activity queue: what was accepted gets to a worker; nothing is handled more
  often than sent; panics do not use up the pool; when Stop returns no worker is
  left, and it returns unless a worker is stuck with a broken stream.
- Notifications and attachments: nobody is notified twice, or of what they
  wrote; a missing file is announced; a message is dropped as empty only if it
  is; a streamed file arrives whole; a worker comes back from every activity.
- Plugin lifecycle: one job per node and none left behind; a node that has caught
  up works with what is saved; the store is closed last.
- Graph client: a withdrawn consent is noticed; lists are read to their end; no
  error means that the change was made.

## 2. Modules

| Module | Extends | Models |
|---|---|---|
| `SeatLedger` | | abstract specification of Admission: seats handed out one decision at a time |
| `Admission` | | the two handlers, call by call, the tables, the mutex, the replica, uploads; refines `SeatLedger` |
| `AdmissionProofs` | `Admission` | typing, the mutex and how long it is held, limits, seats kept, whitelist, denials, invitations, the refinement |
| `Subscriptions` | | the job, the lifecycle handler, Graph's subscriptions, the table, time in minutes |
| `SubscriptionsProofs` | `Subscriptions` | typing, one subscription, nothing forgotten, no expiry, what a fault-free run restores |
| `Accounts` | | all writers and readers of one user's row and preference |
| `AccountsProofs` | `Accounts` | typing, times, seat kept, notifications only after a connection, who connects an account |
| `OAuthFlow` | | links, states, code verifiers, tabs, callbacks, the unique account |
| `OAuthFlowProofs` | `OAuthFlow` | typing, the last tab, one user per account, one use of a login, one's own account |
| `ActivityQueue` | | requests, channel, workers, panics, Stop |
| `ActivityQueueProofs` | `ActivityQueue` | typing, wait group, pool, shutdown, gauge, nothing taken twice, nothing accepted lost, nothing forged taken, what a stuck worker means for Stop |
| `FileTransfer` | | the streamed transfer of a file: the goroutine that reads ranges, the pipe, the upload |
| `Delivery` | `FileTransfer` | one activity from `handleActivity` to the last post, with its attachments |
| `DeliveryProofs` | `Delivery` | typing, streamed files intact, skipped files announced, once per member, empty means empty, no circles |
| `PluginLifecycle` | | activation, hooks, restarts, secrets, jobs on several nodes |
| `PluginLifecycleProofs` | `PluginLifecycle` | one job, current configuration, store closed last; with overlapping changes, one job each and what is left behind |
| `GraphClient` | | the operations of the client as chains of requests, error normalisation, the two layers |
| `GraphClientProofs` | `GraphClient` | refusals noticed, pages, changes made |
| `MC*` | the module named | model values, messages, chats, batches and symmetry sets for TLC |

### How the models relate to the code

**Admission.** A process is a request goroutine on some node; `pc` names its next
call, so two goroutines interleave at every call to the database. `kind` tells
`MaybeSendInviteMessage` from the callback: both make the same reads
(`UserHasConnected`, `GetInvitedUser`, `IsUserWhitelisted`, the two counts) in
the order of the code and part after the decision. The tables are sets of users.
A read sees `View`: the master, or with `Lag` a snapshot taken some time ago
(the store's operations are annotated `db:withReplica`). With `Faults` any call
may fail and any node may stop; a failure releases the mutex (`defer Unlock`, or
the lease of the cluster mutex). The deletions at the end of the callback may
fail silently, as their errors are only logged. What a fault leaves behind is kept
in two history variables: `kept`, the users who connected and whose invitation
was not deleted, and `sent`, from which a user drops out whose message could not
be recorded. The weekend rule of `shouldSendInviteMessage` is a choice.

**Subscriptions.** One variable per place: `remote` (minutes left, at Graph),
`local` (rows), `replica`. The job is sequential, `pc` is its next call; a run
may be missed, cut short by a crash, or fail at any call before or after its
effect, together at most `MaxFaults` times. The lifecycle handler runs beside
it. Identifiers are reused once nothing holds them. `DelayedLanding` lets a
creation that timed out take effect later.

**Accounts.** One user; users do not share rows. The row is a record; `next[p]`
is the row a handler computed in the first half of `setUserInfo` and writes in
the second, so two of these READ COMMITTED transactions overlap. Tokens are
numbers, `expired` and `revoked` say how Graph sees them. `then` is the label a
handler continues at after `SetUserInfo`, a call with several callers. The
decision to admit the user is nondeterministic here: Admission decides it. A
denial is possible only for a user never seen connected.

**OAuthFlow.** A flow is one passage through the connect page; its number also
stands for its code verifier and its authorization code. `states` and `verifier`
are the key-value store, with one verifier per user. A callback makes the calls
of `oauthRedirectHandler` in their order and any of them may fail; the browser
may send the callback of a flow more than once, and states expire at any time.
E-mail addresses at Mattermost may change hands, as the account is found by
them. The row is written as in `Accounts`, under the table's unique index.

**ActivityQueue.** Starts when `Start` has returned. A request is sent with a
batch, handed over one activity at a time, answered 202 or 400, and may be sent
again. A worker's states are those of its goroutine between two shared accesses:
the select, the decrement of the gauge, handling, `doRecover`. What handling does
is the subject of `Delivery`; here it ends, panics, or never ends ("stuck": what
`Delivery` shows of a broken stream). The `select` prefers neither case.

**Delivery and FileTransfer.** `pc` is the worker's next call. What a call finds
in the tables or in Teams is a choice each time it is made: a client may be gone
at the second search, a preference may change between members. A post is a
record of what it shows: text, files (positions of the attachments), the note
about skipped ones, and whether a client was found. The conversion keeps only
whether there is text; `k`, `count`, `nonFile` and `skipped` are the counters of
`handleAttachments`. In `FileTransfer` a byte of the file is its offset; the
goroutine of `GetFileContentStream` asks for one range after the other, and the
pipe hands over a byte when both ends are ready. Teams may answer a range with a
part, the whole file or an error page (`mangled`, `Junk`).

**PluginLifecycle.** A goroutine and the monitor it creates share a number: 0 is
`start`, the next ones are restarts, `StopId` is `OnDeactivate`. Each step of
`start` and `stop` that another goroutine can see is an action. The saved
configuration is global, `cfg` is each node's copy, `pending` counts the hook
calls on their way. Crashes are possible at any time. `Overlap` says whether a
change may be applied while an earlier goroutine is still at work: the code
allows it. A hook loads the saved configuration and makes it the node's own in
one step, which is exact as long as hook calls do not overlap on a node
(`configuration.go:138`); what is stated with `Overlap` does not depend on `cfg`.

**GraphClient.** `Requests` says of each operation which requests it makes, in
order, and what becomes of the error of each: returned normalised or plain,
normalised twice, replaced by another one, or only logged. A request may be
refused (the consent is withdrawn), fail before or after its effect, or be
answered. A batch has an answer for each of its two requests. `step` is the
position of a call; when it ends, the timer layer labels the outcome and, for a
user's client, the disconnection layer looks at the error.

## 3. Runs

| Run | Instance | Shows |
|---|---|---|
| `AdmissionSafety` | 3 users, 2 processes, 2 seats, 1 invitation, open to all, no lag, faults | limits, justified denials; exact counts and one invitation but for what a fault left behind; the tables implement `SeatLedger` |
| `AdmissionFaults` | 2 users, 2 processes, 1 seat, restricted mode, uploads, lag, faults | seats only for users on the whitelist; the mutex always comes free |
| `SubscriptionsSafety` | 5 identifiers, 5 faults, lifetime 4, lag | never two open, none forgotten |
| `SubscriptionsLiveness` | 4 identifiers, 2 secrets, lifetime 5, refresh under 4, 2 faults, late landings | no expiry; converges to one open and recorded |
| `AccountsSafety` | 2 handlers, 2 tokens, 3 writes, lag | times, seat, preference |
| `AccountsReconnected` | 2 handlers | **violated**: a disconnected account stays so |
| `ActivityQueue` | 2 workers, queue of 1, two requests (one with a forged activity) sent twice, panics, workers that get stuck | pool, wait group, shutdown, gauge, nothing taken more often than sent, panics contained until Stop; accepted activities are taken unless all workers are stuck; Stop returns or is left waiting for stuck workers alone |
| `Delivery` | chats of one to three members, up to 3 attachments and an embedded image, 2 files allowed, files of up to 3 bytes in ranges of 2 | nobody notified twice, missing files announced, empty means empty, streamed files intact; only broken streams block |
| `PluginLifecycle` | 2 nodes, 2 secrets, 2 saves, a good and a bad application, one change at a time | one job, current configuration, store closed last |
| `PluginOverlap` | the same, changes may overlap | **violated**: one job per node |
| `OAuthFlow` | 2 users, 1 account, 2 links, 3 flows, 2 callbacks | the last tab connects, one user per account |
| `GraphClient` | every operation next to one of five others, lists of two pages | refusals noticed, pages read, no error means done |

**Bounds.** Two processes are enough for every race on one mutex or one row:
each property relates at most two handlers and one table. Three users and two
seats leave one user without. `Lifetime` and `RefreshLimit` keep the order of
the code's 120 and 5 minutes; `NoExpiry` holds because the faults are fewer than
the attempts left, in the run and in the code (the theorem has the exact
relation, `MaxFaults + 2 <= RefreshLimit`). A queue of one is full with the first
activity of a batch. `MaxTime` bounds calls of `SetUserInfo`, `MaxTokens` tokens
issued, `MaxMessages` deliveries, `MaxSends` how often Graph sends a request. Two
files out of three attachments reach the limit with one left over; three bytes
in ranges of two take a full and a partial range, and an answer that is exactly
one range takes one more request. Three flows are an old tab, a new one and another
user's; two callbacks include a replay. Two saves are an edit and a node's own
secrets, or two nodes' secrets. Two pages make a list with a last page and one
before it. The theorems of section 6 have none of these bounds.

**Deadlock** is checked in every run but those of `ActivityQueue`, where the
plugin stops or crashes, `Delivery`, where the activity ends, and `GraphClient`,
where each call ends.

**Symmetry** is used in runs without liveness properties only.

**Fairness.** `Admission`: the steps of each process that holds the mutex, since
a goroutine is scheduled and its calls return (a call that fails is a step). No
fairness for `Acquire`: contenders poll the mutex, so none is sure of it.
`Subscriptions`: the job (it is scheduled every minute), time, the replica, the
lifecycle handler; faults are finitely many. `ActivityQueue`: requests, workers
and Stop's wait. Handling is not assumed to end: a worker may get stuck and has no
step to take from then on. Only weak fairness: what is sent is bounded, so the
queue runs dry and the `select` has only `quit` left. `Delivery`: the worker and the
goroutine of a transfer together, as the worker waits while a file is streamed;
when the goroutine is gone nothing is left to be scheduled (`Stuck`).

## 4. Findings

`PROJECT.json` quotes the lines.

1. *A disconnected account comes back* (`AccountsReconnected`): `GetClientForUser`
   stores a refreshed token (`plugin.go:208`) without looking whether the account
   is still connected; the user was told that it is not.
2. *A job is left behind* (`PluginOverlap`): restarts run in goroutines of their
   own without a lock (`plugin.go:351`). Two that overlap each assign
   `p.monitor`; the job of the one that is overwritten keeps running with the old
   secret until the process ends.

## 5. Limits of what holds

What the code does where a stronger property would fail. Each is in the models.

Admission and accounts:

- The mutex orders writes to the master, the decisions read the replica: with a
  replica that lags, the limit can be exceeded, an invited user may be sent a
  second invitation, and a user may be denied a seat that is free. These
  properties are checked and proved for reads that do not lag.
- The invitation is recorded after its message is sent, and deleted after its
  user is connected: if recording fails the next login sends another message, if
  deleting fails the user is counted twice until connecting anew. `InviteOnce`
  and `NoDoubleCount` say that nothing else has these effects.
- Delivery looks at the row and the preference, never at the token: a user who
  lost the token and left the preference on is still notified, with another
  member's client.
- Storing a refreshed token rewrites the row and resets `LastChatReceivedAt`.
- A 401 for an old token drops whatever token the row has by then.
- Two overlapping `setUserInfo` transactions are last-writer-wins, as at
  PostgreSQL's READ COMMITTED; the model has no serialization failure.
- `TimesAgree` assumes that the nodes' clocks agree: `clock` is global.

OAuth flow:

- One verifier per user: of two tabs completed in the order of their opening both
  fail, the first for a foreign verifier, the second because the first callback
  deleted its own.
- The row of a disconnected user keeps the account: another user with that
  account is refused by the unique index.
- A state is never deleted and can be used until it expires.

Subscriptions:

- A changed webhook secret never reaches the subscription that is being
  refreshed: Graph goes on sending the old one and the webhook refuses it until
  the subscription is replaced. The model carries both (`secret`, `clientState`).
- With a replica that can lag for more than a minute the monitor flaps (it
  replaces a subscription whose row it does not see yet), so `Converges` is
  checked without lag. `NoExpiry` holds with lag or with late landings but not
  with both together.
- A creation that times out and lands after the retry leaves two subscriptions
  open. Each run then lists one of them, and if that is not the recorded one
  deletes it, forgets the recorded one as well although it is open, and creates
  another: with lifecycle refreshes this can go on for good. `SingleRemote`,
  `ForgetOnlyDead` and convergence are therefore stated without such landings.

Activity queue:

- While quitting, `doRecover` returns before it calls `recover` (`worker.go:21`):
  a panic that meets a shutdown ends the process. `CrashOnlyStopping` bounds it.
- What is on the channel when the workers see `quit` is lost: it was answered 202.
- A worker that waits for a broken stream (see below) is lost to the pool for good,
  and no other takes its place: to `PoolComplete` it is present. One is enough for
  `Stop` never to return. Once all are stuck, accepted activities stay on the
  channel. `StopReturns` and `AcceptedTaken` allow for exactly that.

Notifications and attachments:

- The downloading goroutine returns on an error without closing the pipe, so
  `UploadData` waits for good, and the worker with it (`Stuck`,
  `OnlyBrokenStreamsBlock`). After an incomplete upload the file's id is read
  from nothing, a panic.
- A file fetched whole that has no bytes and no error either (`nil`) goes on to an
  upload session of its own (`attachments.go:240`). In the model it is skipped:
  that rests on the server refusing a session for no bytes, which is not in this
  repository.
- The last file allowed counts as skipped whatever is left, including what was
  already counted: the number is too high then, never zero.
- Embedded images are appended to the message's attachments without a content
  type, are never uploaded, and are appended again for each member.
- If no client is found at the conversion, text and files are given up; a
  subject alone is then posted as the message.
- The only member of a chat is listed twice. If that is not the author, who has
  left, they are notified twice.

Plugin lifecycle:

- `generatePluginSecrets` saves the settings the plugin has, which are none if
  the hook refused the configuration for want of those very secrets; the
  activation then fails.
- A Teams client that could not connect is kept, and later restarts go on with it.

Graph client:

- A refused token is recognised by its text before normalisation and by its
  status after. `CreateChat` normalises the error of the chat's details twice and
  loses the status; the search for a site replaces its error. These two refusals
  are not noticed (`RefusalNoticed` leaves them out). Graph's own 401 answers
  carry no status the layer looks at, so it never sees them.
- `GetTeams` and `GetChannelsInTeam` read the first page only. The failure to
  read the original in `UpdateMessage` is only logged and the attachments are
  left out of the change. `GetApp` returns plain errors, which the timer layer
  labels "0". The status of the request that carries an uploaded file is ignored.
- Many operations have no caller left in the plugin; they are modelled all the
  same, as the client offers them.

## 6. Proofs

Each `*Proofs` module states an inductive invariant, shows that every action
preserves it (one step per action) and derives the properties from it. The
constants are arbitrary within their named assumptions.

- **AdmissionProofs**, for any finite set of users, any set of processes, any
  limits. What needs no assumption rests on `SafeInv`: mutual exclusion (`Mutex`)
  and the `Grounds` on which a process goes on. It gives `Typing`,
  `MutexTheorem`, `SeatsStay`, `WhitelistTheorem` and `HeldBriefly`, all with
  lag, failing calls and nodes that stop. The rest rests on `IInv`, which adds,
  per program point, what the process knows (`Facts`): between the count of a
  callback and its write nobody else writes, so "a seat is free" survives from
  `countInvited` to `setUserInfo`. Without that strengthening the limit is not
  inductive: the decision is some calls older than the write. Assumption `~Lag`
  where the code needs it, calls failing anywhere throughout.
  `Refinement` maps each user to a seat ("connected", "invited" or "none") and
  shows that every step is one of the ledger's or a stutter.
- **SubscriptionsProofs**, for any lifetime, limits, faults. The invariant says
  what the job knows of Graph at each call: nothing open besides the listed one,
  nothing at all once it was deleted (`~DelayedLanding`). `NoExpiryTheorem`
  counts: the minutes left plus the faults so far never fall below the limit by
  more than one minute. It assumes the relation of faults and limit and that lag
  and late landings do not come together; with both TLC finds a subscription
  that runs out. `FaultFreeRun` follows one run of the job without a fault from
  its start, whatever is left of earlier ones (`OnTrack`).
- **AccountsProofs**, for any set of handlers, with or without lag. Rows in hand
  must satisfy what the row in the table does (`Times`); before the first
  connection only the holder of the mutex gets as far as writing (`NoSeat`), so
  no stale "never connected" overwrites a connection; and who writes a token
  holds the mutex or refreshes (`Holding`). `OnlyRefreshReconnects` is what holds
  in place of the refuted `OnlyCallbackConnects`.
- **OAuthFlowProofs**, for any users, accounts, flows and callbacks. The last tab:
  while a flow is clean the store has its verifier until its own callback takes
  it. One user: the index keeps accounts of rows different, whatever the check
  before the mutex saw. One use: a callback past the exchange has used up the
  code, and no step gives it back (`Exchanged`).
- **ActivityQueueProofs**, for any finite pool and set of requests, any queue.
  Counters equal cardinalities because each step moves one element
  (`CountUp`, `CountDown`, `CountSame`). For `TakenAsSent` the sendings of an
  activity are counted as triples of request, sending and place; those that
  `processActivity` is done with (`Handed`) only grow, by one when the activity
  is put on the queue, and bound what was taken or is queued. For
  `NothingAcceptedLost` the invariant (`Accounted`) follows a batch up to the
  place its request has reached. `StuckHoldsStop` is the reverse of `StopReturns`:
  a stuck worker keeps the wait group above zero for good.
- **DeliveryProofs**, for any chats, messages, limits and sizes. Three invariants:
  what was read of a stream is the beginning of the file and what is on its way
  follows it (`Contiguous`); every attachment behind `k` is counted as one thing
  or another, so if none was skipped all files are among the uploaded ones
  (`Counted`), the computation at the limit included; and only members the loop
  is done with were sent anything, once (`Sent`). `NoCircles` gives a measure:
  the stage of the activity, members left, stage of a member, attachments left,
  stage of an attachment, and then those of the transfer; each step makes an
  earlier part smaller and may only then enlarge a later one. What is left then
  is to wait for a transfer, and `OnlyBrokenWait` says when that is in vain.
- **PluginLifecycleProofs**, for any nodes, applications, secrets and number of
  changes. Assuming `~Overlap`, the goroutine at work is the only one, and the
  invariant says for each of its steps what is closed and what is started. With
  overlapping changes, where `OneJob` fails, `SharedInv` says what is left:
  every job belongs to one restart, whose monitor knows it (`OneJobEach`), and
  one that the plugin has lost sight of stays (`LeftBehind`). That is the extent
  of the finding: at most one job for each restart.
- **GraphClientProofs**, for any number of concurrent calls of any operations and
  any number of pages: which requests precede the current one in each operation,
  what they wrote, and what the error in hand says of the refusal.

Only model-checked: liveness, which the prover does not support, and the two
counterexamples. Of each liveness property the part that is safety is proved for
every value of the constants, so that what is left to fairness is that steps
which can be taken are taken:

| Liveness, checked by TLC | Proved |
|---|---|
| `LockReleased` | `HeldBriefly`: nine calls at most, each nearer to the return |
| `Converges` | `RunEnds`, `FaultFreeRun`, `SettledStays`: a run ends, repairs what it finds, and nothing but a fault undoes it |
| `AcceptedTaken` | `NothingAcceptedLost`: what was accepted was taken or is on the queue, stuck workers or not |
| `StopReturns` | `WaitsForSomebody`, `StuckHoldsStop`: Stop waits only while a worker is alive, and for good while one is stuck |
| `OnlyBrokenStreamsBlock` | `NoCircles`, `OnlyBrokenWait`: each step leads nearer to the end, and only a broken stream is waited for in vain |

## 7. Not modelled, and why

- **Migrations**: run before the plugin serves anything, idempotent but for the
  time they write, repeated whole after a crash. A model would restate the SQL.
- **Reports and paging**: reads only; pages by OFFSET promise no snapshot and
  the order of equal names is the database's.
- **Legacy tables** (links, posts, channel subscriptions): no live code path
  reads them.
- **Credentials check**: compares permissions with a list once a day; keeps two
  metrics. That its job is opened and closed is in `PluginLifecycle`.
- **Encryption** of tokens: the standard library's; a stored token is the token.
- **Formatting**: HTML, cards and snippets to Markdown, the bot's wording, the
  mapping of SDK objects to the client's models. What depends on it (is there
  text, is there a file, is there an id) is kept.
- **Metrics and generated layers**: observed, never read. The queue's gauge is in
  `ActivityQueue`, the label of an outcome in `GraphClient`.
- **Web application**: its one effect on the server, the preference, is in
  `Accounts`.
- **Tests, mocks, generators, build**: not part of the running plugin.
