# A verification of agent-witness

agent-witness lets a phone or browser sign SSH requests for a remote machine. A
daemon on that machine offers an SSH-agent socket; local SSH clients ask it for
identities and signatures. A single paired browser holds the keys in an
encrypted vault and connects to the daemon over a WebSocket. Requests wait in
the daemon's broker until the browser is connected and unlocked, and a Web Push
notification wakes the browser up.

This directory holds TLA+ models of that system, TLC configurations that check
them on small instances, and proofs checked by TLAPS that hold for every
instance. All paths below are relative to the repository (`src/`).

## 1. The system

| Component | State | Operations | Modules |
|---|---|---|---|
| Broker model, `broker/model.rs` | pending requests (sequence, attempt, queued or in flight), queue, remote agent state, wake flag | `apply` of seven events, `expire`, `reconcile` | `Listing`, `BrokerModel` |
| Broker actor, `broker/task.rs` | the model, waiting callers, cancellation futures, the channel of the one remote session | the branches of `run_broker`, effects | `Broker`, `RequestLine` |
| Pairing, `remote/pairing/*.rs` | the one client slot in memory and in a file, identity and revocation watches | `open`, `pair`, `authenticate`, `set_push_subscription`, `set_identities`, `clear` | `Pairing` |
| Remote session, `remote/session.rs` | one task per WebSocket: authorization, revocation receiver, heart beat | `serve`, `run_authenticated`, `handle_client_message` | `RemoteSession` |
| Browser session, `packages/app/src/remote/session.ts` | one socket, pairing record, retry timer, generation, buffered requests | `connect`, `setActive`, `forgetPairing`, `setReady`, `setIdentities`, socket and store callbacks | `ClientSession` |
| Worker and vault, `worker/index.ts`, `vault/*.ts` | vault in memory, metadata and key blobs in IndexedDB | `connect`, `lock`, `unlock`, `createVault`, `addKey`, `removeKey`, `destroy` | `Worker` |
| Control socket, `control/*.rs` | a path on disk | `bind`, `drop`, `pairing clear`, abort at shutdown | actions of `Daemon`, `Pairing`, `RemoteSession` |
| Agent socket and request router, `agent_socket/listener.rs`, `request_router*` | per connection: responses owed, context, cached identity answer; the one-place channel to the broker | `serve`, `handle_connection`, `route`, `submit` | `AgentConnection` |
| Context extension, `request_router/context.rs`, `packet.rs`, `cli.rs` (`write-context`) | a packet on its way | `encode`, `decode`, the packet classifiers | `ContextCodec` |
| Web Push, `push.rs` | a channel of wake requests, the one in hand; the VAPID key file | `serve`, `publish`; `open`, `load`, `create` | `Push`, `Daemon` |
| Socket files, `agent_socket/file.rs` | a path on disk, the guard's inode | `prepare_path`, `bind`, `drop` | `Daemon` |
| Start and shutdown, `daemon.rs` | what a process has claimed so far | `run`, from start to exit | `Daemon` |
| Wire protocol, web server, configuration, SSH and crypto code, page | none that changes | encoding, display | not modelled |

How they interact:

* A local connection sends `PacketRequest`s to the broker over a channel of one
  place and waits on a oneshot; closing it fires a cancellation token.
* A WebSocket task authorizes its browser with the pairing service, asks the
  broker for its only session (`connect_remote`) and then forwards readiness,
  responses and commands. A revocation reaches it through a watch channel.
* The broker dispatches to the bound session while there is capacity, requeues
  what a lost session held, and announces waiting work to the push service.
* `daemon.rs` claims, in this order, the key file, the pairing file, the agent
  socket, the control socket and the HTTP port; an early return gives up what was
  claimed, a crash leaves the files for the next start to judge.
* In the browser, the page calls the dedicated worker; the worker drives the
  remote session, which calls back for every request, settled request and
  disconnect. A disconnect locks the vault.

What is hard here: everything above runs concurrently. Requests expire while a
second client knocks; responses come from sessions that have been replaced; the
daemon crashes between a rename and its answer; a browser vanishes between two
awaits; a store answers after the page was hidden and shown again; a vault is
locked while an operation on it is under way; a local client stops reading; two
daemons start on one configuration and one takes the other's socket for stale.
`PROJECT.json` lists these hazards
with the lines where they bite and the properties that cover them.

What makes each part correct:

* broker: callers are answered at the latest by their deadline, and an answered
  request is never worked on again; order of admission survives requeues; limits hold; the remote is neither
  overloaded nor idle; waiting work has been announced;
* pairing: a revoked client never returns, a granted one never loses its slot by
  accident, one client's data never ends up with another;
* remote session: no session outlives its revocation, and the only slot is never
  leaked;
* local connections: responses in the order of the requests, no request lost or
  kept after its connection, context and identities those of the connection;
* context codec: encoder and decoder agree at every limit, and a packet is read as
  a context only if it is the frame of that context;
* Web Push: the last summary published is the latest, and every request that
  waits without a remote is covered by an attempt to notify;
* daemon processes: a listening daemon keeps its socket files, and the key it
  hands out is the one on disk;
* browser session: one socket, no stale announcements, no answer to a dead
  request, and always something under way while a connection is wanted;
* worker: metadata, blobs, memory and the advertised identities agree; a locked
  vault stays locked.

## 2. The modules

`Listing` gives queues as functions: `InOrder(S, key)` sorts a set by distinct
keys and `Retain(q, T)` filters a sequence. Both are defined without recursion
so that they can be proved about; `MCBroker` checks them against the recursive
definitions of the libraries.

`BrokerModel` translates `BrokerState` as operators from state to state, one per
event, with `Expire` and `Reconcile` around them as in `apply`. Packets,
contexts and time stamps are copied by the code and left out; time is the set of
requests whose deadline has been reached.

`Broker` is the actor. One action is one iteration of `run_broker` with all its
effects, since nothing in an iteration awaits: `HandleLocal`,
`HandleCancellation`, `Tick`, `HandleConnect`, `RejectConnect`, `HandleReady`,
`HandleLocked`, `HandleDisconnected`, `HandleResponse`, `Stop`. The environment
cancels requests, drops command receivers and lets deadlines pass. A dispatch
into a dropped receiver disconnects the session inside the effect loop, as
`execute` does. `SingleClientSpec` is the broker without refused connections.

`RequestLine` is the abstract specification: one waiting line of which the
remote, while online, holds exactly the front. `Broker!Line` is the refinement
mapping.

`Pairing` splits every operation where the code awaits: the decision under the
mutex, which starts a write, and `Finish`, with the three outcomes a write of
`file.rs` can have (done; failed before the rename; failed after it). `disk` is
the set of contents the next start may find, so an unsynced rename and a crash
in the middle of a write leave a doubt. `AbortClear` is the shutdown of the
control socket, which releases the mutex while the blocking write goes on.

`RemoteSession` extends `Pairing` with one task per connection; a step is what
happens between two awaits. In the loop of `run_authenticated` a task is
"serving" while it waits in `select!`, "updating" while an update waits for the
store, and "sending" while a command or a ping waits for the socket: in the last
two it sees neither heart beats nor revocations. Of the broker it keeps the slot.

`AgentConnection` has one task per local connection. `FuturesOrdered` becomes a
sequence of owed responses, each new, sending, sent or ready; the channel's
waiting senders are a queue whose head may use the free place only when its task
polls, which a task that is writing does not. Frames are classes: what the codec
and the classifiers make of them. The broker takes, answers once and stops.

`ContextCodec` is the context extension on the wire. A packet is a sequence of
cells; a cell is a byte, or a whole four-byte integer. `Encode` and `Decode`
return sets of at most one result, with the limits as constants; `Class`,
`IsIdentityRequest` and `IsSessionBindRequest` are what `route` asks of a packet.
`WriteContext` is the command, `SendPacket` any other local program. A group ID
has several spellings: `encode` writes the simple form in lower case, and
`Uuid::parse_str` reads digits of either case, in the simple form and in longer
ones (`Forms`). One digit and its upper case stand for the letters, one leading
byte for hyphens, braces and the URN prefix.

`Push` composes the broker with the task of `PushService::serve`: `Receive`,
`Drain` after the pause of 200 ms, and `Publish`, which returns whatever the push
service did. A wake request is the set of requests its summary was made from.

`Daemon` has processes that start, fail, stop and are killed on one
configuration. A step is one system call on something they share: the key file,
a socket path, the port. Inode numbers are used again once no directory entry and
no open socket refers to them. `bind(2)` and `listen(2)` are two steps, since a
probe in between is refused. `Stops` is every early return and the shutdown: a
finished socket is then dropped in three steps (`Close`, `CheckOwn`,
`RemoveOwn`), an unfinished one is just closed. Both sockets do the same, so
`AgentSocketStep` and the `ControlSocket*` steps use the same actions. `claim`
and `early` are not state of the code: they record that a process began to
listen with its file in place and nobody about to touch it, and that a process
read a key its creator had not synced.

`ClientSession` is the browser's class between awaits. The store is a queue of
operations answered in order; a generation counter that is only compared with
its current value becomes a flag on each queued load.

`Worker` splits each vault operation into reading `#state`, the transaction, and
replacing `#state`; locking, disconnection and termination come in between.
`Load` is the lazy first read of the store, by whichever call comes first, and
`Connect` the page's `connect` with a loaded vault; in between, vault operations,
hiding and showing may happen while the remote session has not been told the
identities of that vault. Of the remote session it sees whether it is up, closing
or down.

The `MC*` modules add symmetry sets. `MCLocal` explores `AgentConnection`,
`ContextCodec` and `Daemon` in one run, one at a time while the other two rest in
an initial state: they share no variable, so no state of any of them is missed.
The `*Proofs` modules hold the theorems.
Operators whose name has a suffix after `_` (for example `Drain_KeepsFirst`) are
deliberately wrong versions of the operator they precede; each is used to show
that some property notices the mistake, and no specification uses them.

## 3. What is checked

| Run | Shows | Instance |
|---|---|---|
| `broker_contended` | queue order, session binding, announcements, commands and answers under any number of knocking clients | 2 requests, 3 sessions, capacity 2, 3 attempts |
| `broker_single_client` | no caller forgotten, no capacity idle, worker and broker agree on open requests; the broker implements `RequestLine` | 3 requests, 2 sessions, capacity 1, limit 2 |
| `broker_progress` | overdue and cancelled requests are answered, whatever remotes do; the latest wake request is published and every waiting request is covered by one | `Push`: 2 requests, 1 session, fair actor and push task |
| `session_safety` | revocation, ownership, advertisement and the client slot with failing writes and crashes; no session works for a revoked client unnoticed; the broker's slot is not leaked | 2 connections, 3 clients, 3 contents in doubt |
| `session_liveness` | revoked sessions leave, and dead ones that have spoken | 2 connections, 2 clients |
| `connection` | responses in order, requests with their context and never lost, current identities; the codec's round trip, and that packets read as contexts are frames; retained socket files and key | 2 connections, 3 frames, 2 pipelined; strings up to one above limits of 2; 2 daemons, 4 starts, 2 inodes per path, 2 keys |
| `client_safety` | one socket, stored credential, current announcements, live answers | 3 sockets, 3 requests, buffer 2 |
| `client_settles` | a wanted session always has something under way, and settles | 2 sockets, no requests |
| `worker_serial` | metadata, blobs, memory and identities agree | 3 keys, one call at a time |

Three runs exhibit disagreements between the code and what is written about it:

* `broker_refused_waits`: `apply` expires overdue requests and then returns an
  error for a second connection, dropping the effects. The caller of a request
  that expired at that moment is never answered, and freed capacity is not used
  until some other event arrives (`WorkConserving` fails in the same way).
* `session_rejected`: a browser that pairs while the session of the client just
  cleared is still bound is told `Rejected`, but its pairing has been persisted;
  nobody has the credential that now holds the slot.
* `worker_relock`: a vault locked while a key is added or removed is unlocked
  again when the call resumes.

`worker_serial` lets the page make one vault call at a time. With two
(`Calls = {a, b}`) `MetadataMatchesBlobs` fails: overlapping calls write metadata
made from the same old vault, so one update is lost and a blob orphaned, although
`vault/storage.ts:4` wants the two never to drift apart. The page's `working`
flag, which any finished call resets, does not quite rule that out.

`client_settles` assumes a store that does not refuse to delete a pairing
(`DeleteMayFail = FALSE`). With one that does, `NoStall` fails: `forgetPairing`
has stopped the retry timer and closed the socket before it awaits the deletion,
and does not go on when that rejects. `client_safety` allows such a store.

### What the daemon and codec properties do not say

`agent_socket/mod.rs` calls binding to "safely claim a filesystem path" (line 24)
and promises to serve "while retaining ownership of the socket file" (line 39).
`SocketRetained` shows this for a daemon that began to listen undisputed. Before
that point two starts can still displace each other, since every check is
followed by an action on whatever is at the path by then:

* a second start that probes between `bind(2)` and `listen(2)` is refused, takes
  the new socket for stale and removes it;
* the same happens between the identity check and `remove_file` in
  `prepare_path`, and between the check and the removal in `SocketFile::drop`;
* the guard remembers the inode found at the path after `set_permissions`, which
  may be another daemon's by then; its drop later removes that file.

Each needs two starts, or a start and a stop, within microseconds; the displaced
daemon goes on with a socket nobody can reach.

`KeyPersists` excepts a key that was read before its creator had synced it: a
failing sync withdraws the file (`push.rs:219`) while the reader goes on with the
key. A process that dies between `create_new` and the write leaves an empty file,
which every later start refuses until somebody removes it.

`OneReading` lets a context have one packet per spelling of its group ID:
`Uuid::parse_str` also takes upper-case digits and the longer forms, `encode`
writes only one. Nothing in the repository compares packets, so this is no
disagreement. The codec has two more edges that are not errors of its own. An extension packet that
is cut off inside its name is an error, although `context.rs:47` speaks of
"leaving other agent packets untouched"; and an argument that is not UTF-8 may
become three times as long when decoded, so that 16 KiB of arguments exceed the
32 KiB allowed for a message's overhead (`protocol.rs:25`), which bounds what the
daemon receives and not what it sends.

### Bounds

A request has one attempt per session, so `MaxAttempt` is the number of
sessions: two are enough for a request to be requeued and for its first answer
to come late, a third lets it happen twice. Three requests with a limit of two
make one wait, one run and one be refused; a capacity of two puts several
dispatches into one step, of which the first may find the channel closed. Three
clients let one be cleared, one be current and one try; `MaxDoubt` bounds how
many contents may be on disk at once and three holds the old, the unsynced and
the one being written. One value is enough to tell registered identities from
none; the theorems cover any number. Session and socket names are used again
after they are closed and no late event can refer to them, so the number of
reconnections is not bounded in `RemoteSession` and `ClientSession`. `MaxStore`
bounds the store operations queued by a page that calls faster than the store
answers. `MaxPending` in `ClientSession` is 2 instead of 32, `MaxPipelined` in
`AgentConnection` 2 instead of 8; three frames fill it, overflow it, or contend
for the channel. Limits of two in `ContextCodec` leave room for the empty string,
one below, at and one above each limit, and cells up to three for a length above
all of them; the byte that is not UTF-8 is -1, a length that no packet has. One session and one capacity make
`broker_progress` small enough for liveness; requests still queue, expire and are
requeued around a connection, and an instance with two sessions (1.8 million
states) passes as well. Four starts let a daemon be displaced, stopped and
started again while the other runs; two inode numbers per path are enough for one
to be reused while a guard still remembers it, and three pass as well. The
broker's runs are finite because requests and sessions are
used once, so they may end in a state with nothing to do and deadlock is not
checked there; it is checked everywhere else.

### Fairness

* `ActorFairness`: `select!` picks among the ready branches at random and every
  handler returns, so a branch that stays ready is taken: the elapsed timer, a
  fired cancellation token. The formula `<>[]E => []<><<A>>_vars` is weak
  fairness with the enabling condition written out; `ContendedFairSpec`, used
  for one small instance, says the same with `WF` and adds the `Disconnected`
  command of an ended session. Nothing is assumed of deadlines, remotes or
  callers.
* `PushSpec` adds weak fairness of the push task: it is polled, its pause ends, and
  a delivery ends after `DELIVERY_TIMEOUT` at the latest. Nothing is assumed of
  the push service, and `WaitingIsTried` speaks of one attempt because the code
  makes one.
* `SessionFairness`: a task that can go on does; the store's write returns; a send
  under way ends, because the browser's WebSocket reads what arrives, or, if the
  browser is gone, because the kernel gives up on unacknowledged data (the code
  sets no limit of its own, so a peer that is alive and never reads could hold the
  loop); and, strongly, heart beats and revocations, which are one ready branch
  among others of a random choice while the loop also serves messages. Nothing is
  assumed of the wait for the first message, which has neither time limit nor
  ping (`session.rs:43`): a browser that vanishes there is never noticed. So
  `DeadLeaves` begins with the first message; until then the task holds neither
  pairing nor slot.
* `ClientFairSpec`: store, timers, new sockets and servers answer, and after
  some time the page is left alone and the network holds. Nothing is promised
  while the page or the network keeps changing.

## 4. What is proved

The theorems hold for arbitrary sets of requests, sessions, clients and values
and arbitrary limits, from the named assumptions in the modules (`None` is
neither a request nor a session, limits are positive, sets of requests are
finite where a cardinality is taken).

* `BrokerModelProofs`: `InOrder` lists a finite set once, in order; `Retain` keeps
  order and exactly the wanted elements. `Consistent(st)` (queue and in-flight
  work partition the pending requests, the queue is in order of admission,
  in-flight work belongs to the bound session and is within capacity, the pending
  limit holds) is preserved by every operator. Requeueing is the interesting one:
  it needs that everything in flight is older than everything queued. For the
  refinement it also says what each operator does to the line, that is to the
  in-flight requests in order of admission followed by the queue (`LineSorted`,
  `LineRemoved`, `LineJoined`, `LineFront`).
* `BrokerProofs`: `Inv` is `Consistent(state)`, the channel being that of the
  active session, the types, `PendingIsAwaited`, and that no waiting caller has
  an answer. From it: `TypeCorrect`, `OrderSafe`, `SessionSafe`, `LimitsSafe`,
  `PendingSafe`; and, without refused connections,
  `CallersTracked` and `RemoteBusy`. Those two are exactly what a refused
  connection breaks (`broker_refused_waits`), hence the separate specification.
  How far it breaks the first is proved too. The callers that wait without a
  pending request (`Forgotten`) have all passed their deadline
  (`OnlyOverdueForgotten`), and while the broker runs no step but a refusal adds
  to them and none answers them (`OnlyRefusalsForget`).

  What the sessions were told needs a second invariant, `TraceInv`. Neither
  `CommandsWellFormed` nor `AnswerFromLastAttempt` is inductive: that a session is
  not asked twice depends on the attempt counters, and that no late answer is
  accepted on what was withdrawn. `Told` ties the two together: the counter of a
  pending request is ahead of what any other session was asked, and the active
  session was asked for what is in flight and had none of it withdrawn.
  `CommandsAreWellFormed` and `LastAttemptAnswers` follow; `WorkerAgrees` adds
  that what is no longer in flight was withdrawn or answered (`Reported`).
  `AnsweredLeftAlone` is read off the same steps: what an event withdraws or
  dispatches was pending before it or is the request it admits, what it dispatches
  is still pending after it, and pending requests have callers without an answer.

  `BrokerImplementsLine`: with the line computed from the state, every step of
  the actor without refused connections is one step of `RequestLine` or a
  stutter. A handler is one step although it first expires what is overdue, then applies its event and at
  last dispatches, and possibly finds the channel closed and requeues what it
  had just taken; the proof treats that last case as the remote going offline
  in the same step. It needs `AwaitedIsPending` (a request may only leave the
  line with an answer) and `WorkConserving` (the remote holds the front of the
  line and nothing less).

  `WaitingIsAnnounced` needs the flag that stands for it, hence `Flagged`: a set
  flag means that the latest wake request covers the queue, and the flag is set
  whenever work waits without a remote. `AnnouncementSafe` follows. For module
  `Push`, `PublicationSafe` adds that the newest wake request is the last in the
  channel, or else the one in hand, or else the one published last (`Newest`).
* `RemoteSessionProofs`: the four properties of `Pairing` together with its types
  are inductive once it is known that ids in use have been generated (`IdsUsed`),
  that a write under way belongs to the state it was made from (`WriteFits`),
  and what an orphaned write implies (`OrphanFits`). Every step of the
  composition is a step of `Pairing` (`SessionsUsePairing`), so its theorems
  carry over. `ServiceSafe` and `SlotNotLeaked` need that no task has seen a
  future generation (`SeenPast`) and that the pairing write under way is the one
  its holder started (`HolderFits`).
* `DaemonProofs`: `SocketSafe` and `KeySafe`, for any number of processes, starts,
  inodes and keys. `SocketInv` says that where a process holds a claim, no other
  process is past its probe, between a check and a removal, or remembers the
  claimed inode; every step either respects that or has no claim to disturb.
  `KeyInv` describes the one process that may be creating the file, what the file
  holds meanwhile, and that any key known by then is excepted.
* `AgentConnectionProofs`: the three invariants of a connection and
  `IdentitiesCurrent`, for any number of connections, frames and pipelined
  requests. `Inv` numbers the responses: what was written, what is being written
  and what is owed are the frames received, in order and without a gap
  (`Numbered`), each a reply to its frame or waiting with the context of the
  connection (`Matched`); and a request is in one place only, in line, in the
  channel or with the broker (`Placed`, `Tracked`). `RequestsTracked` alone is not inductive, since
  without the numbers two responses could wait for one request.
  `IdentitiesCurrent` needs that a router that has not seen the latest list has
  a change pending (`RoutersCurrent`). What `Kept`, a recursive function over a
  sequence, returns is proved by induction with a set in place of a predicate
  (`SetInduction`).
* `ContextCodecProofs`: `DecodeOfFrame` and `FrameOfDecoded` say that `encode` and
  `decode` are inverse to each other up to the spelling of the group ID, for
  contexts and packets of any length and limits of any size: exactly the frames of
  a context that `encode` accepts, one per spelling, are read as it, if all bytes
  are UTF-8; `RoundTrip` and `OneReading` follow for every behaviour, from
  the invariant that what is on the wire came from `encode` or is any packet
  (`Sent`). The two argument loops are recursive functions. `Recursion` shows
  that such a function exists, by induction with a set in place of a predicate,
  and then each loop is described step by step (`TakenFacts`, `PushCommandFacts`,
  `SizeFacts`, `LossyFacts`). Decoding what was encoded (`CommandIsRead`) goes
  along the arguments: the packet is what was pushed so far followed by what is
  still to be read, and the decoder gives up exactly where the encoder's sum has
  passed the limit. The converse (`ReadIsCommand`) first shows that every argument
  is the string that was read, which is where UTF-8 is needed, and then that
  pushing the arguments again rebuilds the packet.
* `ClientSessionProofs`: five properties of the browser's session from one
  invariant, and `NoStall` from a second step. The session's promises depend on the
  order of the store's answers, so `Inv` describes the store queue: only a load
  is ever current, and it is the last operation; there is at most one save; a
  socket exists only while the queue is empty or holds the one save its
  handshake waits for (`AwaitsSave`). `SessionsNeverStall` assumes that
  deletions do not fail (`~DeleteMayFail`), as `client_settles` does: a rejected
  deletion leaves a session without anything under way.
* `WorkerProofs`: the types for any number of overlapping calls, and, for one
  call at a time (`OneCall`), that store, memory and, once connected, identities agree.
  The page's `working` flag aims at that; where it fails, two overlapping calls
  overwrite each other's change and the theorems do not apply (section 3). The properties speak of the states between calls, so `Agreement` adds
  what holds during one: before its write a call has read the stored vault
  (`WorkingAgrees`), after it the store has what memory is about to get
  (`CommittedAgrees`). `LockHoldsBetweenCalls` bounds what `worker_relock`
  exhibits: a locked vault is unlocked only by an unlock, or by a change of keys
  that had read the vault before it was locked.

Only model-checked: the liveness properties (`WaitingIsTried`, `OverdueAnswered`,
`CancellationAnswered`, `RevokedLeaves`, `DeadLeaves`, `Settles`), since no prover
here handles fairness. Every other property of a passing run is a theorem. The
types of the modules, the two broker limits and the theorems about refused
connections and the lock are only proved.

## 5. What is left out

* Wire protocol (`remote/protocol.rs`, `remote/protocol.ts`) and file encodings:
  derived serializers without a decision of their own; the messages are the
  models' inputs. The hand-written context codec is modelled.
* Payload, encryption and signature of a push message, and the permissions of the
  key file: data. A key file readable by others is refused like a partial one.
* Cryptography, key parsing, WebAuthn: functions without state.
* Credentials: a client id stands for its id and credential; guessing is not
  considered.
* A state file that is corrupt or readable by others: `open` refuses to start.
* Settled authorizations, snapshots and everything shown to the user.
* Web server, configuration, service worker and the commands other than
  `write-context`: no state of their own.

## 6. Plan

Next, in this order:

1. `ClientSession` composed with `RemoteSession`: what a browser sees when it
   reconnects while the server holds its half-open session, and the client's
   buffer against the server's capacity (two of the hazards that have no property yet);
2. the wire protocol of `remote/protocol.rs` as messages with their limits, checked
   and proved the way `ContextCodec` is.
