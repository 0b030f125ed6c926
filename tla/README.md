# shibby: a verification project in TLA+

shibby is a daemon (`uat-node`) that places and answers *calls* between nodes. One call is one
QUIC connection with one bidirectional stream: the caller sends `Submit`, the callee accepts it,
may report progress or ask for input, and ends it; either side may be timed out, cut off, shut
down or refused. Each side leaves one audit record of the call. The specifications here are
translated from the Rust sources under `src/crates/`; sections 3 to 10 name the code each one
stands for, and the `map` of `PROJECT.json` gives the lines.

## 1. Inventory

| Component | Source | State it keeps | Operations | Interacts with |
|---|---|---|---|---|
| Call tables | `uat-core/src/state.rs`, `codes.rs`, `outcome.rs`, `message.rs` | `CallerState`, `CalleeState` | `caller_step`, `callee_step` on send, receive, timeout, connection loss | stepped by the loops and by the harness |
| Call loops | `uat-node/src/call.rs`, `frame_io.rs`, `timing.rs` | table state, timers, the frame being read, `request_cancel` | `run_caller_with`, `run_callee_with`, the `select!` loops | QUIC connection, records, policy, shutdown token |
| Call records | `uat-node/src/record.rs` | outcome, task, authorization, `emitted`; JSON files | `set_*`, `observe_result`, emission on drop, sinks | written by the loops and by `handle_incoming` |
| Rate limiter | `uat-policy/src/rate_limit.rs` | per peer: `in_flight`, queue of attempts, under one lock | `try_admit`, `release`, drop, `attempts_in_window` | called by one task per incoming connection |
| Node | `uat-node/src/node.rs` | endpoint, task tracker, cancellation token, inbox channel | accept loop, `handle_incoming`, `dial`, `shutdown` | all of the above |
| Answering policy | `uat-policy/src/lib.rs`, `uat-node/src/auth.rs` | allowlist, root keys, spent set | `verify_peer`, `UnverifiedSubmit::verify`, `try_spend` | called by admission and by `callee_loop` |
| Local socket | `uat-node/src/local.rs`, `node.rs` | the file `node.sock`, its mode, the listener | bind, connect, removal at the end of the loop and in `shutdown` | CLI processes, other daemons |
| Inbox | `uat-node/src/local.rs`, `node.rs` | bounded channel, the `latest` slot | `try_send`, forwarder, `take` | callee tasks, local sessions |
| Identity | `uat-node/src/identity.rs` | key file | load, create | start-up |
| Frame codec | `uat-core/src/codec.rs`, `types.rs`, `error.rs` | none | `encode`, `split_frame`, `decode` | `frame_io.rs` |
| Daemon, CLI, MCP stub | `uat-node/src/main.rs`, `uat-cli`, `uat-mcp` | none | arguments, printing, signals | pure I/O |

What is hard in this code, and what makes each part correct:

* **Tables.** Messages cross on the wire. Correct means: a conforming peer never sends what the
  receiver's table lacks, both sides end alike when an answer is delivered, and Cancel is always
  answered.
* **Loops.** Closes overtake frames; timers, a shutdown token and a test hook compete with the
  read in a biased `select!`; every early return decides a record. Correct means: the loops
  implement the tables' protocol, every side always ends with a record, and the two records never
  contradict each other.
* **Rate limiter.** The clock is read before the lock is taken. Correct means: slots are counted
  exactly, caps hold, the per-minute cap errs by the scheduling lag at most, in either direction.
* **Policy.** A time sampled before an await, a lock taken twice, a set whose entries expire.
  Correct means: a one-shot token passes once while its entry lasts, racing calls do not refuse
  each other both, and only an accepted token is spent.
* **Node.** Shutdown against tasks in flight. Correct means: it returns, and nothing tracked is cut
  off when the endpoint closes.
* **Local socket.** Several processes on one path, each with several system calls. Correct means:
  one daemon serves a home, its file is private, clients are told the truth, litter does no harm.
* **Inbox.** Events pass a bounded channel, a hand and a slot. Correct means: reported in order,
  none twice, the newest never lost, no backlog when nobody polls.
* **Frame codec.** Two length fields, two maxima, reads in pieces. Correct means: both ends draw the
  line at the same lengths, and what is read is what was sent.
* **Identity.** System calls of several processes on one key file, kills between any two. Correct
  means: one key for all of them, private, never torn or replaced once its maker runs with it.
* **Record files.** Names that other calls may have taken. Correct means: one file per record, and
  none given up while a name was free.

`PROJECT.json` lists each hazard at its line with the properties that cover it, or the reason why
none does.

## 2. Modules

In the order in which they were planned and written, the behaviour that matters most first:

1. `CallTables`, `CallProtocol` (`CallProtocolInv`, `CallProtocolProofs`): the tables and the
   protocol they promise. This is the abstract specification of a call.
2. `RateLimiter` (`RateLimiterProofs`): admission under concurrency.
3. `CallLoop` (`CallLoopProofs`): the real loops over QUIC with their records, composed from both sides, shown to
   implement `CallProtocol`.
4. `SpentSet` (`SpentSetProofs`): authorization of a Submit and the spent set.
5. `NodeLifecycle` (`NodeLifecycleProofs`): tasks, inbox and shutdown of one node, shown to
   implement `InboxPromise`.
6. `LocalSock` (`LocalSockProofs`): the socket file and the processes around it.
7. `CallTimers` (also in `CallProtocolProofs`): `CallProtocol` with its two timers on a clock.
8. `FrameCodec` (`FrameCodecProofs`): one direction of a call's stream in octets.
9. `Identity` and `RecordFiles`, which implements `RecordBook`: the key file and the record files;
   `Home` composes them: the processes that share a home (`HomeProofs`, for the three).

`MC...` modules give TLC its instances; the `.cfg` files say which.

What a next step would be: a composition of `FrameCodec` with `CallLoop`, whose streams hold whole
frames today.

## 3. The protocol: `CallTables`, `CallProtocol`

`CallTables` holds the vocabulary and the two tables. A row is `<<phase, message kind, next
phase>>`; `caller_send`, `caller_recv`, `callee_send`, `callee_recv`, `caller_timeout`, ... are
`caller_step` and `callee_step` by event, each returning the set of next states: empty where the
code returns `Err(Illegal)`. `EmitOnRecv` and `EmitOnTimeout` are `Step::emit`. Payloads are left
out, since no entry reads them.

`CallProtocol` joins a caller and a callee by a FIFO channel each way. Each action is one step of
one endpoint. What the tables leave to their driver is free: which legal message is sent, when a
timer fires, when and with which close code the connection is lost.

| Run | Question | Bounds |
|---|---|---|
| `protocol` | `NoIllegalReceive`, `AnswerAgreement`, `CanceledOnRequest`, `OneQuestionOpen`, `TimesOutForCause`, `NoRejectionOnceAccepted`, `CancelResolves` | all close codes, both timers with deadlines 0 and 2, Progress only while fewer than 3 messages are in flight |

*Time*: `CallTimers` extends `CallProtocol` by what is left of each side's timer. `caller_budget` and
`callee_budget` are those of `timing.rs`; both `select!` loops are biased, so a side whose timer is
due (`Due`) does nothing else, while the callee's stub emits its answers without a look at the timer
(`CalleeEmits`). `Tick` lets time pass for whoever waits. Nothing bounds how late a message arrives
or a due timer is noticed, hence every order of timers that `CallProtocol` allows is still there.
`lib.rs:37` says that the margin "ensures the callee always emits `DeadlineExceeded` first when both
timers run". `TimesOutForCause` is what it does ensure: a caller that gives up on a callee with a
connection has waited GRACE ticks in vain for Submit to arrive, for the callee to notice its
deadline, or for the answer. The deadlines 0 (which `Deadline::new` accepts) and 2 with GRACE 2 let
each timer fire first.

A callee may fall silent at any moment (`CalleeFallsSilent`): `SilentHang` never polls its read half
(`call.rs:681-683`, `926-928`), and a loop that returned early does nothing at all any more.
`CancelResolves`: a Cancel is resolved by the callee's answer, with no timer, as long as the callee
reads (or has lost the connection), and by the caller's own timer when it has fallen silent, as the
test `l4_canceling_reaches_terminal_via_caller_timer` has it. Timers and losses are allowed and not
obliged to happen while the callee reads.

`MaxInFlight` bounds Progress alone, the only message that can be sent over and over without an
answer; three messages in flight allow every pair of different messages to follow each other
with one more behind. *Fairness* (`PromptSpec`): the caller polls its read half and its timer until the
call ends, and so does a callee that has not fallen silent; so a receive that stays possible happens
and a due timer is noticed. Of a silent callee nothing is assumed, only that time then passes (the
caller's `Sleep` elapses). Applications, losses, and time while the callee reads, get no fairness.

## 4. The loops: `CallLoop`

One record of the state of each side: `pc` (where the task stands), the table state, `wire`
(frames written and not read), `link` (open, or the code `conn.closed()` reports), `bye` (the
`CONNECTION_CLOSE` it sent), `record`. A step is what a task does between two awaits at which
something it reads can change.

* *Caller*: `CallerOpens` (open_bi, close reason), `CallerSubmits` (table step and write of
  Submit), `CallerChecks` (the second look at the close reason), then one action per `select!`
  branch: `CallerStops` (token), `CallerTimer`, `CallerSeesClose`, `CallerCancels`
  (request_cancel), `CallerReads`, `CallerReadFails`; `CallerFinishes` at the head of the loop.
* *Callee*: `CalleeAdmits` (`handle_incoming`), `CalleeAccepts` (accept_bi), `CalleeNoSubmit`,
  `CalleeReadsSubmit`, `CalleeDenies`, `CalleeEmits` (the stub of each `CalleeBehavior`), the
  branches of `callee_wait_terminal`, `CalleeLeaves` (the GRACE wait).
* *Environment*: `CloseArrives`, `LinkLost`, `BeginShutdown`.

Points where the model follows details of the code: an outcome set on an error path is overwritten
by `observe_result`; a local close is later reported as ProtocolViolation; a side that is cancelled
drops its streams just before its connection (`fin`), which the peer may see as the end of the
stream; a read that loses to request_cancel is dropped with the bytes it had taken (`torn`); a read
may fail because the connection was lost after `conn.closed()` was polled. A read that succeeds
although the close has just arrived is the same as one before the close. `biased` is kept by the
guards: no branch runs once the token is cancelled, none but the failing ones once the link is
down. A branch that only a slow poll allows (the failing read) stays enabled while the link is
down; that adds no record that an earlier or later close would not give.

Left out: write timeouts (QUIC buffers frames of this size), the second-stream watchdog (a
conforming peer opens one stream), a failing handshake, `Err(Illegal)` branches (never taken, by
`NothingIllegal`), authorization text and byte counts in records. The verdict of admission and
authorization is an input.

| Run | Question | Bounds |
|---|---|---|
| `loops` | `ImplementsProtocol`, `AnswersMatch`, `TaskInBothRecords`, `RateLimitedBeforeTask`, `EveryCallRecorded`; for calm calls `StubCompletes` | one call; every behavior, verdict, fault, timer and shutdown, with and without request_cancel; calm calls to the production stub with none of these |
| `loops_rate_limited` (violation) | `RateLimitedAgreed` | a rate-limited dial, nothing lost |

Nothing in `CallLoop` is bounded: one connection carries one call, and its state space is finite.
*Refinement*: `Protocol` is `CallProtocol` with a channel standing for the frames on the wire
followed by the frame whose write failed. A loop that returns early stops stepping its table, which
is a stutter above. *Fairness* (`TimedSpec`): each side's task is scheduled when it can go on, which
includes its timers, and this is what tokio gives a spawned task and a `Sleep`; the network gets
none. `calm` marks a call that nothing disturbs: in it a close which was sent arrives, since
no timer stands in for it.

`loops_rate_limited` shows where the code departs from what its tests say; the findings in
`PROJECT.json` quote the lines. Its trace: the callee closes RateLimited between the caller's open_bi
and its write; the write fails; the outcome set to `Closed(RateLimited)` is overwritten by PeerLost.

The torn read of `call.rs:347` has no run of its own. If `Accepted` has partly arrived when
request_cancel fires, the read is dropped with what it took, the next one takes payload for a length,
and the caller closes a conforming callee with FrameTooLarge or MalformedFrame, where
`tests/call_record.rs:286` expects Canceled. `CallLoop` keeps this behaviour (`torn`), and
`FrameCodec` states what holds without it. Only tests pass a request_cancel today.

## 5. Admission: `RateLimiter`

Each incoming connection is served by a task: `ReadClock` is `Instant::now()` in `try_admit`,
`TryAdmitAt` all that happens under the lock (prune, record the attempt, verdict, slot),
`ReleasePermit` and `DropPermit` the two ways a slot comes back. `attempts` holds connections, and
`stamp` their Instants, so that equal Instants stay distinct. `Tick` advances the clock, but leaves
no task between clock and lock for more than `MaxLag` ticks: `MaxLag` is an assumption on the
scheduler, and the properties say how the code degrades with it.

| Run | Question | Bounds |
|---|---|---|
| `limiter` | `PermitsCounted`, `CapsHold`, `PromptWindowCap`, `RefusedForCause` | three connections of one peer (symmetric), one of another, Window 2, MaxLag 1, clock up to 3, four configurations in which each cap is the tightest |

`rate_limit.rs` documents the per-minute cap for "any 60-second window"; `PromptWindowCap` is what
the code keeps, a window shortened by the lag, and over the full one a task that lies between clock
and lock may let one more in.
Two attempts out of order and a third that should be refused need three connections; the clock
must pass the window once, which 3 ticks do. A second peer shows that counters do not mix.

## 6. Authorization: `SpentSet`

A call's task samples the clock (`BeginRead`, the first statements of `callee_loop`), waits for a
Submit, and verifies it with that sample. `NoSubmit` stands for every way in which none arrives.
`VerifyPlain` is `verify` wherever the spent set is not reached: allowlist first, then the token's
facts, then deny. A one-shot token whose facts hold takes two steps, `Contains` and `TrySpend`,
because each takes and drops the lock. Both evict by the *caller's* sample. `FactsHold` is
`verify_biscuit_credential` on what the Biscuit library answers: several facts of one name may be
there, since blocks can be added to a token, and all must hold; the entry expires with the earliest
expiry of the credential that was presented. `Restart` empties the set, which `lib.rs` states as
intended. The clock is assumed never to step back: the code samples `SystemTime` (`call.rs:460`) and
relies on this without saying so, since a clock set back makes an expired token valid again whose
entry was evicted. `Patience` bounds the time from sample to verdict: the read is under the QUIC idle
timeout, and nothing is awaited after it.

| Run | Question | Bounds |
|---|---|---|
| `spent_set` | `OneUseUntilExpiry`, `RefusalHasWinner`, `SpentWasUsed`, `ExpiredAcceptedBriefly` | three calls, six kinds of Submit (allowlisted, none, one-shot, the same with a further block, too narrow, reusable), clock up to 4, Patience 2, one restart |
| `spent_replay` (violation) | `NoReplayInRun` | three calls, two one-shot tokens of which one expires at 1, no restart |

Three calls are needed: one uses the token, one evicts its entry, one comes with an older sample.
The clock passes both expiries. The violation is this trace: a call uses the token; a second one
samples the clock, then the token expires; a third call, with a newer sample and another token,
evicts the entry; the second one verifies with its older sample, under which the token is still
valid. `OneUseUntilExpiry` says what does hold: the second use is not before the expiry.

## 7. The node: `NodeLifecycle`

The tasks of one node. `Accepts`, `ShakesHands`, `CallFinishes` and `CallFails` follow an incoming
connection through `accept_loop` and `handle_incoming`; what happens inside a call is `CallLoop`,
here it runs and ends. Connections that nobody accepts are left out. `SendEvent` is `try_send` into the channel of capacity `QueueCap` (32 in the
code), `ReceiveEvent` and `StoreEvent` the forwarder, which looks at the token only between events;
`ServesInbox` takes the slot. Local sessions are accepted by `LocalAccepts` and run on their own,
dials included. `Responds` is the response
on its way to the client, with what `uat listen` and `uat inbox` print. `Signal`, `BeginShutdown`, `WaitReturns`, `EndpointCloses` and `Exit` are the way
down; `LocalBreaks` is the accept loop that ends because `accept` failed. `sent` and `taken` are
histories, `printed` is what client processes show.

| Run | Question | Bounds |
|---|---|---|
| `node` | `QuietWhenClosed`, `ShutdownReturns`, `QueueDrains`, `KeepsPromise` | three calls, two sessions, a channel of one |
| `node_listen` (violation) | `EachEventPrinted` | one call, the first session of `uat listen` |

*Abstraction*: `InboxPromise` is one line of events: an event enters at its end, is handed out from
its head, and is given up only with a newer one behind it; a stop may forget all but the head.
Slot, forwarder's hand and channel, in this order, are that line (`Promise`), so that moving an
event from one place to the next is a stutter and overwriting the slot is giving up the head. What
that means for the clients is stated by two invariants, `ReportedInOrder` and `NewestKept`, which no
run needs to check since they are proved (section 11).

Three events over a channel of one, a hand and a slot: the channel overflows, events replace each
other in the slot, and two sessions may each be told of one. *Fairness* (`RunningSpec`): the runtime polls a task that can go on; a
handshake ends by the transport's timeout, and a call ends because `EveryCallRecorded` holds of
`CallLoop`. Clients, signals and dials get none. Nothing the code does guarantees that every event
reaches a client: the slot keeps the newest only, by design, and a write that fails loses what was
taken. Nor does shutdown wait for a dial of a local session, which the tracker does not know: in the
model, as in the code, a session may still be `dialing` when the endpoint is closed.

`node_listen` is the trace of a call that finished before `uat listen` was started: the command's
first request, meant to see whether the daemon is there, takes the event, and its response is
ignored.

## 8. The socket file: `LocalSock`

Every system call on `node.sock` is a step: `LookForFile`, `Probe`, `RemoveStale`, `Bind`,
`SetMode`, `CheckMode` are `bind_sock`, `LoopRemoves` and `ShutdownRemoves` the two removals,
`ClientLooks` and `ClientConnects` are `connect`. A daemon is one process; a restart is another
one, and `Kill` may strike anywhere. `file` names the daemon whose bind made the file, so that a
removal by name can hit another's. `setting`, chosen at the start, says what may happen in a
history, none of which the code keeps out:

* `starts`, `stops`: two daemons start together, or one while another stops;
* `accept`: `accept` fails, and the loop ends;
* `errors`: calls on the path fail though nothing is wrong with the file. The code tells no error of
  `connect` from another (`local.rs:368`, `402`: a full backlog or a refused permission is a stale
  socket) and `exists` answers false for a path it cannot look at; `CallFails` ends a start, and
  `remove_sock_file` logs and goes on;
* `modes`: the file system keeps no modes. `SetMode` is then in vain, and `CheckMode` warns and
  serves (`local.rs:376-379`; `warned` remembers it).

| Run | Question | Bounds |
|---|---|---|
| `sock` | with nothing of that: `OneServes`, `StartsOverLitter`; in any disorder: `ServedPrivately`; without `errors`: `NoLitter`; without `starts` and `errors`: `ErrorsHonest` | three daemons, two clients, four settings (none; `stops` and `accept`; all, with and without `modes`), kills at any point |
| `sock_race` (violation) | `SecondRefused` | daemons may start together |

`StartsOverLitter` is about each step of a start over what a killed daemon left: it does not fail, and
it is refused only while another daemon listens. `ErrorsHonest`: a client is told that no daemon
runs, or that its socket is stale, while one serves, only after another one's token was cancelled
(the last removal of a predecessor, `node.rs:513`), and with care not at all. `ServedPrivately`: who
serves on the file serves on one of mode 0600, or has warned that modes are not kept.

The care is needed. In `sock_race`, two daemons find one stale file, the first removes it and binds,
the second removes the first one's new file and binds. If a daemon starts while its predecessor
drains, the predecessor's last removal takes the new socket, and clients are told that no daemon
runs; a daemon whose `accept` failed does the same to its successor when it is shut down.

Three daemons: one that leaves litter and two that race over it. Each run ends when every process
has, so deadlock is not checked here.

## 9. Frames: `FrameCodec`

One direction of the stream, in octets. `Frame`, `Encodes` are `encode`, `U16` and `U32` its
`to_be_bytes`, `FrameLen` and `HdrLen` the `from_be_bytes` of `decode_parts`; `DecodeError` is
`decode_parts` followed by `finish_body`, the first test that fails deciding; `Writes`, `Refuses`,
`GivesUp` and `Finishes` are `write_message` and the ends of its stream (a write may be dropped by
a timer half-way); `Loses` is the connection that is lost or closed, which may overtake octets;
`Takes`, `RejectsLength`, `Returns`, `RejectsFrame`, `StreamEnds` and `ReadFails` are `read_frame` and
`read_message`, which get the octets in pieces of any size, the last two being the errors that
`map_read_exact` tells apart (`UnexpectedEnd`, `Read`); `DropsRead` is the `select!` branch that wins
over a read in progress.

The fields have the code's widths, 4 and 2, but an octet has two values, so that lengths wrap and
maxima are met with a handful of octets. Which documents parse is a constant: serde_json is
external, and so are the constructors of the field types (`types.rs`), which it calls. `allowed`
is what the `SubmitAuthorizer` answers; the denying one is used by tests only, since `callee_loop`
verifies after reading.

| Run | Question | Bounds |
|---|---|---|
| `codec` | `InSync`, `FailsForCause`, `SameBounds`, `SentIsRead` | two messages out of four documents (one longer than MAX_HDR_LEN) and bodies of up to two octets; MAX_FRAME 5 and MAX_HDR_LEN 2, each met exactly and exceeded by one |

`SameBounds` speaks of messages that `Fits` the fields: of a longer one there is no frame to decode,
and `encode` refuses it before it writes a length (`u16::try_from`, `u32::try_from`).

`FailsForCause`: a reader that dropped nothing finds no fault with a conforming writer. It reports an
early end only with no whole frame left unread, and leaves frames unread only when the connection is
gone or a Submit is not allowed. What a reader gets after a dropped read (`torn`, section 4) means
nothing, and no property says otherwise; `TypeOK` bounds what it holds even then.

Two frames are the least for one to be read in place of another's rest. `TypeOK` includes that the
reader holds no more than the largest frame. *Fairness*: the reader is polled. The refusal of a long
header by `encode` is modelled, though no `Submit` that the constructors of `types.rs` let through
has one.

## 10. A home: `Identity`, `RecordFiles`, `Home`

`Identity` is `load_or_create_at`: `Looks` (exists, false also for a path it cannot look at),
`LoadsMode`, `LoadsKey`, `Creates` (create_new with a mode), `CreatesPlain` (the fallback without),
`Writes`, `Syncs`, `SetsMode`, `ChecksMode`, and `LoadFails` and `CreateFails` for an error of any call
of `load_at` and `create_at`. A key is named by the process that made it. `disk` is the file system's
treatment of modes: open may obey, refuse or drop one (the code's comment mentions those that reject
it), and set_permissions may be in vain. `IdentityDies` and `PowerFails` strike anywhere. What is
synced is the contents and the mode at `sync_all`; the name in its directory (`identity.rs:138`) and
a mode set afterwards (`147`) never are, and a power failure may take either: the file vanishes, or
has its `old` mode again. What is there after a power failure is on disk. `Repairs` is the operator
who acts on the error the code reports (removes a file without a key, sets the mode), while nobody
starts.

Two starts may race: the one that finds the file made between its look and its create_new fails with
AlreadyExists, which the model keeps and no property forbids. A kill before the write leaves a file
with no key that every later start refuses until it is removed. A loader may run with a key that its
maker has not synced yet, and lose it in a power failure. `KeyOnDisk` is what is left to promise:
whoever runs has the key in the file; and a key that its maker has run with is never torn or replaced,
and goes at most with the whole file, in a power failure, when no process runs with it any more.
`StartsWithKey`: once a maker has started, the checks of `load_at` turn nobody away, but for one case
in the code: where open refused the mode and a power failure has taken back the one set afterwards,
before anybody else started, the key is refused for its mode. A start may still fail by an error of
its own calls.

`RecordFiles` is `write_record_json`: `Emits` (the guard is dropped; create_dir_all), `TakesName`
(create_new tells that a name is free and takes it), `NextName` and `OutOfNames` (AlreadyExists, 32
times in the code, MaxAttempts here), `OpenFails`, `WritesBody`, `WritesNewline` and their failures,
which leave a torn file. Nothing is synced: `RecordsVanish` may take any file, or leave it empty or torn. `RecordBook` is what the
directory promises: a record is kept or missed, decided once; what is missed never turns up, and
what is kept stays unless the machine goes down. A call's `Stem` is its millisecond, direction
and peer, so that calls of one stem compete for names.

`Home` composes the two: a process serves calls once it has its identity (`Starts`, `Serves`), dies
with its calls (`Dies`), and the machine with all of them. `uat-node listen` and `uat-node dial` share one
home.

| Run | Question | Bounds |
|---|---|---|
| `home` | `KeyOnDisk`, `StartsWithKey`, `OneFileEach`, `CrowdedOutOnly`, `KeepsBook` | three processes, three calls of one stem in two of them, one further name, every kind of file system; the two calls of one process are interchangeable (symmetry) |

Three calls and two names: all names can be taken while a task looks for one. Three processes: two
first starts race while a third loads. No fairness is
assumed; all properties are of safety. `RunsPrivately`, that no process runs with a key others may read,
is proved (section 11).

## 11. Proofs

`CallProtocolProofs` (from `CallProtocolAssumption`: the constants are sets of codes and sides, and
a number). The safety properties are not inductive: that the next message has an entry depends on
what was sent before it. `IInv` (in `CallProtocolInv`) adds the shape of the two channels:
`StreamInv` says which message may follow which on the callee's channel, what may be last given the
callee's state and what may be first given the caller's phase; `UpstreamInv` lists what may wait on
the caller's channel (Submit, at most one Input, at most one Cancel, last) for each callee phase;
`CaughtUpInv` ties the two phases when nothing is unread; `OutcomeInv` is the agreement itself. One
lemma per action, one for what each table does, then `Invariance`; `TypeCorrect`, `NeverIllegal`,
`Agreement`, `CancelHonored`, `OneQuestion` and `RejectedFirst` follow.

Its last part is about `CallTimers` (from `CallTimersAssumption`: deadlines and GRACE are natural
numbers). `MarginInv`:
while the callee has its connection, what is left of the caller's timer and what it waited for are
together at least GRACE more than what is left of the callee's. Only `Tick` changes any of the three,
and it takes from both timers unless one of the delays is under way. `MarginKept` follows;
`TimersFollowProtocol` drops the clock, so the theorems about `CallProtocol` hold of timed calls.

`RateLimiterProofs` (from `RateLimiterAssumption`: finitely many connections, `PeerOf` a function,
caps and times natural numbers). `IInv` adds to the properties: `StampInv` (a reading is between
the lock time and `MaxLag` before it), `RecentQueued` (no attempt leaves the queue before it is
old: a pruned prefix ends where the first young one stands), `QueueOrdered` (each attempt once, in
lock order). The window property then follows by embedding the admissions of a window into the
queue of the last one. Results: `SlotsCounted`, `CapsRespected`, `WindowRespected`,
`RefusalJustified`.

`SpentSetProofs` (from `SpentSetAssumption`: credentials are well formed, their expiries finite sets
of numbers, the bounds natural numbers; nothing is assumed of `Calls` or `Ids`). The property to
prove relates two verdicts that may lie far apart, while the set keeps one entry. `IInv` adds:
`FactsInv` and `DecidedInv` (what an accepted call's facts and times are), `EntryKept` (the entry of a use
is there as long as the clock has not reached its expiry, since no sample is ahead of the clock) and `SpentWasUsed`. `EveryStep`
gives each action one shape (which calls change, how the set may shrink or grow), so that
every part of the invariant is proved once and not per action. Results: `OneShotUsedOnce`,
`RefusalsHaveWinners`, `OnlyUsedIsSpent`, `ExpiryHonored`.

`CallLoopProofs` (from `CallLoopAssumption`, which gives the constants their types) has two halves.
The first shows that the loops implement `CallProtocol`. `ControlInv` says how far a loop must be for
each table state: the caller's table is at Dialing until its Submit is written, the callee's has left
Idle exactly when its first frame was read, a callee that waits has not ended and one that lingers
has, and only a loop that is returning has left a frame unsent. A frame that was stepped but could
not be written stays in `lost`; a channel of the protocol is what the stream holds and then what was
lost. `MapsCaller`, `MapsCallee` and `MapsStep` then take every branch of the loops to the action of
`CallProtocol` that takes the same table step, or to a stutter where only `pc`, closes or records
move; `ProtocolFollowed` is the result. The second half uses it: every theorem of `CallProtocolProofs`
holds of the loops' tables (the module is instantiated with the same mapping and its invariant cited,
not proved again), and `RecordInv` ties the records to the tables: `CallerAnswerInv`, `CalleeAnswerInv`
(a record says what the table ended with, unless the last frame was lost), `LimitInv` (who closes with
RateLimited, and when) and `TaskInv` (a record without a task is that of an unwritten Submit or of a
refused connection). The step that needs the protocol is the caller that reads an answer: the answer
is the callee's last frame, so the callee has lost none, and its record is that answer. Results:
`AnswersAgree`, `TaskKnownToBoth`, `LimitedBeforeTask`; `NothingIllegal`: the `Err(Illegal)` branches of
`caller_loop` and `callee_loop` are not taken between two nodes of this program; `NeverRevised`: a
record is emitted once.

`LocalSockProofs` (from `LocalSockAssumption`). Two parts hold in any disorder (`LitterInv`,
`ModeInv`: the file a daemon serves on is private once it has passed `SetMode`, or the mode is not
kept and its check has warned), others where daemons start and stop one at a time (`CareInv`):
`ApartInv` (nobody starts beside one that starts or stops), `LookedInv` (so what was found at the path
is still there when it is acted on), `ListenInv` (whoever listens has the file). `QuietInv` is for
histories without simultaneous starts and errors: a daemon that serves without having the file has
lost it to one whose token is cancelled (`LostInv`), since nobody else removes it by name. Results:
`AtMostOneServes`, `StaleIsReplaced`, `NothingLeft`, `PrivateWhenServed`, `ClientsToldTruth`.

`NodeLifecycleProofs` (from `NodeAssumption`: a channel of at least one place). `DrainInv` says that the
loops end only once the token is cancelled and that what was waited for does not begin again;
`SentInv` that an event is accepted once; `LineInv` and `TakenInv` that taken events, the slot, the
hand and the channel follow each other in the order of acceptance; `NewestInv` that its end is not
lost. Results: `QuietAfterWait`, `InOrder`, `NewestNotLost`, and `PromiseKept`, the refinement of
`InboxPromise` action by action.

`HomeProofs` (from `IdentityAssumption`: `None` is no process; `RecordAssumption`, `HomeAssumption`).
For the key file, `MakerInv`: the maker of a file is alone with it until it is done, and the file is
as far as the maker is; `SeenInv`: what a process has seen of the file stays true while it starts;
`AgreeInv`: who runs has the key in the file; `ModeInv`: which mode the file may have, and may fall
back to, on each kind of file system; `HeldInv`: a key its maker has run with is synced.
Results: `KeyStays`, `NoOpenKey`, `NobodyTurnedAway`. For the record files, `OwnFile` and `FileInv` tie
a file to its maker's task and present name, `TriedInv` says that the names before it are taken.
Results: `OneFile`, `CrowdedOut`, `FilesKeepBook` (the refinement of `RecordBook`). `HomeSafe`: steps of
`Home` are steps of `Identity` and of `RecordFiles`, or stutter, so all of it holds of the composition.

`FrameCodecProofs` (from `FrameCodecAssumption`: an octet has at least two values, the maxima can be
written in their fields, documents and bodies are sequences of octets). `Digits` and `FrameFields`:
the two fields hold what was written in them, so that `decode_parts` cuts a frame where `encode`
joined it; `FrameDecodes`: no test of `decode` but the authorizer's fails on it. `RoundTrip` and
`EncodeAgreesWithDecode` follow. Of the stream, `InSync` is not inductive: what was read says nothing
of what comes. `SyncInv` says that the octets the reader has taken, with those still on the stream,
are the frames of the messages that were sent and not read, and behind them at most a part of one,
left by a write that was given up. `Carries` states it by what remains of the octets after each
frame, which needs no induction over the messages: the first frame can be taken off and one more put
behind the last. It holds while nothing is `torn`, since a dropped read leaves the reader inside a
frame. `RoomInv` bounds what the reader holds by the length it accepted, also after a dropped read;
`StopInv` adds to `FailsForCause` that the refused Submit is there to be read. Results:
`ReadsWhatWasSent`, `StopsForCause`.

The modules also prove their components' type invariants (`TypeCorrect`, `TimersTyped`,
`IdentityTyped`, `RecordTyped`), for every value of the constants; only the run `codec` repeats one,
for the bound on what the reader holds. Neither do the runs repeat `RunsPrivately`,
`ReportedInOrder` and `NewestKept`. TLC found no violation of these on the instances above: each can
be added to the configuration of its component's run, and so can `IInv` of `CallProtocolInv` and of
`RateLimiter`.

Only model-checked: liveness (`CancelResolves`, `EveryCallRecorded`, `StubCompletes`,
`ShutdownReturns`, `QueueDrains`, `SentIsRead`), which needs fairness and ENABLED and is out of the
prover's reach. Every invariant and every refinement that a run checks is proved.

## 12. Not modelled

* `uat-mcp` is a stub; `node_id.rs` is a newtype; scripts, fuzz targets and recorded runs are drivers.
* Argument parsing, printing and formatting of `uat-node` and `uat-cli` are pure I/O. Of their
  control, the signal, shutdown, `uat listen` and `uat inbox` are in `NodeLifecycle`, and which
  processes share a home is in `Home`. When `uat-node dial` is told to stop, it drops the dial's future
  (`main.rs:206`), whose guard then records PeerLost: in `CallLoop` this is a lost connection.
* Constructors and parsers of `types.rs`: pure checks of one value.
* Byte counts, path and authorization text in records; tracing.
* The frames of the local socket, which are units in `NodeLifecycle`.
* Memory of the limiter's map, and sessions of local clients past shutdown: behaviour the code neither
  prevents nor promises anything about (see the hazards without a property).

## 13. Mutants

A definition named `Mut...` is a plausible bug in the definition that follows it: a forgotten row of
a table, a check dropped, a slot given back twice. It is used by no specification. `PROJECT.json`
pairs each property with one: with the mutant in its place, TLC refutes the property.
