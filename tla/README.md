# Kaabot: a TLA+ model of the endpoint and its remote control

Kaabot is a two-wheeled robot driven over the Internet. The *remote control*
(`src/kaabotremote/src/kaa_demo.c`) turns key presses into events, the *bot*
(`src/kaabot/src/kaa_demo.c`) turns events into motor pulses, and both are
endpoints of the Kaa platform through the C endpoint SDK each carries in
`libs/kaa`. The SDK copies differ in log settings and generated event classes
only; line numbers below are those of kaabotremote, with
`K = src/kaabotremote/libs/kaa/src/kaa/`.

## 1. Inventory

| Part | State it keeps | Operations | Interacts with | What makes it correct |
|---|---|---|---|---|
| TCP channel (`K platform-impl/kaa_tcp_channel.c`), one for bootstrap, one for operations | access point and its state, descriptor, channel state (authorization), sync state, pending services, in and out buffers, keepalive | `set_access_point`, `sync_handler`, `process_event`, `check_keepalive`, `is_ready`, resolver callbacks, parser callbacks | bootstrap manager (failed access points), platform protocol (what to send), kernel | one open descriptor at a time, to the chosen access point; CONNECT first; authorization belongs to a connection; no request forgotten; recovery from failures |
| Bootstrap manager (`K kaa_bootstrap_manager.c`) | index in the circular bootstrap list, operations list and position in it | `handle_server_sync`, `on_access_point_failed`, `on_server_sync` | both channels, synchronously and reentrantly | every failure leads to another access point; a used-up list is renewed |
| Event loop (`kaa_demo.c`) | `is_shutdown` | `select`, one handler per ready descriptor and direction, keepalive on a timeout, input | channels, keyboard thread | keeps turning; handles stale readiness |
| Remote control (`kaabotremote/src/kaa_demo.c`) | `direction`, `is_shutdown`, shared by two threads; `prev_direction` | `read_keyboard`, `kaa_demo_process_input` | event manager | the bot goes where the last key says; `q` ends the program |
| Bot (`kaabot/src/kaa_demo.c`) | the motors | movement event | event manager | obeys in order |
| Channel manager (`K kaa_channel_manager.c`) | list of channels, bootstrap request | add, remove, find, new access point | channels, bootstrap manager | finds the channel of a service |
| Platform protocol (`K kaa_platform_protocol.c`) | request id | serialize client sync, process server sync | all managers | an answer is matched to its request; what is asked for can be written |
| Event manager (`K kaa_event.c`) | pending and sent events, sequence number, listener requests, transactions | send, serialize, handle answer, find listeners, transactions | channel, platform protocol | each event arrives, in order, once, whatever is resent or renumbered |
| User manager (`K kaa_user.c`) | user to attach, waiting flag | attach, serialize, handle answer and notifications | channel | credentials reach the server; both sides agree on the attachment |
| Profile manager, status (`K kaa_profile.c`, `kaa_status.c`) | resync flag, registered flag, hash; the status file | serialize, handle answer, save | channel, file | the server has the profile and the key the endpoint leaves out |
| Log collector, storage, upload strategy (`K kaa_logging.c`, `platform-impl/ext_log_*`) | list of records with bucket ids, two pointers into it, sizes and counts; bucket id; delivery timers; retry time | add (with forced removal), serialize a bucket, delivery status, timeout | channel, bootstrap manager | a record is removed only when delivered; oldest first; each bucket timed; size within its limit |
| Configuration manager (`K kaa_configuration_manager.c`) | sequence number, record; the configuration file | serialize, handle answer | file, application | sequence number, record and the two files agree, over restarts too |
| Kaa TCP parser and requests (`K kaa_protocols/kaa_tcp`) | parser state, length, payload | process buffer, build requests | channel callbacks, byte buffers | messages out equal messages in, whatever the fragmentation |
| Collections, buffer, log, memory (`K collections`, `K utilities`) | lists, deque, byte buffer | | everything | sequence semantics |
| stm32/esp8266 client (`K platform-impl/stm32/leafMapleMini/esp8266/`): client loop, channel, driver | connection state, one channel at a time; slots of the module, the frame being read | module setup, status check, frames, connect, send, disconnect | WiFi module over a serial line, bootstrap manager | the channel, the driver's slots and the module's links agree; operations is reached again |
| POSIX, Econais, iOS; Avro, SHA, generated code | | | | pure I/O and conversions |

What is hard here: failures arrive in the middle of call chains that go from a
channel through the bootstrap manager into the other channel or back into the
same one; readiness, resolver answers and parsed messages are used after the
state they speak of has changed; the two threads of the remote control share
variables without synchronization; requests are marked as sent when they are
written to a buffer, which the connection may not outlive; the status and the
configuration are two files; on the microcontroller, answers to commands and
frames of the servers share one serial line. `PROJECT.json` lists each hazard at its line.

## 2. Modules

Transport:

* **TcpChannel** – one channel as a value (`ChannelRecords`, the fields of
  `kaa_tcp_channel_t`) and the functions of `kaa_tcp_channel.c` that touch
  nothing else, as operators from channel to channel.
* **KaaTransport** (extends TcpChannel) – the two channels, the bootstrap
  manager, the event loop, and as environment the kernel and the servers.
  Functions that call across components are operators from *system record* to
  system record, named after the functions; the handlers of the event loop are
  the actions. `chan` holds the channels; `current` stands for
  `operations_access_points->current_access_points` (`NoList`: no list,
  `NOps + 1`: used up), `bootIndex` for `bootstrap_access_points->index`; `todo`
  is what the present turn of the loop still has to do, `parse` what is left of
  the buffer being parsed.
* **KaaTcpParser** – the framing of `kaatcp_request.c` and the parser of
  `kaatcp_parser.c`, byte by byte, as operators.
* **KaaTcpStream** (extends KaaTcpParser) – one channel and its server with bytes
  on the line: partial reads and writes, the bounded out_buffer, keepalive. What
  KaaTransport takes for sequences of messages.
* **MessageChannel** – what a connection promises each end: whole messages, once,
  in order. KaaTcpStream refines it in both directions (`ToClient`, `ToServer`).
* **Esp8266Client** – the second implementation of the client: the driver's slots
  and frames, its channel, and the loop that has one channel at a time.

Managers:

* **EventManager** – `kaa_event.c` as operators on a manager record: pending and
  sent events, numbers, blocks (transactions), listeners requests.
* **EndpointSync** (extends EventManager) – the platform protocol with the event,
  user, profile and configuration managers, the two files, the operations
  channel as the managers see it, and a server. `Serialize` and `SerializeFails`
  are `kaa_client_sync_serialize`, `Receive` is
  `kaa_platform_protocol_process_server_sync`.
* **EventService** – what sending events promises: accept, arrive in order, forget
  what has arrived. EndpointSync refines it (`EventsInOrder`).
* **LogStorage** – `ext_log_storage_memory.c` as operators on a storage record:
  which bucket each stored record is marked with, `first_unmarked`,
  `last_log_it` and the three counters.
* **LogDelivery** (extends LogStorage) – `kaa_logging.c` with the upload strategy
  by volume: adding, building a client sync, handling a server sync status by
  status, timeouts; the channel and the server as far as log collection sees
  them.
* **LogService** – what log collection promises: accept, deliver, forget what
  was delivered. LogDelivery refines it with an unlimited storage
  (`KeptUntilDelivered`).

Applications: **RemoteControl** – the keyboard thread and the main thread of the
remote control, one step per access to a shared variable, and the bot.

**MCKaaTransport**, **MCRemoteControl**, **MCLogDelivery**, **MCEndpointSync** are
model-checking instances; **KaaTransportProofs**, **RemoteControlProofs**,
**LogDeliveryProofs**, **KaaTcpStreamProofs**, **EndpointSyncProofs**,
**EventOrderProofs**, **Esp8266ClientProofs** and **LeastElements** hold theorems.

Operators marked *Mutant* in the modules are plausible bugs; each property of a
passing run is violated when one of them replaces the real definition, so each
run can see the bug its property is about. They take no part in the
specifications.

### Modelling decisions

**Transport**

* Threads: the SDK is single-threaded. A call chain from a handler is one step;
  every handler of one turn of the loop, and every message of a received
  buffer, is a step of its own, so that the peer and the resolver act in
  between. (The resolver's callbacks run between turns of the loop.)
* Messages are atomic in KaaTransport. A buffer is a sequence of messages,
  `OutCapacity` its size; a read takes any prefix of what has arrived. A
  serialization that does not fit has dropped its services from the pending list
  already, as in `write_pending_services`. That the stream of bytes may be taken
  for messages is what KaaTcpStream checks.
* A write that takes no bytes makes `kaa_buffer_free_allocated_space` fail, a
  read without data on a live connection makes `kaa_buffer_lock_space` fail:
  both return an error and change nothing.
* Sockets are modelled together with their connection. `leaked` records that a
  descriptor was dropped or overwritten while open.
* Faults (`FaultKinds`, at most `MaxFaults`): `open` (socket or connect fails at
  once), `dns` (cannot resolve, or the connection data cannot be parsed),
  `write`, `busy` (nothing written), `refuse`, `close`, `disconnect` (DISCONNECT
  or internal error), `garbage` (malformed message), `reject` (CONNACK refused),
  `empty` (a bootstrap answer without access points). A fault chosen for a step
  must be met by it; a step may meet several.
* The server speaks only after a CONNECT on the same connection, and answers a
  bootstrap sync with a list of `NOps` access points.
* POSIX resolves synchronously; `AsyncDns` models platforms that return
  `RET_STATE_VALUE_IN_PROGRESS` and call back.
* Services are an arbitrary set `OpsServices`; which of them are synced by whom
  is `StartServices` (before `kaa_start`), `InputServices` (application code
  between turns) and `CallbackServices` (managers and listeners called while an
  operations answer is parsed).

**Stream**

* A byte is a number: a type, a length digit or an opaque payload value; `Base`
  stands for the 128 of the length digits, so that short payloads have lengths
  of several digits. The server parses with the same operators.
* The in_buffer is empty between two events (what is read is parsed and freed by
  the event that read it), so it is no variable.
* The channel is a bootstrap or an operations channel, chosen at the start, with
  one connection at a time. A channel that gets another access point while
  connected is left to KaaTransport.
* When a write fails and another access point is found, `FD_WRITE` goes on as if
  the channel were still connected (`kaa_tcp_channel.c:746`, `:774`): `WriteFails`. With
  services pending an operations channel authorizes on the closed channel
  (`GoOnClosed`), and the next connection sends the CONNECT that this leaves in the
  out_buffer. A bootstrap channel queues its sync, fails to write that too and is
  reset again. Any other end of a connection, a failed write without pending services
  included, is `Lost`.
* `LastWords` lets the server go on after a message that closes the channel. The
  handlers of the messages that follow run on a closed channel, and the rest of
  the read is left in the parser, which has just been reset; the run assumes
  that the server stops there.

**Managers**

* A sync is one step on either side, a message a record with one field per
  extension. `Services` go with CONNECT, the pending ones with a later sync; they
  are dropped from the pending ones whatever comes of it, as in
  `kaa_tcp_channel_write_pending_services`. A CONNECT that cannot be built leaves
  the channel `up` until the connection is lost: there is nothing to write, so the
  socket is not asked for room (`kaa_tcp_channel.c:602-624`).
* The server (not in the repository) is what the comments and the handlers of the
  endpoint expect: it answers a request for the number with the highest one it
  has seen, takes events with higher numbers than that in the order of the
  message, answers with the request's id and with an event extension when the
  request had one, verifies credentials in its own time, compares the hash of the
  configuration, and sends news of its own (id 0, no event extension) over a
  connection whose CONNECT it has seen. Without one the news is lost: the ghost
  `missed`.
* Mishaps (`MishapKinds`, at most `MaxMishaps`): `drop` (the connection), `restart`
  (the program stops, also between the writes of the two files), `full` (no room
  in the out_buffer for a built sync), `memory` (no buffer for a sync), `corrupt` (a
  configuration that cannot be deserialized; the extensions come in any order, so
  those before it are handled or not), `listeners` (an application that looks
  for listeners at any time; the demos do so when attached), `forget` (another
  operations server, without the profile), `publish`, `notify`.
* `kaa_status_t.event_seq_n` is never written, so an endpoint starts with the
  number 0 and asks for the server's.
* A profile is what the server has or lacks: the profile of this build is empty,
  and `kaa_profile_manager_update_profile` is not compiled in.

**Log collection**

* In LogDelivery a record is the number of its `kaa_logging_add_record` call.
  The list is in the order of the numbers, which `LastIsTail` justifies. Sizes
  include the length prefix and the padding.
* `KAA_TIME` is only compared with deadlines, so a comparison is a choice. Only
  the oldest deadline is looked at, and a timeout retries every bucket.
* When `first_unmarked` names a freed record its memory may since have become
  any node of the list, or lead nowhere: the search starts at any record or
  finds none. (That the program may also crash is the same as stopping.) The ghost
  `astray` records that a search began there.
* The channel is `down`, `up` (connected, but the CONNECT could not be built),
  `authorizing` or `authorized`. A lost connection (`Drop`) loses requests and
  statuses on their way; the statuses of a server sync already being handled stay.
  The server answers requests in any order.
* A timeout is no lost connection. `kaa_bootstrap_manager_on_access_point_failed`
  replaces the access point (`ReplaceAccessPoint`): the connection closes and what
  is on its way with it, but `channel_state` stays (`kaa_tcp_channel.c:1423-1452`), and
  on the next connection `kaa_tcp_channel_authorize` returns at once (`:1085`). An
  authorized channel is then `deaf`: it syncs with a server that takes no notice,
  for want of a CONNECT. One that was authorizing is `mute`, waiting for an answer that
  nobody owes it, unless its CONNECT was still in the out_buffer and goes to the
  new server. Only a lost connection ends either. At the end of the list of access
  points nothing is replaced until a bootstrap server has sent another (`renewing`,
  `Renew`). The ghost `outlived` records that a request stayed on its way over a
  timeout, which stops the timer of every bucket.
* `IdIsFree` ends the model where a bucket id comes round while its earlier
  bucket is unsettled, which takes 65535 buckets in the program.

**ESP8266**

* A turn of the loop has three stages: status check or setup, reading, the
  channel. A command blocks until the module answers and is one step; frames that
  wait on the line are read as part of the answer and lost (the comment at
  `esp8266_kaa_client.c:661` knows of it).
* The receive callback takes the bytes for the present channel's, whichever slot
  they came on; a failed send leaves slot and link behind; the status check reads
  only the last connection listed and drops the slot that `tmp_array` names.
  `Listed`, `Dropped` and `StatusDrops` are what the code does.
* `rested` stands for the two seconds without a command or a frame after which
  the status is asked for. A frame carries one message of the server. There is
  one bootstrap access point.
* Left out: a disconnect the server calls an internal error (handled as any
  other), syncs for the bootstrap channel, a CONNECT that cannot be built, and a
  frame's error in the same read as a command's answer.

**Applications** – in RemoteControl the connection is a step that writes all
pending events; presses are numbered (ghost) to tell events apart; delivery by
the platform is in order, which `EventsInOrder` gives up to the server.

## 3. Runs

| Run | Shows | Bounds |
|---|---|---|
| `bot_recovers` | `EventuallyOnline`, `RequestsServed`, `UsedUpListIsRenewed`, `ConnectionStartsAuthorization`: after the faults end the bot is online for good, its requests served, used-up lists renewed, every connection authorized | 2 + 2 access points, 2 services, 3 faults of 7 kinds, 1 sync from callbacks |
| `bot_many_faults` | `NoDescriptorLeak`, `DialsChosenAccessPoint`, `AuthorizedOnThisConnection`, `ConnectComesFirst`, `NoForgottenRequest` with a resolver that answers late or not at all | 3 faults of 8 kinds, garbled streams too |
| `any_application` | `TypeOK` with all ten kinds of fault, delivery timeouts and an application that syncs at any time | 2 faults, 1 operations access point |
| `remote_control` | `NeverObeysAnOlderPress`, `AcceptedEventsArrive`, `QuitEndsProgram` | 3 directions, 3 presses, 2 failures |
| `log_retry` | `TypeOK`, `LastIsTail`, `KeptUntilDelivered` (refinement of LogService), `DeliveredOnce`: failures, timeouts and losses together, an access point list that may end | 4 records of sizes 1 and 2, buckets of size 2, 5 bucket ids, 2 failures, 1 timeout, 1 lost connection |
| `log_limited` | `CountersMatch`, `WithinMaxSize`, `CursorInStorage`, `AwaitedIsTimed`, `OldestFirst`, `ThresholdUploads`: forced removal while connections are lost and answers late | 7 records of sizes 1 and 2, so that either threshold is met first, a limit of 4, forced removal to 2; 2 timeouts, 2 lost connections, no failed bucket |
| `events` | `EventsInOrder` (refinement of EventService), `EventsArrive`, `AlwaysWritable`: events singly and in a block over lost connections, syncs that do not fit, a restart | 3 events, 1 block, 3 mishaps, 64 request ids |
| `managers` | `RegisteredIsKnown`, `NeverClaimsNewer`, `AttachmentAgrees`, `AttachIsSent`, `ProfileArrives`, `ConfigArrives` with all nine mishaps | 1 attach call, 1 event, any 2 mishaps, 64 request ids |
| `stream` | `ToClient`, `ToServer` (refinements of MessageChannel), `CleanBetweenConnections`, `SaysGoodbye`, `RequestsArrive`, `MessagesArrive` | digits of base 2, reads of up to 3 bytes, an out_buffer of 6, 2 connections, 2 messages of the server, 2 syncs, 1 ping |
| `esp8266` | `ConnectedChannelHasItsSlot`, `ReachesOperations` | 2 slots, 1 operations access point, any 2 of 11 faults, 1 sync, 1 ping |
| `stale_authorization`, `lost_timer` | counterexamples, section 5 | the smallest that show them |

Two access points per list make the lists advance, end and wrap. A failure
during the handling of a failure takes two faults; three exhaust a list and hit
its renewal. Two services let one be pending while the other is on its way.
Three presses let one fall between the reads of another pair. Three events are
one sent and unanswered, one pending and one in a block; three mishaps lose the
answer to a message, then the message that resends it, then the program. Request
ids do not come round within a run, as 2^32 of them do not. A length of two
digits starts at a payload of two bytes with base 2, and the out_buffer holds a
CONNECT and part of a sync. Two slots are what the status check needs to take
one for the other. Four records in buckets of two make three or more
buckets, enough for one to be settled between two others; seven, with a timeout
that leaves a record behind the search, reach the freed cursor of section 5 and go
on from it: the second of the two lost connections is what brings the next
bucket, and shows that `OldestFirst` and `ThresholdUploads` need their exceptions. With five bucket ids (0 marks nothing) the ids wrap around within
`log_retry`. `log_limited` stays within one round: at the wrap to 0 a client sync
fails and the records wait for the next call, so `ThresholdUploads` holds between
wraps only. Its largest record fits
what forced removal leaves (`RecordSize <= MaxStorage - ForcedSize`): nothing
looks at the size again after forced removal, so a larger one exceeds the limit.

Deadlock is checked in the runs of the transport, whose loop never stops. The
remote control ends; the other runs stop when the bounded number of records,
events, syncs or connections is used, and say `CHECK_DEADLOCK FALSE`.

**Fairness.** The loop keeps turning (weak fairness of `EventLoop`): `select`
has a 10 ms timeout. Connections complete and servers answer unless a fault
intervenes (`Accept`, `Serve`), and a resolver that was asked answers; it is
enabled only between turns, hence strong fairness. No fault is ever forced, and
none is fair. In RemoteControl the main thread runs (weak), a socket that is
writable again and again is written in the end (strong fairness of `NetSend`;
this is what `EventuallyOnline` gives), written events arrive (weak). The
keyboard has no fairness: nobody has to press a key. In LogDelivery the
collector's loop runs and the server answers, a CONNECT too (weak); nothing has to
be logged, fail, time out, be lost or be renewed. In EndpointSync the channel connects and syncs what is
wanted, messages are read and answered, credentials verified (weak: each stays
enabled until it happens). In KaaTcpStream the loop (`kaa_demo.c:271-303`) reads
what there is, writes when there is room, and checks the keepalive when idle
(weak). In Esp8266Client the loop turns (weak fairness of its stages) and servers
answer; frames are read in the end and the status is asked for whenever the
driver has rested again and again (strong, since a turn may pass without either).

The liveness properties of the managers are stated of an endpoint that is
*Undisturbed*: connections may be lost, but no sync fails for want of room or
memory, no body is unreadable and the program does not restart, because in these
cases the code makes no second attempt until something else is to be synced.
Those of the stream excuse a channel that is `Stuck`, and `ReachesOperations`
names four ways to hang; section 5 says how they come about.

## 4. Proofs

For every value of the constants that satisfies the modules' assumptions:

* `KaaTransportProofs!TypeCorrectness`: `Spec => []TypeOK`. A lemma per operator
  states that it maps well-typed systems to well-typed systems; the actions
  follow from these.
* `KaaTransportProofs!DescriptorsAreTracked`: with a synchronous resolver,
  `Spec => []NoDescriptorLeak`. The property alone is not inductive over the
  operators: a call chain passes through `Connect`, which opens a descriptor, so
  each caller must be shown to reach it only in the access point states SET and
  RESOLVED, where none is open. The strengthening pairs the property with the
  absence of outstanding resolver queries: without it `HostnameResolved` could
  run on an open connection, since the code takes an answer without a look at
  the state of the channel.
* `KaaTransportProofs!BotTracksDescriptors`, `BotDialsChosenAccessPoint`,
  `BotAuthorizedOnThisConnection`, `BotConnectComesFirst`, `BotForgetsNoRequest` and
  `BotStartsAuthorization`: `NoDescriptorLeak`, `DialsChosenAccessPoint`,
  `AuthorizedOnThisConnection`, `ConnectComesFirst`, `NoForgottenRequest` and
  `ConnectionStartsAuthorization` of the bot. Their hypotheses are what the
  counterexamples of section 5 need: the application syncs only from callbacks
  (`InputServices = {}`: `kaabot/src/kaa_demo.c` has no other calls), no log delivery
  times out (`MaxLogTimeouts = 0`: the bot logs nothing), and the server does not send
  DISCONNECT on its own. Access points, services, faults and their number are
  arbitrary, the resolver is of either kind.

  The properties are about both channels in the middle of a handover, so none is
  inductive. `BotInv` adds to the types an invariant in four parts, `Orderly`.
  `Session`: each channel is offline, with at most the CONNECT it queued when it
  lost the last connection, or in one of the stages of a connection, and the stage
  says what may be in the buffers and on the wire. `Single`: the bootstrap channel
  has at most one request for a list outstanding, pending, sent or answered.
  `Handover`: while the operations channel has a list to work on the bootstrap channel
  asks for nothing, and while it has none it has nothing to dial; so an access point
  is replaced only while its channel is offline, which is what replacing it on a
  connected one (`stale_authorization`) breaks. `Covered`: what the application asked
  for is pending or on its way to a server with a session. A call chain passes
  through both channels, so there is a lemma per function on systems; the actions
  follow. `BotStartsAuthorization` is about steps: `Keeps` says which functions
  establish no connection, `Starts` that the others leave a CONNECT in the out_buffer.
* `RemoteControlProofs!TypeCorrectness` and `PressesInOrder`:
  `Spec => NeverObeysAnOlderPress`. The inductive invariant says that `motors`,
  then the events on the wire, then those pending, then `direction` are in
  ascending order of the presses, and the theorem follows because `Obey` takes
  the head of the wire.
* `LogDeliveryProofs!TypeCorrectness`, and `UnlimitedKeepsRecords`: with
  `MaxStorage = 0`, `Spec => KeptUntilDelivered`, that is `Service!Spec`. The
  refinement needs to know at `HandleStatus` that what a status removes has been
  delivered. The invariant therefore follows a bucket: what the storage marks
  with a requested bucket is in the request, and what it marks with a bucket
  answered "ok" is delivered. It is kept because every operation of the storage
  but `Mark` only takes records out of buckets (`NoneMarked`), and `Mark` fills a
  bucket that is not on its way. One lemma per storage operation, one per action.
* `LogDeliveryProofs!TailIsLast`: `Spec => []LastIsTail`, limited storages
  included.
* `LogDeliveryProofs!AnswersAreTimed`: `Spec => []AwaitedIsTimed`. Inductive is `Timed`: a
  timeout that leaves no request on its way empties both sides of the
  inequality, and any other sets `outlived`.
* `LogDeliveryProofs!CountersAreExact`: `Spec => []CountersMatch`. The first part
  of the module says what every operation of the storage does to the sums; a sum is a fold,
  defined along a chosen order of the records, so its laws (one record less, two
  disjoint sets) are proved from a smallest set on which two folds differ. Inductive is
  `CountInv`, the counters with the types of the timers.
* `LogDeliveryProofs!StorageStaysWithin`: `Spec => []WithinMaxSize` if
  `ForcedSize + RecordSize[r] <= MaxStorage` for every record. The code does not see
  to that, so `StorageOverrun` says what holds without it: a storage over its limit
  takes no more than `ForcedSize` and one record.
* `LogDeliveryProofs!OldestGoFirst`: `Spec => OldestFirst`. The order of a new bucket
  follows from where the search begins. Inductive is `SearchInv`: no unmarked record
  is older than what `first_unmarked` names, freed or not, until a search goes
  astray. Every operation that could leave one behind (`UnmarkBuckets`, forced
  removal of an unmarked record) sets the pointer anew.
* `LogDeliveryProofs!CursorStaysInStorage`: `Spec => []CursorInStorage`. What frees a
  record is a status or forced removal, so `CursorInv` says that a bucket a status
  can still come for lies wholly before the search (`Behind`), that no status will
  refuse one, and that, until the first timeout, all behind the search is unmarked
  (`Fresh`), so that forced removal, which goes from the head, reaches the search
  only by way of unmarked records, where the code moves it. Each of these stops being
  true when a bucket fails, or when a timeout leaves one that can be evicted (a
  limited storage) or answered after all (`outlived`), which is where the counterexamples of section 5 begin; the property,
  `NothingLeftBehind => CursorPlaced`, excuses no more than that.
* `LogDeliveryProofs!SentOnce`: `Spec => []DeliveredOnce`. `DeliveryInv` keeps apart
  what is requested, what was refused and what was delivered (`Apart`): a refused
  bucket is unmarked only when its refusal is handled, so until then no request may
  have its id, and what is delivered but not yet removed must not be marked with a
  bucket that is requested, refused or none.
* `KaaTcpStreamProofs!ParserDelivers`, `RequestsArriveWhole`, `ChannelStartsClean` and
  `GoodbyeIsSaid`: `~LastWords => (Spec => ...)` of the two refinements of
  MessageChannel, `CleanBetweenConnections` and `SaysGoodbye`, for any `Base`, sizes of
  messages, buffers and reads; `TypeCorrectness` without the hypothesis. `ChannelStartsClean`
  says that a channel that is down has a new parser and either an empty out_buffer
  and no state, or, if it is an operations channel, `AUTHORIZING` with one whole
  CONNECT, as a failed write leaves it. `ToClient` and
  `CleanBetweenConnections` are false without it (section 5); `RequestsArriveWhole` and
  `GoodbyeIsSaid` take it because the invariant they share with those two needs it, and
  TLC finds no counterexample to `ToServer` or `SaysGoodbye` without it in the instance
  of `stream`. `Midway(p, m, rest)` says that the parser `p` has
  read all of the message `m` but the bytes `rest`: in the length digits, what is
  read and what is left, weighted by the multiplier, add up to the length. A byte
  keeps it or completes the message (`MidwayTakes`). `Parsing(p, q, b)` extends it to the
  messages `q` that the bytes `b` still hold, `BufferParsed` to any number of bytes at
  once. The invariant `Whole` says `Parsing` of the server's parser with the out_buffer
  and what was queued and has not arrived, and of the client's with the bytes on
  their way and what was sent and is not handled. A message that closes the channel is
  the last (`Shape`), so nothing follows it in its read, and the parser is left as
  new. What is written before and after a sync is queued within one `Write` is one
  stretch of one buffer (`TwoWrites`), a CONNECT left by a failed write is all that is
  queued for the next connection (`Redialling`), and as the client's messages are none that
  the parser refuses, the server's parser never fails.
* `EndpointSyncProofs!TypeCorrectness`: over every mishap, for any number of
  events, blocks and request ids. It rests on one lemma per operator of the event
  manager, in the first part of the module.
* `EndpointSyncProofs!RegisteredEndpointIsKnown`: `Spec => []RegisteredIsKnown`.
  The claim is about two files' worth of state and a server several messages
  away; inductive is `Registration`: while the server does not have the key, the
  endpoint, its file and every answer on its way know of no registration, and the
  first message of an authorized connection, the CONNECT, still has the key. The
  server answers messages in order, so it has the key before it says anything.
* `EndpointSyncProofs!EndpointNeverClaimsNewer`: `Spec => []NeverClaimsNewer`. The
  strengthening `Configuration` orders what is on its way: bodies come in ascending
  versions, none below the one the endpoint holds, an answer without a body
  names no version above it, and the file is what memory holds outside the step
  that stops in between.
* `EndpointSyncProofs!EndpointAgreesOnAttachment`: `Spec => []AttachmentAgrees`. The
  property speaks of a quiet moment; inductive is `Attachment`: the last news on
  its way, or the endpoint's belief when there is none, is what the server holds,
  unless news was lost.
* `Esp8266ClientProofs!ConnectedHasItsSlot`: `Spec => []ConnectedChannelHasItsSlot`
  for any number of slots and access points. The wrong slots of the status check
  do no harm to it because every drop tells the channel, whichever it was.
* `EventOrderProofs!EventsAreInOrder`:
  `Calm => (Spec /\ [](requestId + 1 < RequestIds) => EventsInOrder)`, and
  `EventsAlwaysFit` on the same conditions: `[]AlwaysWritable`. `Calm` says that no
  allocation fails, no configuration is unreadable and the application looks for
  listeners only when told of its attachment; the first and the last are needed, as
  the counterexamples of section 5 show. An id that comes round after 2^32 syncs
  could be taken for the one awaited, so the theorem leaves that out. Lost
  connections, syncs that do not fit, restarts, notifications and new configurations
  may happen any number of times.

  An event's number is not its place in the order of acceptance: a single event is
  numbered when it is sent, an event of a block that was accepted before it only when
  it is written, so later, and higher. What does hold is `Boundary(b)`: a number `b`
  that was the highest when something was written separates what is held into the
  events up to place `b` and those after it, which are numbered above `b` or not yet.
  The invariant `Order` says so of the server's highest number and of the last place
  sent (`Numbering`), and of the highest number of each message on its way (`Wire`);
  what is held is a suffix of what was accepted and begins no later than where what
  has arrived ends (`InLine`); an answer with the id that is awaited means that the
  server has reached the last place sent (`Matched`), so what it lets go has arrived;
  and before the numbers are synchronized nothing is written and the number is on its
  way ahead of any news of an attachment (`Unsynced`). From it: what the server takes
  of a message is the part of it after what has arrived (`Arrives`), which is the step
  `Arrive` of EventService, and an acknowledgement is its step `Forget`.

Induction over data is beyond the prover, so what holds along a recursive
function is proved from a least counterexample: `LeastElements` derives from the
well-foundedness of `<` that a nonempty set of numbers has a least element
(which is also what `Min` chooses). `EndpointSyncProofs` uses it for the fold in
`NewEvents`, `LogDeliveryProofs` for sums and for the list, `KaaTcpStreamProofs` for the
length digits, the parser's run over a buffer and the handlers' over its messages.

Only model-checked: all liveness properties (fairness and `ENABLED` are
beyond the prover), among them `ThresholdUploads`.

## 5. What the model found

Runs of this project that end in a counterexample:

* `stale_authorization`: replacing the access point keeps `channel_state`, so
  the new connection is not authorized.
* `lost_timer`: `find_by_bucket_id` of `kaa_logging.c` assigns (`=`) where it
  should compare, so the status of one bucket stops the timer of the newest. If
  that one's status is then lost its records are never sent again.

Each of the following is seen when the named property is checked with the named
change to a run:

* `UsedUpListIsRenewed`, with one access point in each list, faults `open`, `dns`,
  `refuse`, `close` and an application that syncs (`InputServices`): a list that is used up while the
  bootstrap channel disconnects is never renewed (`kaa_bootstrap_manager.c:464`).
* `RemoteControl!BotFollowsKeyboard`, in `remote_control`: a key pressed between two
  reads of `kaa_demo_process_input` is never sent (`kaa_demo.c:200-212`).
* `CursorPlaced`, in `log_limited`: after a failed bucket (`MaxFailures = 1`)
  `first_unmarked` can rest on a record in another bucket, and that bucket's
  status frees it (`ext_log_storage_memory.c:305`). Without a failure a timeout does:
  it unmarks the buckets of the timers it finds, but a timer may have been stopped
  in place of another (`lost_timer`), so a record stays marked behind the search,
  which comes to rest on it; forced removal frees it and moves `first_unmarked`
  only when it evicts unmarked records (`:173`). Where the list of access points ends
  (`ListMayEnd = TRUE`, with an unlimited storage too) the timeout keeps the
  connection, and a late status frees it. From
  then on a search may start anywhere: newer records overtake older ones, and
  records above a threshold are not uploaded. `OldestFirst` and `ThresholdUploads`
  are stated up to there, and violated in `log_limited` without the exception.
* `ThresholdUploads` without its other exception (`deaf`, `mute`), in `log_limited`: a
  timeout on an authorized channel is followed by a connection without a CONNECT,
  by the mechanism of `stale_authorization`. A deaf channel sends one bucket, for which no
  status comes to bring the next; a mute one sends none. Without the premise `pending`,
  which says that the strategy has decided: the add call that finds a timeout
  returns before it asks the strategy (`kaa_logging.c:265`), so the records it has put
  up for another try wait for the next add call.
* `AwaitedIsTimed` without `~outlived`, in `log_limited` and `log_retry`: a CONNECT not yet
  written when a timeout replaces the access point goes to the next server with
  its bucket, whose timer is gone; at the end of the list any request does so.
* `EndpointSync!AttachIsAnswered`, in `managers`: a lost connection while the answer
  is awaited leaves `is_waiting_user_attach_response` set, and the request is
  never sent again. With `MaxAttaches = 2`, `AttachIsSent`: the answer to a first
  call destroys the credentials of a second one that has not been sent
  (`kaa_user.c:313`).
* `AlwaysWritable`, in `events` with the mishap `listeners`: a listeners request
  while events wait for their numbers makes `kaa_event_request_get_size` leave
  out events that `kaa_event_request_serialize` writes; the sync fails, and so does
  every later one.
* `EventsInOrder`, in `events` with the mishap `memory`: when no buffer is found,
  `request_id` is taken back without having been advanced
  (`kaa_platform_protocol.c:410-413`), so an id is used twice and an answer to the
  first message acknowledges the events of the second.
* `NeverClaimsNewer` without its exception, in `managers`: the configuration's
  sequence number is taken before the body is read.
* `KaaTcpStream!KeepaliveIsSent`, in `stream`: a ping that is due and does not fit
  makes every `process_event` return early, so the out_buffer is never drained
  and the ping never sent (`kaa_tcp_channel.c:643`). `CleanBetweenConnections`, `ToClient` and
  `MessagesArrive` with `LastWords = TRUE`: what follows a closing message in one read stays
  in the parser.
* `Esp8266Client!DropsOnlyUnlisted`, in `esp8266`: the status check drops the
  connection `tmp_array[i]` (`esp8266.c:1412`) where the comment above speaks of those
  not listed, so an open one is dropped and a dead slot stays, to draw the next
  drop (`Haunted`). The other ways in which that client hangs: operations follows
  bootstrap whether or not that brought a list (`Starved`,
  `esp8266_kaa_client.c:464`); setup is refused while a frame that was cut short
  is being read (`Wedged`); an answer read in place of a command's, or by the
  channel that came after, leaves two sides that wait (`Mute`).
* `EventuallyOnline`, in `bot_recovers` with `AsyncDns`: after a failed resolution the
  channel waits for nobody (`kaa_tcp_channel.c:1362`). With the fault `garbage`: a malformed
  message behind a refusal in one buffer is a second error, which leaves the access
  point resolved and nothing pending, and nobody dials.

Where a property holds only under the bounds of its run: `DialsChosenAccessPoint`
needs an application that does not sync between a fault and the next turn (two
I/O errors on one connection set `AP_RESOLVED` over the fresh `AP_SET`, and the
old address is dialled). With an asynchronous resolver `NoDescriptorLeak` needs a
server that does not disconnect while the resolver's answer is outstanding: a
late answer connects over the descriptor of the next access point.

## 6. Not modelled

* The repository has three copies of the SDK (one in each application and a second
  one in kaabot), each with all its platforms and most with the same text. One
  is modelled, so no more than a fraction of the lines of the repository is
  behind a definition.
* Generated and third-party code without state of its own: Avro, SHA-1, the
  generated event classes. Adapters that are pure I/O: files, time, Econais, iOS.
* Encodings and layouts: field widths, padding, string formats, the metadata
  extension; the encryption of messages, which is compiled out; log output.
* Memory exhaustion inside a manager or a collection (that of the sync buffer is
  modelled); initialization that fails half-way, and the teardown.
* Channel manager: channels come and go only when a program starts and ends.
* `kaa_profile_manager_update_profile`, not compiled with an empty profile; the
  setters of the upload strategy; the deque and the lists beyond their sequence
  semantics.
* ESP8266: the scan for access points, the buffer of the serial line, and this
  client's log collector, which is LogDelivery's with an unlimited storage. The
  demos do not call `kaa_logging_init`.

Hazards without a property have a note in `PROJECT.json`.

## 7. Plan

Modelled and checked, in this order: transport with its runs; remote control;
log collection; event manager and its service; user, profile, configuration and
platform protocol; parser and stream; ESP8266 client. Proved: section 4. Left:

* Channels added and removed at run time.
