# Sestriere: specifications, model checks and proofs

Sestriere is a MeshCore client for Haiku: a window that talks over a serial
port or TCP to a companion radio, which in turn talks to a mesh. This directory
holds TLA+ models of its core, the TLC configurations that check them, and
proofs that TLAPS checks. Paths below are relative to `src/src/` unless they
say otherwise; `MW` is `MainWindow.cpp`. `PROJECT.json` lists, for each
definition, the lines it stands for.

Contents: [the system](#the-system) ·
[modules](#modules-and-the-code-they-stand-for) · [runs](#runs) ·
[fairness](#fairness) · [proofs](#proofs) · [what the code does that it does
not say](#disagreements-and-observations) · [what is not
modelled](#not-modelled) · [plan](#plan)

## The system

Sestriere is one process with few threads, and most of what is hard in it is
the ORDER in which one thread, the window's looper, finds things in its queue.

| thread | runs | talks by |
|---|---|---|
| window looper | `MainWindow` and its handlers `DeliveryManager`, `MediaHandler`, and the other windows' posts | its message queue |
| SerialHandler looper | CONNECT, DISCONNECT, SEND_RAW | `fLock`, `fWriteLock`, posts to the window |
| serial reader | `_ReadLoop`: select, read, `_ProcessBuffer` | posts frames and lines to the window |
| BMessageRunner timers | handshake, post-connect, delivery check, fragments, ping, telemetry | posts, so a tick can be stale when it is handled |
| libmosquitto, tile, GIF, emoji, elevation and audio threads | callbacks and downloads | posts, locks, detached threads |

A frame from the radio takes two hops: the reader posts it to the window, whose
`FrameParser` posts it to the window again as a parsed frame. In between comes
whatever was queued already. Several answers of the protocol name no request
(RSP_SENT, RSP_ERR, trace data, login results), so the client matches them by
order or by a flag. These two facts are behind most of the hazards.

### Inventory

Each entry: state; operations; interactions; what is hard; what makes it right.

* **Delivery queue** (`DeliveryManager.cpp`, sends and acks in MW).
  `fPendingMessages`, the check timer, the status of each message. Enqueue,
  RSP_SENT, SEND_CONFIRMED, check, drain, stop, disconnect, contact sync. The
  window writes the frame and posts ENQUEUE; the reader posts answers. Hard:
  answers without reference, retries against late confirmations, a timer
  that must run exactly while something is queued. Right if: each message ends
  once, its attempt bytes are distinct, no ack settles two messages, everything
  sent leaves the queue.
* **Serial link** (`SerialHandler.cpp`). `fSerialFd`, `fConnected`, `fRunning`,
  `fReadThread`, two locks. Connect, Disconnect, SendFrame, SetRawMode, quit.
  Two loopers and a reader share it. Hard: joining a thread with a lock held,
  closing a port in use. Right if: one reader, never on a closed port,
  Disconnect returns, the window's view agrees, nothing left at exit.
* **Framing** (`SerialHandler::_ProcessBuffer`). `fInFrame`, `fFramePos`,
  `fExpectedFrameLen`, `fLineLen`, `fRawMode`. Bytes in, frames and lines out.
  Another thread resets three of its fields. Right if: no store outside
  `fFrameBuffer`, everything sent comes out in order, it resynchronises.
* **Companion session** (MW `_OnConnected` … `_HandleContactsEnd`, `_HandleContactMsgRecv`,
  `ContactManager`, `DatabaseManager`). `fHasDeviceInfo`, `fSyncingContacts`,
  `fContactsSince`, retries and timers, the contact list and the parked one,
  the companion key, the message table. Handshake, syncs by five triggers,
  offline messages, disconnect, switch of companions. Right if: messages are
  filed under the radio they came from, the list is that radio's, histories are
  neither lost nor doubled, every sync ends.
* **Media transfer** (`MediaHandler.cpp`, `ImageSession.cpp`, `VoiceSession.cpp`).
  Two tables of sessions with a limit, the session being sent, its index, two
  fragment timers, the awaited envelopes. Begin, confirmation, tick, envelope,
  fragment, fetch. Hard: stale ticks, overtaking transfers, any confirmation
  counts. Right if: fragments go out in order and once, complete means whole,
  every transfer ends.
* **Channels** (MW 1836-1850, 2880-3110, 4986-5021, 6640-6790, 7035-7150, 8890-9010;
  `DatabaseManager.cpp`). `fChannels` with the messages of each, `fEnumeratingChannels`,
  `fChannelEnumIndex`, `fMaxChannels`; rows in the database keyed by slot; the
  chat view. Enumerate, create, remove, import, select, send, receive, delete,
  clear, search. Hard: one counter for two enumerations, an error answer that
  ends whichever runs, everything keyed by slot. Right if: the list is the
  radio's, memory agrees with the database, the screen with the channel shown,
  an enumeration ends, a new channel replaces none.
* **Ping, trace, telemetry, login** (MW 2050-2310, 3652-3670, 7273-7312, 7405-7470;
  `NetworkMapWindow.cpp` 3380-3441). One flag and one target each, with a timer; a round over
  all contacts; a background tracer; the map's discovery with pointers to its
  nodes. Hard: late answers credited to the next contact, a refused single
  ping stalls a round, nodes deleted under the discovery. Right if: every ping
  ends, a round asks each once and ends, the discovery keeps to living nodes.
* **MQTT bridge** (`MqttClient.cpp`). `fConnected`, `fSettings.enabled`,
  `fManualDisconnect`, a reconnect timer; libmosquitto's thread calls back. Hard:
  callbacks after a disconnect, a timer and flags touched from two threads.
  Right if: off stays off, the flag agrees once all is handled, a wanted
  connection comes back.
* **Tiles, elevation, emoji, GIFs**. Caches filled by threads. Hard: objects used
  after the lock is given back, results applied to a row or grid that changed.
* **Audio** (`AudioEngine.cpp`). Recorder and player callbacks; a 30 s buffer
  against a 30 s timer.
* **Message store** (`DatabaseManager.cpp`). Tables keyed by companion; a unique
  index that ignores a repeated text within a second.
* **Settings on disk** (`PersistenceManager.cpp`). Files erased, then written.
* **Windows and views**: copies of the state above, drawn.
* **Repeater monitor**, **fake radio** (`src/repeater_monitor`, `src/fake_radio`):
  two further programs. The first has its own copy of `SerialHandler`.

`PROJECT.json` has the same list with a status each, and the hazards at their lines
with the properties that watch them.

## Modules and the code they stand for

| module | stands for | state ↔ code |
|---|---|---|
| `DeliveryQueue` | `DeliveryManager` and the window's sends, acks and status updates | `looper` the window's queue; `place`, `entry` ↔ `fPendingMessages`; `timer` ↔ `fDeliveryCheckTimer`; `busy` a handler that takes several steps because each frame it writes can be answered meanwhile |
| `DeliveryPromise` | nothing in the code: what the queue promises per message | implemented by `DeliveryQueue` (`KeepsPromise`) |
| `SerialLink` | Connect, Disconnect, the read loop, SendFrame, quit | `at`, `back` program counters of the two loopers; `fd`, `running`, `connected`, `readThread` the fields; `open` the ports; `using` the fd a reader loaded |
| `SerialFraming` | `_ProcessBuffer`, `SetRawMode` | one step between two loads of a shared field; `slot`, `offset` are the loaded values |
| `CompanionSession` | handshake, contact sync, messages, disconnect | `queue` with the hop of each frame; `list`, `old` ↔ the two lists of `ContactManager`; `key`, `db` ↔ the database |
| `MediaTransfer` | `MediaHandler`, both session managers | `sessions`, `current`, `index`, `awaiting`, `timer` by kind; `queue` of ticks and confirmations |
| `LinkPromise` | nothing in the code: what the link promises the window, and what the other models take for granted of it | implemented by `SerialLink` (`KeepsPromise`) |
| `TransferPromise` | nothing in the code: what own transfers promise | implemented by `MediaTransfer` (`KeepsPromise`) |
| `Channels` | the list of channels, their messages, rows and screen, and the edits | `radio` the slots of the device; `up`, `inbox` the two directions of the link; `channels`, `index`, `enumerating`, `max` ↔ the fields; `db` the rows; `view` what the chat view shows |
| `TraceRequests` | pings, rounds, traces, the map's discovery | `ping`, `round`, `auto` ↔ the fields of each; `map` the map window's nodes and discovery queue; `mail` posts, `later` one-shot runners, `air` answers that can come |
| `MqttClient` | `MqttClient` and the calls into it | `window`, `looper` program counters; `mail` the looper's queue; `loop`, `sock` the library's thread and connection; `timer`, `runner` the pointer and what it points to |
| `MC*` | instances for TLC | companions and their contacts, byte scripts |
| `*_proofs` | theorems and proofs | |

Each action is one handler or one step of a thread. Where a handler cannot be
disturbed (one looper, no unlock, no wait) it is one step. Where it writes
frames that another thread can answer, takes a lock, or reads a field that
another thread writes, it is cut there and nowhere else.

**DeliveryQueue.** `Send…`, `HandleEnqueue`, `HandleFrameSent` → `HandleRspSent`,
`HandleFrameConfirmed` → `HandleConfirmed`, the check loop entry by entry, the
drain, STOP, the disconnect, and the two ends of a contact sync. The user's
messages are numbers in the order they are sent; the list is in that order
because `AddItem` only appends. The predicted timeout is any duration: an entry
that was sent may be overdue or not at each check. Radio and mesh are external:
they answer in order, lose answers and confirmations, and confirm late. The
window hands EVERY RSP_SENT on, also that of a login, a telemetry request or a
trace: `OtherAnswer` (environment option `"other_request"`) is such an answer, with a
tag (`NoAck`) that is no message's and that nobody confirms. A command line
(`_SendCliCommand`) differs from a text in how it is looked up, so some messages
are one and some the other.

**SerialLink.** Reader and port carry the number of the connection that made
them. `fLock` is recursive and held for longer than one step by Connect alone;
that is `InConnect`. Data arrives, or does not; a port can break ("unplug").

**SerialFraming.** A script of items (frames, frames cut short, lines, prompts
without end) is turned into bytes and read in pieces. A text that goes on after a
prompt would be one text with it, so scripts do not have it; and texts hold no
marker, which would start a frame. `SetRawMode` writes its
three fields one by one, between any two steps of the reader: the two share no
lock (`_ProcessBuffer` takes none), and that is modelled as it is.

**CompanionSession.** The radio serves commands in order, lists its contacts one
by one while pushing other frames, and may boot late. The window handles one
queue item at a time. What is kept of a contact is its history. The environment
option `"late"` lets the link go down with frames still in the queue; the runs
leave it out, see [below](#disagreements-and-observations).

**MediaTransfer.** Transfers are model values, those in `Mine` start here. One
handler serves both kinds with small differences, so the kind is a parameter of
the actions. The peers are external: envelopes and fragments come in any order,
several times or never. `aborted` remembers transfers with a failed write.

**Channels.** Commands reach the radio in order, and its frames the window. An
enumeration asks slot after slot; edits write a slot and change the list at
once. Messages are numbers that grow as they come, so that an order by time is an
order by number; no two are alike. Search finds any set of stored rows.
`calm` remembers that an enumeration began alone and nothing of another came
between, `doubt` the slots of which nothing is promised (see
[below](#disagreements-and-observations)). Reactions, secrets and unread counts
are left out. `CreateKeeps` speaks of a channel made while `calm` held, with
no write to the radio outstanding.

**TraceRequests.** Clicks and radio frames are steps by themselves; posts of the
window to itself, and of runners that fired, go through `mail` in order, so a
timeout or a next-in-round is handled late. An answer carries nothing that
is compared with a request. `disturbed`, `refused` and `relisted` are
histories for the promises that hold only without the event they name.

**MqttClient.** Each access of the window's thread to the timer is a step; the
looper's handlers are steps, cut where they touch the timer. Of the
library we model what the client sees (`external` in the map): it retries by
itself while its thread runs, opening a connection anew closes the old one
without a report, `loop_stop` stops the thread between two of its steps. When
both threads delete the timer the model stops (`crashed`).

## Runs

Every passing run explores its whole state space; the bounds are the constants
in the `.cfg`. `CHECK_DEADLOCK FALSE` stands where the user or the environment
may simply stop. The types of `SerialLink`, `CompanionSession`, `TraceRequests`
and `Channels` are theorems (`TypeCorrect`) and in no run.

| run | module | checks |
|---|---|---|
| `delivery_faults` | MCDeliveryQueue | with disconnects, syncs, failed writes and answers to other requests: `OneAckOneEntry` (no two entries wait for one code), `AnswerAfterEnqueue`, `AttemptBytes` (the attempt byte counts the frames before it), `OneVerdict` (one verdict, nothing written after it) |
| `delivery_open` | MCDeliveryQueue | with the port open and syncs: `EventuallyLeaves`, and `KeepsPromise`, the refinement of `DeliveryPromise` |
| `delivery_ConfirmedWasReached` | MCDeliveryQueue | violated: an ack can confirm a message that was not acknowledged |
| `serial_threads` | SerialLink | CONNECT and quit at any time and an unplugged device: `ReaderUsesOpenFd`, `OneReader`, `ViewFollowsLink`, `CleanEnd`, `DisconnectReturnsFirst`, and `KeepsPromise`, the refinement of `LinkPromise` |
| `serial_DisconnectReturns` | SerialLink | violated: CONNECT while connected deadlocks |
| `framing_stream` | MCSerialFraming | every stream of up to three items, cut anywhere, raw mode at any moment: `StoresInBuffer`, `StreamParsed` (in order, and in step again after an unfinished frame), `OneAfterRaw`, `AllDelivered` |
| `session_safety` | MCCompanionSession | two companions that share a contact, two connections, slow boots: `CompanionsApart` (rows and histories come from the companion they are filed or shown under, but for messages filed before a slow radio named itself; the list is its own), `ShownOnce`, `HistoryKept` |
| `session_live` | MCCompanionSession | radios that are up in time, a contact they share: `CompanionsApart` (here without exception), `SyncsSucceed` (the contacts arrive and every sync ends) |
| `media_sessions` | MediaTransfer | an image each way and two voice clips that overtake one another: `FragmentsTrue` (written in order, complete means whole), `CompleteStays`, `TransferEnds`, and `KeepsPromise`, the refinement of `TransferPromise` |
| `traces` | TraceRequests | two contacts, two clicks, a lost link or another sync: `PingsDriven` (a ping pending has its timeout, a round its next step), `QueueAlive`, `RoundAsksEach`, `RequestsEnd` |
| `channels` | MCChannels | two slots, two events at any point, messages of an earlier run: `ListRight`, `HistoryIsStored`, `ScreenIsOfShown`, `EnumerationFed`, `CreateKeeps` |
| `mqtt` | MqttClient | two clicks and two losses between any two steps: `Settles` (off stays off; the flag agrees once all is handled), `ComesBack` |

Why the bounds are enough to meet the interesting cases:

* *delivery*: two messages are what it takes to swap or share an ack code; two
  attempts give a retry and a last failure; a queue of two leaves room for an
  answer and a tick in either order (handlers post beyond it: the bound holds
  back only other threads), and one foreign answer at a time is enough to take
  the place of each frame's. `MaxPending 1` in `delivery_open` makes the limit
  refuse. The proofs remove these bounds for the safety properties.
* *serial*: two ports let a reader of the first meet the second connection, and
  a third would add only another pair; two messages waiting allow DISCONNECT and CONNECT behind each other.
* *framing*: a payload of two bytes can hold a marker and a newline; a line of
  up to five bytes is longer than the largest frame, so that a length read from text is
  refused or filled by it; a line of one unprintable byte is no line; three items
  put text between frames; reads of one or two bytes cut everywhere. A restart follows a pair of items.
* *session*: two companions sharing one contact show mixing; two links show a
  switch or a reconnection; one message reaches either radio before, during or
  after the sync. `session_live` has two frames in flight, so that a frame stands
  behind another between its hops; its companions know one contact, the same, under
  which the histories of both would meet. `session_safety` has one at a time, and contacts
  that one companion knows and the other does not.
* *media*: two fragments have a first, a last, and a gap; a limit of one session
  makes every second one evict; one message in the queue is a tick or a
  confirmation that is stale when it is handled. Two in a row (a tick left over
  from a transfer that failed) are beyond the run, and so is an incoming clip beside
  an own one, which the clause on `Protected` is about: it triples the states. The
  theorems have both.
* *traces*: two contacts, one of each kind (with and without a route), are a
  round with a first and a last; one answer of each in the air and two clicks
  set a ping beside a round, a trace or a discovery; one break is a loss or a second
  sync in any of them.
* *channels*: two slots and two names make a free slot, a used one and a reuse;
  two events are two enumerations, an edit within one, a lost link or a foreign error;
  a page of one message makes loading return less than is stored. Names
  are interchangeable, hence the symmetry. Selecting a channel and closing a
  search cost no event.
* *mqtt*: two losses and two clicks meet each other, the timer of the first
  loss and the library's own retries. Each loss makes at most one timer and
  each refusal two, which bounds the runners.

Each property has a mutant, a plausible slip in one mapped definition, which
TLC finds with that property: for instance `StopAlways` (the timer is stopped
with messages left) breaks `EventuallyLeaves`, `WaitReaderNot` (the port is closed
without waiting) breaks `ReaderUsesOpenFd`, `ReturnsForgetful` (a contact that
is parked starts with an empty history) breaks `HistoryKept`, `FreeSlotsAfter` (the
search for a free slot starts one too late) breaks `CreateKeeps`,
`ReconnectsAnyway` (the timer does not look at the flag) breaks `Settles`.

## Fairness

* `DeliveryQueue`: the looper handles its queue, the check timer fires while it
  exists, and a deadline that is looked at again and again is found passed one
  time (strong: deadlines are finite and only a retry moves them). Neither the radio nor the recipient has to answer.
* `SerialLink`: strong fairness of each looper and reader, since a step that
  waits for a lock is enabled off and on and `BLocker` queues its waiters. The
  user, the device and the arrival of data are free to do nothing.
* `SerialFraming`: the device writes its script, and the reader runs, since
  select returns when there is data. `SetRawMode` need not happen.
* `CompanionSession`: the window handles its queue, the post-connect timer
  fires, and the radio serves what it was sent and goes on listing (strong, because
  the bound on the queue, not the code, disables it at times). The handshake
  timer, users and links are free.
* `MediaTransfer`: the window handles its queue, and a fragment timer that is
  due fires (strong, for the bound on the queue). No peer has to do anything.
* `TraceRequests`: the window handles connection notices and its mail, runners
  fire, the discovery ticks, a sync that began goes on. No contact answers,
  nobody clicks; so an answer may always be lost.
* `MqttClient`: both threads go on with what they began, the looper handles its
  mail, the library retries and a broker that is there accepts; refusals and
  losses are bounded, since a broker that always refuses brings nothing back.
  The reconnect timer need not fire: `ComesBack` rests on the library's retries.
* `Channels` states no liveness: `EnumerationFed` says that an answer or a
  command is always under way for an enumeration.

## Proofs

`tlapm` checks all eight modules completely. They assume of the constants only
what the modules' `ASSUME`s say: bounds are numbers, `MaxAttempts` is at most
4 (the protocol has two bits for it), hazards are among the named ones. Two
theorems about the session have a premise of their own, named below. Every invariant
that a run checks is a theorem, and so is every action property and every
refinement of a promise.

**`DeliveryQueue_proofs`**, for any number of messages, limits, queue bound and
hazards: `TypeCorrect`, `AckSettlesOne` (`OneAckOneEntry`),
`AnswersFollowEnqueues`, `AttemptBytesCount`, `VerdictIsFinal`, and
`QueueKeepsPromise`: with hazards at most "resync" and "other_request" every
step is a step of `DeliveryPromise` or a stutter. The inductive invariant `IInv`
has three parts. `CoreInv` ties the program counter `busy` to where messages are, each waiting event to one
message, and the attempt count of an entry to the frames written. `FrameInv` is
needed because ack codes travel: every frame written is at the radio, or in
the looper's queue, or held by one entry, never in two of these, and each
occurs once; only from that does it follow that two entries never hold
one code; of the tags of other requests nothing is needed. `OrderInv` says that
the ENQUEUE of a posted message is in the queue before any RSP_SENT for it; it rests on the second hop of the answer. The
action properties follow from `IInv` step by step, and the refinement uses
`CountInv` and `StatusInv` to show that fates change only as promised.

**`SerialLink_proofs`**, for any number of connections and all hazards: `TypeCorrect`,
`PortOutlivesReader` (`ReaderUsesOpenFd`) and `SingleReader` (`OneReader`), both
"until the window quits". `ServeInv` is the strengthening: a live reader is the
one started for the open port, and the looper either leaves the port alone or
waits for its end; `QuitInv` says that the window never serves again once it
quits. That premise is necessary: at quit, the window's thread and the looper
may both run Disconnect, and the second finds no thread to wait for and closes
the port. `WindowKnows` (`ViewFollowsLink`) follows the notices: the LAST one of the
link in the window's queue says how the link is, or none is left and the window
knows it, except where the looper is about to post (`ViewInv`). `EndsClean`
(`CleanEnd`) holds also when both threads disconnect at once: `EndInv` says which of them
has what is still to be closed, and that a CONNECT is only ever the first
message, when nothing is connected. `LinkKeepsPromise` (`KeepsPromise`) shows that
every step is a step of `LinkPromise` or a stutter, with all hazards. The mapping
reads the phase off the port and the looper's place in Disconnect, and is "over"
from the quit on, where nothing is promised; before it, `ServeInv` says that no
thread but the looper touches the link, so that a port opens only when the last
one is closed and its reader gone.

**`SerialFraming_proofs`**, for all scripts, sizes and interleavings: `Inductive`,
`TypeCorrect`, `NoOverflow` (`StoresInBuffer`), `RawStopsFrames` (`OneAfterRaw`).
`PosInv` says what a test of the position established keeps holding until the
store although another thread may reset the position between: a reset only
makes it smaller. That is why the missing lock is harmless for memory.
`TakesApart` (`StreamParsed`) rests on two more parts. `StreamInv` splits the bytes of the
script into those taken apart, those at hand, those on the wire and the items
not written, so that the byte at hand is the next of the stream. `Parsed` says
which byte of which item that is, and what the fields hold then: between items
(`Idle`, or `Emptied` after a frame without payload, which the reader leaves one byte
late), in a text (`Texting`: the line is the printable part so far, as much as fits) or
in a frame (`Framing`: position and frame buffer are the bytes sent). A frame cut
short breaks that; `InBanner` says that a frame the reader is still in advances
with every byte of a long line, so that it has ended before the line has, and from there
`Parsed` holds again behind what was posted until then. What `FlattenSeq` and the text of
a line are for every script is not unfolded: the functions that compute them step
by step are shown to exist (`Recursion`, by `AllNumbers`, from the well-foundedness of
`<` and not by an induction rule), and to yield the same (`FlattenIsJoin`, `KeepsExists`).

**`CompanionSession_proofs`**, for every set of companions and of contacts they
know, any number of messages and all bounds. With all hazards: `TypeCorrect`
and `NothingTwice` (`ShownOnce`). `IInv` says where a message is: kept by its radio, in
the queue, or saved, never in two of these and in each once (`OnceInv`), and what a
history shows is saved (`ShownInv`). So what arrives is not in a history yet,
and the saved rows are loaded only into empty ones. With the premise
`BetweenFrames` (no `"late"` among the hazards: the link goes down when no frame is in the
queue): `CompanionsStayApart` (`CompanionsApart`) and `HistoryIsKept`
(`HistoryKept`). The premise is necessary, see
[below](#disagreements-and-observations). `CleanInv` adds that all frames are of the radio at the
other end (`LinkInv`), that rows and histories are of messages that came from their
companion, and in which order the frames of a listing are (`SyncInv`):
between two starts there is an end, between two lines for a contact a start. The
radio sends them so because it refuses to start a listing within one; and since each
frame goes through the queue twice, the order meant is that of `Before`: those
that passed once come first. Hence no start finds a parked list, and no line a contact
that is listed. The lemmas `TurnsVia`, `PopsVia` and their like carry all of this through
the second hop once and for all. `CompanionsApart` excepts what was filed before a slow
radio said who it was. `HistoriesIsolated` has no exception, with the further
premise `UpInTime` (no `"slow_boot"`): `NameInv` says that a radio that is up when the link
is names itself before it hands over any message, be the notice of the link not yet handled,
APP_START written first, or SELF_INFO on its way before every letter. So no
row is filed under the empty key, and a history loaded from the rows of one key is
of one companion.

**`MediaTransfer_proofs`**, for every set of transfers, any number of fragments and
every limit: `TypeCorrect`, `FragmentsAreTrue` (`FragmentsTrue`) and
`CompleteStaysComplete` (`CompleteStays`). `SendInv` says that as many fragments of the
transfer under way were written as its index says, whichever stale tick or
confirmation moves it on; `EntryInv` that a session counts the fragments it has (so
that the count reaches the number only when none is missing), and that an own one is
complete only if written whole. `TableInv` (a session stands once in its table) makes
the removal of the oldest, and a write through an index, touch one session.
`TransfersKeepPromise` (`KeepsPromise`) shows that every step is a step of
`TransferPromise` or a stutter. `Shapes` reduces the steps to three: a transfer
starts, a tick reaches the one under way, or something comes from elsewhere and
`Swaps` a session, by which at most one other is lost, and that one was not "sending";
`VoiceInv` says that an own voice clip is "sending" until it fails or is complete. Images
never are, which is why the promise protects clips alone.

**`Channels_proofs`**, for any number of slots, names, messages, events and
every page size: `TypeCorrect`, `ListIsRight` (`ListRight`), `MemoryIsStored`
(`HistoryIsStored`), `ScreenOfShown` (`ScreenIsOfShown`), `EnumerationIsFed`
(`EnumerationFed`) and `CreateReplacesNothing` (`CreateKeeps`). The list is right about
the FUTURE: `Holds(up, radio, n, s, name)` says that slot `s` has that name when the radio
has served the first commands, and `HoldsInv` that every entry of the list,
and every slot asked for that the list lacks, will be so when all are served. For
that, `TurnInv` says that an undisturbed enumeration has one question or one
answer under way, for the slot it is at, and that whatever is written behind the
question, or while the answer comes, is a slot already listed, whose answer is ignored;
so the answer that is used is the radio's last word. `KnownInv` and `RestInv` say
that the radio has named itself by the end of an enumeration, without which
messages would not be stored (`CalmInv` puts them together). `SureInv` is
the same prediction for the command of a new channel; `CreateReplacesNothing` is its case for
the first in line. `LoadInv` compares memory with the rows of the database:
empty while the slots are asked, the same set without repetition afterwards.
`RowsInv` says of every message, in memory, in the database, in the view and on its
way, which slot it went through, and that one on its way is not stored yet.
`Oldest` is defined by what it returns (`CHOOSE` of an ascending sequence); that
there is one is `AscendingExists`, by the least number for which there is none.

**`TraceRequests_proofs`**, for every number and kind of contacts and every bound:
`TypeCorrect`, `PingsAreDriven` (`PingsDriven`), `QueueStaysAlive` (`QueueAlive`) and
`RoundsAskEach` (`RoundAsksEach`). `Typed` adds to the types that a sync has
a contact to come, or the list would outgrow the radio's; the index of a step
is typed because a set of numbers that is not empty has a lowest
(`LowestInSet`, from the well-foundedness of `<`). `Driven` is inductive by
itself: a handler takes its own kind of post from the mail and no other, and
whatever ends a ping posts the round's next step. `QueueKept` strengthens `QueueAlive`: the
contacts of the queue are also listed, so that a refresh, which deletes what
is not listed, leaves them alone; a list that was emptied sets `relisted`.
`RoundKept` says of a round that nothing disturbed: there is a ping under way or
ONE post of its next step, in the mail or with a runner, never both; all contacts up to
the number that stands there were asked once, those past it not; and fewer
answered than were asked while the ping is open. Stale timeouts and answers
to others end the ping under way, so they keep it.

**`MqttClient_proofs`**, for any number of clicks and losses: `TypeCorrect` and
`SettlesAlways` (`Settles`). `OrderInv` says that after a manual disconnect the LAST order in
the looper's mail is to disconnect, or none is left and the library's thread
has stopped; `ReportInv` that the last report in the mail says how the connection
is, or none is left and the flag does.

Only model-checked: everything under fairness (`EventuallyLeaves`,
`DisconnectReturnsFirst`, `AllDelivered`, `SyncsSucceed`, `TransferEnds`, `RequestsEnd`,
`ComesBack`), which is out of TLAPS's reach.

## Disagreements and observations

Two runs show the code doing what a document or a comment of the repository
says it does not. `PROJECT.json` quotes each line.

* `delivery_ConfirmedWasReached`: `DeliveryManager.cpp:83` gives an RSP_SENT to
  the NEWEST entry without an answer. Of two messages sent in a row the codes are
  swapped, and the acknowledgement of one confirms the other
  (CHANGELOG-2.1.0: the ack code identifies the message, "non piu FIFO cieco").
* `serial_DisconnectReturns`: `SerialHandler.cpp:107`, Connect holds `fLock`
  through its Disconnect; `fLock` is recursive, so Disconnect's own unlock does not
  free it, and a reader about to post waits for it: both wait (263: "it will
  exit within ~1 second").
Seen while modelling, with a model that has it:

* `SerialLink`: quitting or connecting on top of a connection makes `CleanEnd`
  fail: OpenPort sets `fRunning` again, and the reader waited for goes on.
* `CompanionSession`: `fSyncingMessages` is read at MW 6541 and never set, so
  SYNC_NEXT_MESSAGE is sent once for each sync or push, and a second message
  that the radio kept waits (5933: "drain any queued messages").
* `CompanionSession`: histories of two companions CAN mix (MANUAL 953: "without
  data mixing", 959: "connecting to companion A shows only A's message history").
  A radio that boots slowly drops APP_START, and the answer to EXPORT_CONTACT ends
  the handshake (5675) although only SELF_INFO sets the companion key. A message that
  comes then is filed under the empty key. When another radio boots as slowly, the end of its
  contacts loads the rows of the empty key (`DatabaseManager.cpp:288`) into its
  histories: a message of the first is shown under a contact of the second. These are the messages
  `Unnamed` excepts in `CompanionsApart`; without the exception `session_safety`
  fails with this trace. (MANUAL's "Backward Compatibility" calls rows without a key
  accessible from any companion; they are so only while no key is set.)
* `MediaTransfer`: `_HandleImageSelected` marks a session LOADING
  (`MediaHandler.cpp:318`), the answer to a fetch wants SENDING (462), so no
  missing fragment of an image is ever sent again (README: "auto-fetch of
  missing fragments").
* `TraceRequests`: any trace answer is credited to the ping under way (the tag
  is the clock and is never compared, MW 7273); a single ping that is answered
  in the two seconds between two pings of a round starts a second chain; a
  stale TIMEOUT ends a fresh ping; a delayed NEXT survives a disconnect; a
  refused single ping (2067, 2083) stalls the round until the link is lost,
  and Ping All is refused meanwhile; a second sync in a round ends it
  early; a round of traces goes on without a link; the discovery does not end as long as
  answers keep coming, and a sync or disconnect during it leaves deleted
  nodes in its queue (`NetworkMapWindow.cpp` 560, 3416).
* `Channels`: a message for a channel that the enumeration under way has not
  listed again is stored but missing from memory; one that comes or is sent
  while its history is still to be loaded stands there twice; the enumeration
  after an import (MW 3868) does not empty the list (5666 does), so it loads
  histories twice and keeps old names; a NOT_FOUND for another command (5002)
  cuts an enumeration; of two that interleave the first's answers advance the
  second, and the last channel may be left without history; a channel made
  during an enumeration, or before the radio told its size, may be put over another one; a
  reused slot shows the messages of the channel that was there; rows of a
  removed channel stay on the screen; Delete by row index (2903) removes another
  message from memory when the view shows a page or search results; Clear
  empties the view whichever channel it shows.
* `MqttClient`: the window and the looper both delete `fReconnectTimer` without
  a lock (429; 487 says "Runs in BLooper thread — safe to modify all state"), so a
  double deletion can be reached; after a CONNECT on a connection
  whose report is still in the mailbox `fConnected` may stay true with nothing up
  (`cut`); if the very first connect call fails nothing tries again (209, `failed`);
  a profile import that disables MQTT does not disconnect it.

And with a model that shows it when the constant named is changed:

* `CompanionSession` with `"late"` in `Hazards`: a frame that has made its first
  hop when the port closes is handled after `_OnDisconnected`. A contact so
  handled appears in the next companion's list (`CleanList` in `CompanionsApart`
  fails); a SELF_INFO so handled names the old companion, and messages that come
  before the next SELF_INFO are filed under it (`FiledRight` fails). With a third
  connection, to the old companion, they are shown among its own
  (`HistoriesApart` fails). MANUAL 953: "without data mixing", 966: "All runtime
  state is cleared". `ShownOnce` holds (a theorem), and so does `HistoryKept`.
* Histories are loaded after a sync only if no listed contact has a message (MW
  5909). One that arrived during the first sync keeps all the saved ones from
  being shown (MANUAL 971, 975).
* `DeliveryQueue`: an answer to another request (MW 7581) that finds an unanswered
  text gives it a code nobody will confirm. If the frame was lost it is not retried; if
  it was not, its confirmation finds no entry: it is dropped without a verdict
  after two minutes. `EventuallyLeaves` holds (TLC, with "other_request" for
  "resync" in `delivery_open`; both together take too long).
* `DeliveryQueue` with "disconnect" or "write_error" in `delivery_open`:
  `KeepsPromise` fails. A drain skips entries already sent once, and a message is
  reported failed at the first retry whose write fails, though attempts are left
  (`Types.h:82`).

Seen in the code, without a model:

* Delivery: the limit is read before earlier ENQUEUEs are handled (MW 4685);
  SENT is never shown (MANUAL 287); sending offline is refused because the
  list was emptied at the disconnect; predicted timeouts reach 180 s, the
  cleanup comes at 120 s.
* Serial: raw mode set at a handshake timeout that races a disconnect lasts into
  the next connection; a write cut short by an error leaves half a frame on
  the wire; `>` in console text opens a frame; a frame of length zero ends one byte
  late; `tests/test_frame_security.cpp:287` says SetRawMode's lock excludes
  `_ProcessBuffer`, which takes none; if `spawn_thread` fails `fRunning` stays true.
* Session: `_OnDisconnected` leaves `fSyncingContacts` set; the commands sent
  100 ms after APP_START are not repeated for a radio that boots slowly;
  `ChatView::fCurrentContact` points to a deleted contact between `_HandleContact` and the end of a sync.
* Database: a second message of the same text in the same second is ignored
  (`DatabaseManager.cpp:1695`).
* Frames: `FrameParser.cpp:546` and MW 7041 disagree on the layout of a channel.
* Ping: a trace of one byte overwrites a precise edge of the map, and an edge
  found by one byte is saved as certain (`BuildEdgesFromTrace`).
* Login: a result is credited to the last request, whatever it names (7407);
  an RSP_ERR that belongs to another command is "login rejected" (5034).
* Media: a transfer that fails may go on at the next confirmation, since the
  awaited envelope is not cleared (364); a limit of 32 sessions is kept only for
  incoming ones and may remove an image that is being sent: `ImageSession.cpp:124` says
  "Remove oldest non-sending session", but images are sent in IMAGE_LOADING
  (`MediaHandler.cpp:318`, 378); `KeepsPromise` fails if `Protected` has images too; the
  expiry and recording-timeout messages are never posted.
* Tiles: a bitmap is used after the lock is released, while another thread
  prunes (`TileCache.cpp:216`, 279); a request stops after 50 tiles and is not
  repeated until the visible range changes; a failed download may leave part
  of a file that is never counted.
* Audio: the buffer is full after 30 s of sound and the timer stops the
  recording after 30 s (`AudioEngine.cpp:307`); if the buffer is first the clip is lost.
* GIFs: the download thread addresses the row it was started for by index
  (MW 9334). Settings: the file is erased before it is written
  (`PersistenceManager.cpp:74`).

## Not modelled

* Byte layouts of frames, formatting, texts, colours and layout: data that no
  property tells apart.
* Windows and views, notifications, the application shell: they copy state.
* Image and voice codecs, SQLite, libmosquitto, libcurl: external libraries.
* `LoSAnalysis` and the predictor's regression: floating point.
* Session numbers that collide between senders, groups, reactions, echoes of
  own messages, SNR history, the unique index of messages, the contacts of a
  profile import.
* Logins and telemetry: one pending request each, without a timer.
* The tile cache and the fetch threads, the audio engine, the repeater monitor
  (whose serial code is a copy of what `SerialLink` models) and the fake radio.
* What MQTT publishes, its status timer and its destructor.
* The sizes of the code: MainWindow and the views are for the most part
  construction, drawing and formatting, which is why the map covers a small
  share of all lines though it covers most of the protocol handlers.
* Memory and thread-creation failures.

## Plan

Done: 1 to 8, with their proofs. Left: the compositions named at the
end, then 9 to 11.

1. `DeliveryQueue` with `DeliveryPromise`: checked and proved.
2. `SerialLink` with `LinkPromise`: checked; safety and refinement proved.
3. `SerialFraming`: checked; safety proved.
4. `CompanionSession`: checked; safety proved.
5. `MediaTransfer` with `TransferPromise`: checked; safety and refinement proved.
6. `TraceRequests`: checked; safety proved.
7. `Channels`: checked; safety proved.
8. `MqttClient`: checked; safety proved.
9. `TileCache` with the drawing of the map view, the fetch threads, the audio engine.
10. Login and telemetry; the unique index of messages with status updates and GIF results.
11. Pure algorithms as recursive functions against reference definitions: base
    36, UTF-8 cut, predictor clamp, reaction matching, Smaz.

Compositions worth having: the session with the delivery queue (a sync empties
the list in which a SEND looks its contact up, and its end drains the queue; today
`listed` stands for it) and the media transfer with the delivery queue (both wait for SEND_CONFIRMED).

