# A TLA+ model of the gpstracker backend

The repository is a Go server for GPS trackers. Terminals keep one TCP
connection each to it (`internal/gpsv2`), it stores their locations in
PostgreSQL (`internal/store`) and passes them on to browsers
(`internal/gpsv2/sublist`, `internal/webapp/tracker/webstream`); a web API
(`internal/webapp`) administers users and trackers and sends commands to
terminals. The repository has no tests, no documentation and few comments: what
the code says of itself is in its log messages, its error texts and the
declarations of its interfaces.

This directory holds the TLA+ modules that model it, the TLC configurations that
check them, and the proofs that hold for every value of their constants.

    tlc -config GT06Conn.cfg GT06Conn        # a run
    tlapm GT06ConnProofs.tla                 # a proof module

## 1. Inventory

Status: **M** modelled, **P** partly, **–** not modelled (section 15 says why).

| component | state it keeps | operations | status |
|---|---|---|---|
| GT06 device, connection lifecycle (`gt06.go`) | `c`, `c_next`, `runningState`, `stopped`; locks `rs_mu`, `c_mu`, `c_next_mu`, `stopped_mu` | `Run`, `_run`, `run` (its locks), `use_next_conn`, `ReplaceConn`, `Stop`, readers of `c` | M `GT06Conn` |
| GT06 device, session (`gt06.go`, `frame.go`, `parser.go`) | the command slot `cmd`, `msg`, `stat`, `loc`, `timeout_ping_sent`, counters | `run`, `handle_*`, `_send_command`, `SendCommand` | M `GT06Session` |
| Location store (`pgstore.go`) | `wbuf`, `rbuf`, `wlock`, `cond`, the table | `NewStore`, `Run`, `Put`, `flush`, `timer_flusher`, `handle` | M `PgStore`, `LocationLog` |
| Sublist and web stream (`sublist.go`, `webstream.go`) | `list`, `mu` per tracker; `buf`, `closed`, `sublist`, `lock` per client | `GetSublist`, `Subscribe`, `Unsubscribe`, `SendLocation`, `SendEvent`, `Push`, `readloop`, `writeLoop` | P `Webstream` |
| GPS server: listener, login, registry (`server.go`) | `device_list` (two maps under one lock), the `tracker` table | `runListener`, `handle`, `handleAs*`, `register_and_fetch_config_attr`, `GetDevice`, `PurgeDevice` | P `GpsServer` |
| SimpleJSON device (`simplejson.go`, its `frame.go`) | as GT06, without a command slot | the same names | M `SimpleJson` |
| Serial numbers, frames, parsers (`device.go`, `frame.go`, `parser.go`, `crc16.go`) | `Message` and its `Buffer`, kept for all connections of a device | `readMessage`, `newFrame`, `newCommand`, `CombineSn`, parsers | P `Frames` (`CombineSn` in `GpsServer`) |
| Web sessions and users (`login.go`, `logout.go`, `changepwd.go`, `sessioncheck.go`, `user.go`) | tables `user`, `session`, `websocket_session` | login, logout, change password, suspend, purge | P `WebSession` |
| Web API dispatch, tracker functions | none of their own | session check, then one SQL statement or one call of a device | P (check, `CreateWsToken` in `WebSession`; `SendCommand` in `GT06Session`) |
| Misc store, log store | none | one SQL statement; a stub | – (their calls are in `GT06Session`) |
| Broker (`broker.go`) | `wbuf`, `rbuf`, `wlock`, `rlock`, `cond` | `Broadcast`, `timer_flusher`, `flush`, `handle`; only `cmd/brokertest` uses it | M `Broker` |
| Tunnel (`cmd/tunnel`) | a pair of copying goroutines | a TCP relay, apart from the server | – |
| Statistics (`gps/stat`) | a ring of event times | nothing imports it | – |
| Legacy `internal/gps`, web stubs, `cmd/*` | | the predecessor of gpsv2 imports packages that do not exist; experiments | – |

### How they interact

* **Listener → device.** `handle` reads a login frame, looks the serial number
  up in the registry and either calls `ReplaceConn` on the device it finds or
  makes a device, calls `Run` and registers it. The login's goroutine, the
  device's `_run` goroutine and API handlers share the device object.
* **Device → store.** The device's goroutine calls `Put`, which may have to copy
  a pointer and signal; the store's own two goroutines (timer, `handle`) do the
  database work.
* **Device → browsers.** The device's goroutine calls `SendLocation` and
  `SendEvent`, which call `Push` of every websocket client while they hold the
  tracker's lock; the client's two goroutines (read, write) share its lock with
  all devices it subscribes to.
* **API → device.** `SendCommand` writes to the terminal from an HTTP handler's
  goroutine; the answer is read by the device's goroutine. `PurgeDevice` stops a
  device.
* **API → database.** Everything else of the web API is SQL.

### What is hard, and what makes each component correct

* **Connection lifecycle.** Four locks taken in different orders by logins,
  the run goroutine and API calls; a pointer exchanged while others read it; a
  state set by the goroutine *after* the one who starts it has gone. Correct when
  a serving goroutine never sees its connection change, when a connection handed
  over is served or found closed, when nobody waits for ever.
* **Session.** One command slot, written by several goroutines, with a reply
  that may come before the sender has noted that it sent; a read deadline after
  which the *previous* frame is handled again; frames cut by the deadline.
  Correct when an answer is taken once, for the command it answers, and when what
  is announced is what the device holds.
* **Store.** Double buffering with a condition variable that is waited for
  without a condition. Correct when nothing is dropped, reordered or stored in
  an order the devices did not produce; how much may be lost or stored twice is
  what `LocationLog` says.
* **Web stream.** A subscriber's lock taken under a tracker's lock, by many
  trackers; clients that leave without unsubscribing. Correct when a subscriber
  misses and repeats nothing, both sides agree, and a device always gets its
  goroutine back.
* **Registry.** Check, then a database call, then act. Correct when one serial
  number gets a second device, a second row or a lost entry from logins at the same
  time only, when a connection reaches a device of its own terminal, and when no
  path through a login forgets the connection.
* **SimpleJSON.** The lifecycle of GT06 with the locks in other places, no
  read deadline and a `c_next` that is never reset. Correct when what is closed is
  what was read, a connection handed over is read, locations are stored in the
  order of their connections, and no open connection is forgotten.
* **Web sessions.** A login, a password change and a suspension race over several
  statements; "invalidate all session" (`changepwd.go:63`). Correct when a session
  outlives the change that ends it only by a named race, and a password is
  replaced only by who knew it.
* **Frames.** Bytes with a length in front and no verified checksum, read under a
  deadline that may pass anywhere. Correct when what is decoded is what was
  written, and when an error of the reader has a cause.
* **Broker.** Connections that share the array of a batch while `WriteTo` empties
  it. Correct when a client gets bytes in order, once, and when nothing vanishes
  that nobody got.

## 2. Plan

| # | module | of what | abstract specification | theorems |
|---|---|---|---|---|
| 1 | `GT06Conn` | connection lifecycle | – | done: types, six safety properties |
| 2 | `PgStore` | location store | `LocationLog`, done | done: types, nothing dropped, refinement |
| 3 | `GT06Session` | session on a connection | – | done: types, six safety properties |
| 4 | `Webstream` | fan-out to browsers | – (`NoGap` says it as an action property) | done: types, lists agree, lost locks, no gap |
| 5 | `GpsServer` | login, registry, purge | – | done: types, registry, overlaps, handing over |
| 6 | `SimpleJson` | the other device | – (the promise of `GT06Conn`, with other exceptions) | done: types, six safety properties |
| 7 | `WebSession` | login, logout, password change, suspension, web stream token | – (`OldPasswordOverlapped` says who is logged in) | done: types, three safety properties |
| 8 | `Frames` | bytes of a connection, reader and writer | the messages written (`Content`), against what the reader decodes | done: types, order, causes of errors, what is handled again |
| 9 | `Broker` | fan-out of shared batches | – | done: types, order, what was removed was sent |

Order: what every terminal and every location passes through first (1–5), then the
other device (6), the web side (7), the bytes (8) and the separate program (9). All
are written; what is left out is in section 15. `GpsServer` composes
the registry with the calls a device gets (`Run`, `ReplaceConn`, `Stop`), and
`GT06Conn` says what a device does with them; the two meet in one assumption each:
`GT06Conn` starts with a device that was made and `Run` once, which is what
`Create` does, and `GpsServer` takes it that `ReplaceConn` returns or does not, as
`ReplaceReturns` has exceptions: `LoginEnds` names the handler that stays in it.

Each run asks a question of its own and lists only what a proof does not settle
already or what a small instance shows best. Type invariants and a few properties
(`ApiConnStable`, `PendingIsWaiting`, `RunEndsClosed`, `UnforcedWaits`,
`RowsRaced`, `FoundUnlessRaced`, `NeverLeaks`) are proved for every instance, and
no run repeats them; `TypeOK` is in the runs `store` and `frames`, where it bounds a
buffer. States were counted at the end of each run.

| run | module | instance | distinct states |
|---|---|---|---|
| `conn` | `GT06Conn` | one device, two later logins, one caller, one purge | 61 000 |
| `session_commands` | `MCGT06Session` | two callers, three commands, two connections | 2 163 000 |
| `session_frames` | `MCGT06Session` | every kind of frame, two contents, two connections | 2 465 000 |
| `session_pending` | `MCGT06Session` | two callers, two commands; finds a violation | – |
| `store` | `PgStore` | eight records, buffers of two | 126 000 |
| `stream` | `MCWebstream` | two trackers, one with two goroutines, one client | 2 138 000 |
| `stream_live` | `MCWebstream` | three devices of two trackers, one client | 115 000 |
| `server` | `GpsServer` | three logins, one old row | 845 000 |
| `simplejson` | `SimpleJson` | three connections, a purge | 120 000 |
| `web` | `WebSession` | two logins, two changes, one call | 102 000 |
| `frames` | `MCFrames` | two frames on each of two connections | 1 987 000 |
| `broker` | `Broker` | no `BufSize`, two records of three bytes, two connections | 3 848 000 |

### Calls that do not return, and the end of the process

Three things in this program have no bound on their time: a push to a subscriber
whose lock is lost or whose browser does not read (`webstream.go:266`, `223`), a write
to a terminal that does not read (no write deadline anywhere), and `ReplaceConn` of a
device whose lock is lost (`gt06.go:334`). `Webstream` and `GT06Conn` show how these
come about. In the other modules a call of this kind may end in a program counter
`stuck` (`Block` in `GT06Conn` and `SimpleJson`, `Frames`, `GT06Session`) or is not
fair (`Replace` in `GpsServer`), so that no liveness property rests on its return and
each names the state it excepts.

A parser that indexes a payload it has not measured ends the whole process, as
nothing recovers outside the web router. `GT06Session`, `Frames`, `GpsServer` and
`Webstream` have that step. Go's slice expressions compare with the capacity, not the
length, and a payload is a slice of a buffer of 1000 bytes, a websocket message of at
least 512: `d[:8]` (`parser.go:156`) and `msg[:6]` (`webstream.go:172`) never fail.
What fails is an index beyond the length, or a bound below the other one. The lengths
from which a parser does not fail are: heartbeat 5 (`parser.go:142-150`), location 21,
alarm 32, information 1 (`189`), command response 5 or 7 by its parser (`174-184`,
`gt06.go:537`), others any. A login payload fails with eleven bytes exactly
(`parser.go:162` takes more than ten to be twelve), a websocket message with the six
letters `ADDSUB` or `DELSUB` alone (`webstream.go:173`, `195`).

## 3. GT06Conn: how connections replace each other

One device (`Device`), the connection it was created with and the later ones
(`Conn`), callers of the API (`Api`). State and code:

| variables | code |
|---|---|
| `c`, `c_next`, `runningState`, `stopped` | the fields of the same names |
| `rs_mu`, `c_next_mu` | who holds the mutexes |
| `readers`, `c_writer` | the read locks held on `c_mu` and who holds or waits for its write lock; a `RWMutex` lets no new reader in once a writer waits |
| `rpc`, `rdev`, `pinged` | one goroutine per `go _run()`, named after the connection it is spawned for, and its `timeout_ping_sent` |
| `hpc`, `hdev` | the login handler of each later connection |
| `apc`, `adev`; `spc` | callers of the API; `Stop` of each device |
| `open` | connections the server has not closed |
| `overlapped` | history: a second goroutine was spawned for the device |

Every step between two lock operations is an action: `RunStart` … `RunExit` are
`_run`, `run` and `use_next_conn`; `ReplaceConn`, `SetNextConn`,
`CloseReplaced`, `SetConnLock`, `SetConn`, `Spawn` are `ReplaceConn` and what it
calls; `StopSet`, `StopClose` are `Stop`; `ApiRLock`, `ApiRUnlock` are
`CurrentConnInfo` and `_send_command` of a caller. `stopped_mu` guards one
assignment and one read, which are single steps.

A serving goroutine pushes events for as long as it runs, and the last of them before
it closes and returns (`Disconnect`); a push that does not return leaves it `stuck`
with the read lock (`Block`). A caller's write to a terminal that reads nothing keeps
its read lock until the connection is closed (`ApiBlock`).

**Run `conn`** (two later logins, one caller, one purge) shows that

* `ConnStable`: `gt06.c` is not exchanged while a goroutine is in `run`;
* `LeakOnlyBeforeStart`: the one lock that a handler keeps is `rs_mu` when it
  found state `created`, and that device never starts;
* `BlockedOnlyAfterOverlap`: the recursive read lock of line 481 → 287 blocks
  only for a device that had two goroutines at once;
* `ReplaceReturns`: a login returns, apart from those two causes and a `SendCommand`
  that writes to a terminal that reads no more (`Writing`);
* `PendingTaken`: a connection put in `c_next` for a goroutine that has still to look
  is taken or overwritten, unless the device was stopped, had two goroutines, or the
  goroutine is stuck in a push.

Proved and not repeated by the run: `ApiConnStable`, the same for a caller between
`RLock` and `RUnlock`; `PendingIsWaiting`, a connection in `c_next` is open and not
the current one; `RunEndsClosed`, `run` returns with its connection closed.

Two later logins are enough for every overlap the code distinguishes (one
pending, one replacing it; two goroutines after a pause). Only a third can exchange `c`
under one of two goroutines when `SetConn` forgets the lock: with three the safety
properties were checked by hand (3.4 million states, no violation), and they are proved
for any number.

## 4. GT06Session: what a device does on a connection

One `_run` goroutine that serves several connections one after the other
(`MaxConn`), callers of `SendCommand` (`Api`), the terminal and its network.

| variables | code |
|---|---|
| `status`, `flag`, `current_msg`, `sent_time` | the struct `cmd` and the counters, which are assigned together and always equal |
| `spc`, `smsg`, `sflag` | `_send_command`, for callers and for `run` itself |
| `rpc`, `msg`, `pinged`, `rcmd` | `run`: program counter, the frame decoded last, `timeout_ping_sent`, the local copy in `handle_command_response` |
| `si`, `loc`, `attribute`, `put` | status and cell of the device object, the attributes and the last location in the database |
| `log_si`, `log_cell`, `announced` | what the events sent so far say |
| `terminal`, `arriving` | commands the terminal has and not answered, the frame on the wire |
| `skewed` | the next byte of the stream lies inside a frame |
| `fresh`, `answered`, `forced`, `garbled` | history: the frame is being handled for the first time, the slot's command has been answered, it was forced, a flag was read that no frame carried |

A deadline inside a frame throws away what was read and leaves it in the buffer: a
flag in the payload that is then handled again may be any mix of old and new bytes, so
`Overwritten` gives it any value (`AnyFlag`), and so does `ReadGarbage`, for the bytes
in the middle of a frame that pass for a frame (one byte is compared at the beginning,
two at the end); `BadFrame` is the case that they do not. A flag that no frame carried
may be that of any command. The three properties of commands therefore except what
follows one (`garbled`), and TLC finds each of them violated without that exception.
A payload too short for its parser (content `Short`) ends the process (`ParsePanics`,
program counter `panic`), and a push or reply that does not return leaves `run` at
`stuck`.

Abstractions: the counter of flags does not wrap (`CounterAssumption`). A torn read of
the string at line 447 is not distinguished from an old or a new value. `DeviceConfig`
has `Store` and `SublistSend` on. The terminal answers each command it received at most
once. An event is the call of `SaveEvent` and `SendEvent`, not a row: an error of
`SaveEvent` is logged and forgotten (`miscpg.go:31`). Events that carry no state are
left out.

**Run `session_commands`** (two callers, three commands, two connections;
2.2 million states, symmetric in the callers): `AnsweredOnce`, an answer is matched
to a command that has none; `AttributeMatches`, an attribute is its own command's
answer; `SavedUnlessSubmitted`, a response is stored with its command unless another
command was submitted after the match; all unless a flag was read that no frame
carried. Three commands let one be superseded by force while an answer to another is on
its way and a third waits. The run does not look beyond a state in which the exception
holds for good or `run` is stuck (`Relevant`).

**Run `session_frames`** (every kind of frame with two contents, no caller, two
connections; 2.5 million states): `EventsTell`; `AnnouncedUnlessReplyFailed`, a
connection that ends without the event `disconnected` ended at a reply that could not
be written, or with the process at a short payload; and, under fairness,
`SilentIsClosed`, a silent terminal is disconnected unless `run` is stuck or the process
has ended. Two contents are enough: the code only compares for equality.

**Run `session_pending`**: section 12.

## 5. PgStore and LocationLog: the location store

`PgStore` has a buffer `wbuf` under `wlock`, the published `rbuf`, the flag that
a tick finds the buffer old, the goroutine `handle` with its condition variable,
and the table `db`. `Put`, `Age`, `TimerFlush` are the writers; `Publish`,
`Signal` the two halves of `flush`; `HWait`, `HRead`, `HCopy` the goroutine
`handle`, whose copy may fail. `Init` allows the case that no database connection
could be acquired: nothing is started and `Put` fills buffers for ever.

`LocationLog` is what a user of the store may rely on: batches of consecutive
records, in the order in which they were accepted, each batch at most twice. The
code really loses and repeats batches (a signal that finds `handle` busy is lost;
a signal that finds it woken and not yet reading makes it copy the next batch
twice), and no text in the repository promises otherwise: so `LocationLog` allows
both, and excludes everything else.

**Run `store`** (eight records, buffers of two, 126 000 states): `NothingDropped`
(no record is lost before it is published), `ImplementsLocationLog` (the
refinement), `Published` (an accepted record is published, if only by age) and
`TypeOK` (a buffer never outgrows `BufSize`, which `Put` tests by equality). Four
batches are enough for a batch to be lost and another to be copied twice in one
behaviour.

## 6. Webstream: from a device to browsers

Goroutines (`Run`) that publish to trackers (`Tracker`), and clients (`Client`), each
with a reading and a writing goroutine. The copy of a `Sublist` that a device holds is
shared by all goroutines of the device, and there may be two (section 3, section 8): a
`Feed` is the field `data` or `event_data` of one device's copy, `feeds` says which
fields a goroutine assigns, `trk` of which tracker.

| variables | code |
|---|---|
| `list`, `mu` | the map and the mutex a `Sublist` and all its copies share |
| `pub`, `torn` | the number of the value a field was assigned last, and whether that assignment met another one |
| `ppc`, `pfeed`, `ptodo`, `pcur` | `SendLocation` and `SendEvent`, which differ in the field they set only; the range over the map in any order |
| `lock`, `closed`, `buf`, `subs` | the fields of a `WebstreamClient` |
| `rpc`, `rtr`, `msgs` | `readloop` |
| `wpc`, `written` | `writeLoop` |
| `upto`, `raced` | history: the last publication pushed; publications of a field overlap, or did until now |

A publication is the assignment (`Publish`) and, later, taking `mu` (`PubLock`); each
push reads the field anew (`Read`), so that it pushes what the other goroutine assigned
meanwhile, or a slice header in parts (`Torn`). `Push` of a closed client returns with
the client's lock held, as the code does; `writeLoop` writes with the lock held and
never asks whether the client is closed; `Subscribe` pushes the two placeholders of its
own copy (publication 0). A message that names several trackers is several messages,
which may therefore still come after a failed write has closed the client. A message of
its six letters alone ends the process (`ShortMessage`).

The range over the subscribers and the assignment after `Lock` in `Subscribe` are
taken in one step with the lock or the push next to them: `mu` is held throughout,
so nobody can see the difference.

**Run `stream`** (two devices, one of them with two goroutines, two publications of
each field, one client that is closed by its second subscription, three messages;
2.1 million states):

* `NoGap`: after a subscription every publication is pushed, once and in order. While
  two goroutines publish the same field, one publication may be missing, another pushed
  twice, one in parts, and still an earlier one never follows a later one;
* `ListsAgree`: the client's map and the trackers' lists agree except during a
  change, and a closed client alone may be missing;
* `StuckOnAnother`: a client's lock is lost only when it is closed, and the tracker
  whose publication lost it does not meet the client again: those that block are
  publications of *other* trackers.

**Run `stream_live`** (three devices, two of them of one tracker, one publication each;
115 000 states):

* `PublishReturns`: a publication returns. That browsers take what they are sent is
  a premise of the property, not an assumption of fairness: the write has no
  deadline, and a browser that stops reading does stop the devices. The other
  exceptions are a lost lock and the end of the process, and the run shows that there
  is no further one.

The limit is 1 and not 5, so that two trackers exceed it; two are enough for one to
lose the lock and the other to block on it. Two publications of one field are enough for
one to overwrite the other. Three messages leave room for a subscription, its end and
another; longer sequences, and any number of clients, goroutines and trackers, are what
the proofs of the safety properties add.

## 7. GpsServer: logins and the registry

One login handler for each connection (`Conn`), the registry, the `tracker` table.

| variables | code |
|---|---|
| `listening` | the loop of `runListener`, which any error of `Accept` ends |
| `lpc`, `kind`, `ser`, `nsn` | `handle`, `handleAsGT06`, `handleAsSimpleJson`: program counter, `device_type`, the serial type and number of the login message, `ser.Nsn()` |
| `target` | the device `deviceNsn` returned |
| `tid`, `allow` | what `register_and_fetch_config_attr` returned |
| `nsnlist`, `list` | the maps of `DeviceList`; the fields of an entry are those of the login that made its device |
| `row` | the table: the nsn of each row |
| `made`, `given`, `stopped` | devices after `Run`, the device a connection was handed to, devices `Stop` was called on |
| `closed` | connections their login handler closed |
| `raced` | history: pairs of logins of one serial number of which each had looked for a device before the other registered one |

Rows and devices are named after the login that inserts or makes them; `Old` names
rows that earlier servers left, with any serial number or none, which also stands
for a restart: the registry is gone and the table is not. `AllowConnect` is read
as either value, because the API edits it at any time. Serial numbers go through
`CombineSn`; the instance cuts them at 2 instead of 2^60, so that the serial numbers 1
and 3 become one, and has one type of SimpleJSON serial number besides the IMEI. An IMEI
has 16 decimal digits and is never cut; a SimpleJSON serial number is any 64-bit number
(`Serial`). The GT06 login payload that panics is `Panic`; it ends the server.

`PurgeDevice` sets `Deleted` on a copy of the entry (line 138) and the entry stays:
the lookup of lines 336 and 405 never sees it, and the next login of a purged
tracker is handed to the stopped device. For an id without an entry it panics on a
nil `Dev`; the router's `Recoverer` catches that and nothing changes.

**Run `server`** (three connections, one GT06 and two SimpleJSON terminals, one old row;
845 000 states):

* `MapsAgree`: whoever finds a serial number finds a device of that serial number,
  and an entry's row is its device's;
* `TwinsRaced`: two devices of one serial number come from two logins of which each
  had looked before the other registered. The code does let them overlap: this is the
  exact condition. The proofs add the same for a second row (`RowsRaced`) and for an
  entry taken over (`FoundUnlessRaced`);
* `OwnTerminal`: a device gets connections of the terminal it was made for: the same
  protocol, serial type and serial number as the login message had it. The exception is
  a SimpleJSON serial number of more than 60 bits: its terminal shares a device with the
  one that has the remainder, and the run fails without the exception;
* `ClosedOrServed`: a login closes its connection or hands it over, never both;
* `LoginEnds`: a login ends, whatever its terminal does, unless it panics, which ends the
  server, or waits in `ReplaceConn`, which nothing makes return.

Three connections are two that overlap and one that comes before or after them.

## 8. SimpleJson: the other device

The same life as a GT06 device, from the login that makes it: `Run` by that login
(`first`), `ReplaceConn` by later ones, `_run` with `run` and `use_next_conn` inside,
`Stop` by a purge.

| variables | code |
|---|---|
| `c`, `c_next`, `runningState`, `stopped`, `rs_mu` | the fields of the same names |
| `open`, `buffered` | connections not closed; whole messages in the `bufio.Reader` of each, which are read after a close too |
| `hpc`; `rpc`, `rconn`; `spc` | the login handlers; each `_run` goroutine and the connection its `readMessage` has; `Stop` |
| `stored` | the connection of the last location given to the store |
| `stamp`, `clock`, `taken`, `superseded`, `late`, `overlapped` | history: the order in which connections were handed over, which were read, which were replaced before that, a hand-over when nobody would look again, two goroutines at once |

No critical section of the four locks waits for anything but another one, so each is
one step. `ReplaceConn` lacks a branch for state `created`, as in GT06; here `Run`
sets the state before the device is registered, and nobody meets it (`NeverLeaks`,
proved). `BadMessage` closes the connection and reads on, as the `break` only leaves
the switch. `SendLocation` inside `HandleMessage` may not return (`Block`, `stuck`).

**Run `simplejson`** (three connections, one message in a buffer; 120 000 states):

* `ReadsCurrent`: `closeAndSetErr` closes the connection that was read, although it
  evaluates `j.c` again with no lock;
* `OrphansSuperseded`: a connection is forgotten open only when the next one came
  before anybody had read it;
* `NeverPausesAgain`: as `c_next` is not reset, a device that was handed a second
  connection takes the closed one again and again after its end, a goroutine that is
  never idle; it pauses only when stopped, when the connection came too late, or
  after an overlap;
* `StoredForward`: locations are stored in the order of their connections;
* `HandedTaken`: a connection handed to a running device is read, unless its goroutine
  is stuck in a push to a subscriber.

Each names the exceptions the code has. Those of a replaced, a stopped or a late
connection happen in the instance, which fails without them. An overlap of two
goroutines happens too but needs a fourth connection to do harm (a fifth to lose one
open): four were run by hand without the liveness property and without `Block` (1.05
million states, no violation; without the exception `ReadsCurrent`, `NeverPausesAgain`
and `StoredForward` are violated), and the proofs hold for any number. Three connections
are one served, one pending, one that replaces it.

## 9. WebSession: who is logged in

One user, whose requests run at the same time and share the database only: logins
(`Sess`, each draws a session id), changes of the password (`Change`), calls of the
API (`Call`), and at any time a logout, an expiry, a purge of sessions, a suspension.

| variables | code |
|---|---|
| `password`, `require_change_pwd`, `suspend_login`, `rowlock` | the row of table `user` and the transaction that has it `FOR UPDATE` |
| `session`, `expired`, `ws_token` | tables `session` and `websocket_session` |
| `lpc`, `lpwd`, `lhash` | `login`: SELECT, comparison, INSERT |
| `cpc`, `csess`, `cpwd`, `chash`, `cdeleted` | `change_password`, its transaction |
| `kpc`, `ksess`, `acted` | the dispatcher's `Call`: check, then the function |
| `streaming` | sessions whose token opened a web stream |
| `settled`, `overlapped` | history: logins that overlapped a change between its DELETE and its Commit |

A statement is one step, at the isolation level the code uses (PostgreSQL's default,
read committed): a transaction's writes are seen when it commits, a locked row makes
others wait or, with `NOWAIT`, fail. `SELECT … FOR UPDATE` is one step: the new look
PostgreSQL takes at a row that was changed meanwhile is not told apart. A password is
the number of changes that led to it. `SetSuspendFlag` only sets the flag: the
validator refuses `false` as missing.

**Run `web`** (two of each request but one call; 102 000 states):

* `OldPasswordOverlapped`: a session opened with an older password is one whose login
  overlapped a change;
* `FirstPasswordIdle`: nothing is done or streamed in the name of a session opened
  with the first password, which must be changed, although the web stream does not
  ask for that and the dispatcher asks before the function runs;
* `ReplacesKnown`: a password is replaced only by a request that gave it, and never
  that of a suspended user.

Two changes are needed for one to come between the reading and the writing of the
other, two logins for one session to change the password under the other.

## 10. Frames: the bytes of a connection

The terminal's end writes frames (`newFrame`, `newCommand`, and the extended frames
of terminals), the server's end is `readMessage` byte by byte, inside the loop of
`run` with its deadlines.

| variables | code |
|---|---|
| `wire`, `sent` | bytes on the connection; history: the messages they come from |
| `Buffer`, `msg` | `gt06.msg`, one for all connections; `Payload` is a slice `from..to` of `Buffer` |
| `got`, `need` | `io.ReadFull` in progress |
| `pc`, `timeout_ping_sent` | `run` |
| `handled`, `repeated` | history: what the switch was given after a read, and after a deadline |
| `last`, `lost`, `torn` | history: the frame decoded last, a deadline inside a frame, bytes of another frame read since |

The parser of a protocol takes a payload of `MinPayload` bytes or more and panics on a
shorter one (`TooShort`), inside `Switch`; a reply or push there may also end the
connection or never return (`stuck`).

`GT06Session` starts from what this module shows: it takes frames as whole and names
what a deadline inside one leaves behind (`skewed`, `Overwritten`, `ReadGarbage`).

**Run `frames`** (bytes of 12 values, six messages; 1 987 000 states):

* `InOrder`: what is decoded is what was written, in order, up to the first message
  whose length does not fit in its field or the buffer, unless a deadline passed
  inside a frame;
* `ErrorsExplained`: bad frames and "buffer too small" happen only after one of these
  two; a panic, of a length below 5 or of a parser, only after one of them or in the turn
  of a frame that was written too short for its parser (`ShortAt`), never when the frame
  decoded last is handled again;
* `RepeatsLast`: what is handled again after a deadline is the frame decoded last,
  though its payload is a slice of the buffer being read into;
* `Delivered`: what was written is decoded, with the same exceptions and as long as the
  connection and the process last and `run` is not stuck;
* `TypeOK`: the slice lies within the buffer.

A byte has 12 values instead of 256, so that a payload of 7 bytes already is too long
for the length of a short frame; the buffer has 18 bytes instead of 1000. The messages
are one without payload, a heartbeat that lacks a byte, the longest command that fits,
one that does not and whose text holds CR LF, an extended one whose payload looks like a
header, and one longer than the buffer.

## 11. Broker

| variables | code |
|---|---|
| `accepted`, `wbuf`, `flushing` | `Broadcast` and the timer under `wlock` |
| `rbuf` | the buffer published last, under `rlock` |
| `array` | the arrays the slices `wbuf.buf` and `rbuf.buf` lie in |
| `pc`, `buf` | `handle`: program counter, its copy of the slice and the local variables of `net.Buffers.WriteTo` |
| `got`, `parts`, `collided` | history: bytes a client received; who took a batch in parts; arrays of which two connections changed one entry at once |

Within `buf`, `pos..len` is the slice that is left, `vec` the bytes gathered for
`writev` from the entries before `next`, `n` the bytes written and not yet removed
and `ln0` the length of the first entry as it was read. A byte is a record and a
position in it.

`handle` copies the slice, not the array, and `WriteTo` (external: modelled as the Go
library has it, gather, `writev`, then removing what was written entry by entry)
empties the array that all connections share.

`cmd/brokertest/main.go:13`, the only user in the repository, gives no `BufSize`: it is
0. `Broadcast` compares after `append`, so no length starts a flush; the buffer grows with
what is broadcast between two ticks (`Cap` is the bound of the model), and the ticks alone
publish it. The module has any `BufSize` from 0.

**Run `broker`** (`BufSize` 0 as configured; two records in one buffer or in two, of three
bytes, two connections; 3.8 million states):

* `InOrder`: a client gets bytes in order and no byte twice;
* `WrittenOrLeft`: bytes that are gone from a batch were sent to somebody;
* `Published`: what was broadcast is published, by the ticker alone.

`TypeOK` is proved: with a `BufSize` no buffer outgrows it, which `Broadcast` tests by
equality.

The exceptions they name happen: two connections that change an entry at the same time
(a data race), and two that both took a batch in parts, each of which then removes a
count of bytes from entries the other has shortened. That a client misses bytes which
another one took first is common and no text promises otherwise; no property says so.
Reading or writing an entry, a slice header of three words, is one step: half-written
headers are left out. Three bytes let a record be split twice; three records of two
bytes and a `BufSize` of 2 (5.1 million states), and random behaviours of three
connections and four records, were run by hand and show nothing else.

## 12. Disagreements

| run | what the code says | what it does |
|---|---|---|
| `session_pending` | "has pending message" (`tracker.go:595`) | an answer that overtakes the sender's `status = command_sent` leaves the slot taken although nothing is pending, until a caller forces a command or the `STATUS#` of a timeout is answered |

Others are visible in passing runs, as the exception a property names or as what an
action does:

* "closing replaced connection" (`gt06.go:338`) closes whatever `gt06.c` is after
  `rs_mu` was released, which may be the new connection (`CloseReplaced`; `PendingTaken`
  still holds: the connection is found closed);
* the response of one command may be stored as that of the command submitted meanwhile
  (`gt06.go:447`, the exception of `SavedUnlessSubmitted`);
* "receive message from terminal" (`gt06.go:497`) is logged again for the previous
  frame after the first timeout (`TimeoutPing` of `Frames`, `RepeatsLast`);
* `Put(nsn, lon, lat, …)` (`store.go:8`) is called with latitude first
  (`gt06.go:388`, `simplejson.go:235`; `Located` of `GT06Session`);
* a `SAT_UPDATE` always closes its connection: `json.Unmarshal` is not given a pointer
  (`BadMessage` of `SimpleJson`);
* a device of the SimpleJSON protocol is registered with type `DEVICE_GT06`
  (`server.go:425`).

Seen while reading and not part of any model: `Logout` calls `err.Error()` on nil when
no row is deleted; `PurgeTracker` has no error result, so the dispatcher's `err_ref[0]`
panics after its effect; "device not found" (`tracker.go:428`) is never answered; an
event's `append` results are dropped (`sublist.go:147`, `157`); the SQL of `AddUser`
skips `$3`; no route leads to `usermgmt`.

## 13. Fairness

* `GT06Conn`: strong fairness of every goroutine that runs a device and of every
  login handler (`RunProgress`, `HandlerProgress`), because they wait for locks
  that are released and taken again: Go's `sync.Mutex` hands over to a waiter in
  FIFO order once it has waited for one millisecond, and `RWMutex` lets a waiting
  writer keep new readers out. Weak fairness of what waits for nothing: `StopClose`
  and a caller's `ApiRUnlock`. A `Read` or a `Write` on a closed connection returns;
  on an open one nothing makes it. A push that does not return is `Block`, after which
  the goroutine has no step.
* `Webstream`: strong fairness of `PubStep`, `ReadStep` and `WriteLock` for the same
  reason, weak fairness of `WriteUnlock`; none of `Write`, which is the browser's.
* `GT06Session`: weak fairness of the run goroutine. The read deadline is set before
  every read (`gt06.go:574`), so a silent connection times out. A call that does not
  return is a step to `stuck`, where fairness has nothing more to ask.
* `GpsServer`: weak fairness of each login handler (`Handle`). It waits for its
  terminal with a deadline (line 277) and for the database, which is taken to answer;
  none of `Replace`.
* `PgStore`: weak fairness of the ticker, of `flush` once begun and of `handle`.
* `SimpleJson`: weak fairness of each goroutine and each login handler, except of the
  `Read` of an open connection, which no deadline ends; a push that does not return is
  `Block`.
* `Frames`: weak fairness of the reading goroutine while there are bytes (`ReadStep`);
  its switch may end in `stuck`.
* `Broker`: weak fairness of the ticker and of `flush` once begun; none of a connection.
* `WebSession` has safety properties only and states none.
* Nothing is assumed of terminals, browsers, callers of the API or the database's
  success.

## 14. Proofs

Each model has a module of proofs, `GT06ConnProofs`, `PgStoreProofs`,
`GT06SessionProofs`, `GpsServerProofs`, `SimpleJsonProofs`, `FramesProofs` and
`BrokerProofs`; `WebSession` and `Webstream`, which share no variable, have one
together, `WebProofs`, and for its sake the first calls its specification `WebSpec`.
Every safety property that a run checks is a theorem of them, for every value of the
constants that the modules' assumptions admit (`ConnAssumption`, `StoreAssumption`,
`SessionAssumption`, `StreamAssumption`, `ServerAssumption`, `JsonAssumption`,
`WebAssumption`, `FramesAssumption`, `BrokerAssumption`, `CounterAssumption`,
`MinPayloadAssumption`: distinct names, natural bounds, a buffer of the store and a
record of at least one, a reader's buffer of at least a header, a check sum of two
bytes, a counter of flags that does not wrap; the broker's `BufSize` may be 0). Each
follows one pattern: an inductive invariant, one step per action, the property from the
invariant.

* **GT06Conn.** The properties speak of `c` and closed connections; why they hold
  is who holds which lock. The invariant adds, on top of types: a goroutine inside
  `use_next_conn` holds `c_next_mu` and has a connection to take (`SwapHolds`); one
  in `run` is a reader of `c_mu` (`ReadHeld`), so no writer exists; a connection in
  a handler's hands is open and neither current nor pending (`NewIsOpen`,
  `CurrentSet`, `PendingSet`); who holds `rs_mu` and what state that implies
  (`StateHeld`, `CreatedIsNew`, `PausedHeld`); and, for
  `BlockedOnlyAfterOverlap`, that without overlap there is one goroutine and one
  writer (`OneGoroutine`, `WriterIs`, `SpawnedLast`).
* **PgStore.** `NothingDropped` needs that `flush` holds `wlock` from its decision
  to its end (`FlushHolds`). The refinement maps `db` to the abstract table; it
  needs that published batches are runs of consecutive records (`Runs`) and how
  often a batch that `handle` holds has been copied (`Copies`): at most twice, as a
  signal can wake `handle` once for a batch it has read already.
* **GT06Session.** `AnsweredOnce` is the hard one: a response matches by its flag, a
  frame may be handled twice and overwritten in part. The invariant says that a flag
  beyond the slot's does not exist (`FlagBound` in `SlotTyped`), that a frame, a
  terminal's command and a sender's command with the slot's flag carry the slot's text
  (`Content`), as long as no flag was read that no frame carried, that the slot's
  command exists in one copy at most: with its sender, at the terminal, on the wire or
  as the decoded frame (`OneCopy`), and that an empty slot is an answered one
  (`EmptyMeansAnswered`). `SavedUnlessSubmitted` needs that a response whose flag still
  is the slot's was matched to the slot's command (`SavedKnown`).
* **Webstream.** `ListsAgree` needs who holds `mu` (`MuHeld`: a publication in its
  range, a subscription between its two pushes) and is itself stated for the
  client that is in the middle of a change (`BothSides`). `StuckOnAnother` needs
  that a publication drops the client whose lock it keeps (`Dropped`), that a range
  meets a client once (`OncePerRange`) and that a lost lock is a closed client's
  (`ClosedIfLost`). `NoGap` needs that a subscriber that is not lost has been pushed
  everything but the publication whose range has not reached it (`UpToDate`,
  `Behind`), for a field that one goroutine publishes; and that what it was pushed is
  never beyond what has been assigned, for a field that several do (`raced`).
* **GpsServer.** `MapsAgree` needs that a fetched row keeps its serial number
  (`RowFetched`, which needs that a row is inserted once, `RowInserted`) and that an
  entry's login has ended (`EntryOfDevice`). The three properties of overlaps follow
  from one: a login that is creating a device overlapped every other one that is or
  has done so for the same serial number (`CreatingRaced`). It is inductive because a
  device whose login has ended can be found (`DoneListed`): a later lookup does not
  miss it. `OwnTerminal` needs that the type bits of a serial number tell the
  serial type, and with it the protocol, and the rest the serial number, if it was not
  cut (a type other than 0 lies above every cut serial number).

* **SimpleJson.** `NeverLeaks` needs that only the device's maker sees state `created`
  (`CreatedIsNew`, `FoundRegistered`). The others speak of behaviour without overlap:
  then there is one goroutine, and a paused device has none (`OneGoroutine`,
  `PausedIdle`). `OrphansSuperseded` needs that whoever leaves `run` has closed the
  connection, and a connection that was read and is no longer current is closed
  (`LeftClosed`, `TakenClosed`); `StoredForward`, that `c_next` was not handed over
  before `c` (`NextIsLater`), and that handed-over connections have different times
  (`Stamped`).
* **WebSession.** `ReplacesKnown` needs that at most one transaction has the user's row,
  and what it read of it is still true (`OneHolder`, `ReadStillTrue`).
  `OldPasswordOverlapped` needs that a login that is over when the DELETE runs has its
  row among those found (`DeleteFound`), that a login that read an older password
  overlapped (`LoginsAsRead`). `FirstPasswordIdle` follows what passed the dispatcher's
  check to where it acts (`Passed`).
* **Frames.** The bounds of the slice follow from the header that is in the buffer
  while a body is read (`HeaderInv`); `RepeatsLast`, from `gt06.msg` describing the
  frame decoded last and its payload lying behind the four bytes that the next header
  overwrites (`Repeats`). `InOrder` and `ErrorsExplained` need that the reader is in
  step with the writer (`StreamInv`): the bytes of the frame that is being read, those
  in the buffer and those still on the wire, are the frames of the messages not yet
  handled, one behind the other (`Aligned`); a frame that was handled again has been
  parsed before. Where a frame begins is a sum over all
  messages before it; instead of a recursive definition, about which nothing could be
  proved, the invariant says that a function exists that is 0 or more at the first
  message and grows by a frame's length at each (`Begins`), and a step names the
  function of the next state. That a header tells the length of its frame is
  arithmetic of the two bytes `PutUint16` writes and `Uint16` reads, with any radix,
  and holds for a message that `Fits`.
* **Broker.** Records are numbered along a batch and from batch to batch
  (`RecordsInv`), and what a client has is of the batches up to the one its
  connection works on (`BelowInv`). The heart is what a connection knows about
  the slice it copied while others empty the array under it (`SliceInv`):
  + while it gathers, some function says at which offset of `vec` each entry's bytes
    begin, and what the entry holds now is the end of what was gathered from it
    (`Offsets`); others can only shorten it, as long as no two collide;
  + while it removes, some function says how many of the written bytes fall to each
    entry and those after it (`Counts`), so that what stays is behind all that its
    client has. With others removing too, the connection removes the first bytes
    of an entry that is shorter than it was: never bytes in the middle. That gives
    `InOrder`;
  + if it alone wrote the batch in part, and nobody wrote the rest whole (`Unsent`),
    the two functions are exact (`ExactOffsets`, `ExactCounts`), and each byte it
    removes is one it sent. If somebody wrote the whole batch, every byte was sent,
    whoever removes it (`Sent`). That gives `WrittenOrLeft` (`WrittenInv`), and shows
    that its exceptions are the only ones.

  As in `Frames`, sums over a batch are functions whose existence the invariant
  states, and `RecordsInv`, `BelowInv` and the others rest on one lemma of what any
  step may do (`GrowsStep`): records stay, entries only shrink, clients only gain.

Model-checked only: the liveness properties (`ReplaceReturns`, `PendingTaken`,
`SilentIsClosed`, `Published` of the store and of the broker, `PublishReturns`,
`LoginEnds`, `HandedTaken`, `Delivered`), which are beyond the prover.

## 15. Not modelled

* Fields of a frame's content and of a SimpleJSON message, and their parsers: pure
  functions with one expression per field; the repository has no second definition of
  them to compare with. The lengths they index are modelled (section 2). `GT06Session`
  gives a frame a kind, a flag, a text and one content. `readMessage` does not verify
  the checksum, so it is any two bytes, and `crc16.go`, a copy of a published package,
  stands apart.
* The bytes sent to browsers (`encode_location`, `encode_event`): one assignment each.
* `GT06Conn` begins with a device whose terminal logs in again; that two device
  objects may serve one serial number is in `GpsServer`.
* An earlier pending connection that a later one overwrites in `c_next` stays open
  and unserved. `GT06Conn` contains it (`open` keeps it), and no property says
  otherwise, as the code says nothing of it; `SimpleJson` does name it
  (`OrphansSuperseded`).
* After `runListener` has returned, `main` calls `Accept` on the listener it closed.
* PostgreSQL: a statement succeeds or fails. The tracker functions of the web API,
  `MiscStore` and the listing functions of `usermgmt` are one statement each on tables
  nothing else in the models uses.
* `cmd/tunnel`, a separate program: a TCP relay whose behaviour is that of the yamux
  library and of `io.Copy`.
* `internal/gps` (nothing builds it), `gps/stat` (nothing imports it), the log store
  and the web stubs, the other `cmd/*` experiments, logging.
