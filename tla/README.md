# A verification of brmdoor_libnfc

brmdoor_libnfc is the access-control daemon of a hackerspace: a PN53x reader
behind a door, a sqlite database of cards, a GPIO pin that drives the lock, an
IRC bot that tells what happens at the door, and an OPEN/CLOSED switch whose
state is shown in channel topics and on the web. This directory holds TLA+
models of it, the TLC configurations that check them on small instances, and
proofs checked by TLAPS. File names and line numbers refer to `src/`.

## The system

| Part | State | Operations | Talks to |
|---|---|---|---|
| `NFCScanner` (`brmdoor_nfc_daemon.py:97-199`), main thread | where it is in a visit; locals of `actOnUid` | scan, three authentications, announce, unlock, wait; Ctrl-C clean-up | reader, database, `IrcThread.getConnected`, message queue, lock |
| Authenticators (`brmdoor_authenticator.py`) | none beyond a sqlite connection | `fetchUidRecord`, `checkHMACforUID`, `checkUIDSignature` | database, reader |
| Lock driver (`unlocker.py`) | the level of a GPIO pin, which outlives the process | `unlock` (high, sleep, low), `lock` | the pin |
| Reader (`nfc_smartcard.cpp/.h`) | context, open device, selected card | `scanUID`, `sendAPDU`, `readDesfireNDEF`, `open`, `close`, `unload` | libnfc, libfreefare |
| `IrcThread` (`:201-372`) | `connected` under `threadLock`, connection, handlers on the current reactor, topic handlers' use of `channelPrefixMap` | `connect`, `run`, `onConnect`, `onDisconnect`, `onTopic`, `setTopic`, `getTopic` | irc library, message queue |
| `OpenSwitchThread`, `SpaceAPIUploader` (`:374-498`) | `lastStatus`, the position in the loop over channels | read, upload, request topics | `IrcThread.connected` (read without the lock), `channelPrefixMap`, `getTopic`, SFTP server |
| Database tools (`brmdoor_adduser.py`, `import_jendasap_cards.py`, `create_authenticator_db.py`, `SYNC_cards_from_vps.sh`) | three tables | add, replace a table, create, synchronise | the sqlite file, while the daemon reads it |
| `write_signed_ndef_on_desfire.py`, `test_nfc.py` | a temporary file, an exit status, the NDEF of a card | scan, sign, hand the reader over to three tools; exercise the reader | reader, libfreefare tools |
| Configuration, keys and signatures, scripts, build | none that lasts | | |

The threads share four things: `threadLock` (not reentrant), `connected`, the
unbounded message queue, and the global `channelPrefixMap`. The scanner calls
`getConnected` before it unlocks; the switch thread sends on the IRC thread's
connection; the irc library runs disconnect handlers in whichever thread's send
finds the connection dead.

What is hard here, and what correctness means for each part:

* **The visit.** Three queries and up to six radio exchanges are not one
  transaction: the database is updated and cards are moved in between. The door
  must open only for a visitor entitled at some moment of the visit; a card that
  is listed throughout must not be turned away.
* **The lock.** The pin outlives the process. Wherever an exception or an
  interrupt strikes, the lock must end up engaged.
* **The IRC thread.** Losing a connection, finding out late, reconnecting from
  inside a handler, exceptions between taking a message and sending it. Messages
  must keep their order and appear at most once; the flag must agree with the
  connection; a lost connection must be replaced; and none of this may keep the
  door shut.
* **The switch.** Its thread reads a flag without a lock, writes a map another
  thread reads and deletes from, and sends on another thread's connection. The
  last status must reach the web and the topics, and no topic may go back to an
  older status, whatever requests lost connections leave behind.
* **The reader.** One process at a time has it open; the object that stands for it
  has two pointers and two flags, and some methods do not look at them. Every
  program must give the reader back, whatever went wrong, and the search through a
  card's capability container must end at the right place although its offset is
  eight bits wide.
* **The card database.** Several administrators' tools and the daemon share one
  file. The daemon must see whole imports or none, an addition must take nothing
  from anybody, and tools that race or die must not leave a mixture.

The full list, with the line at which each hazard bites and the properties that
watch it, is in `PROJECT.json`.

## The modules

| Module | What it is |
|---|---|
| `IrcShared` | `threadLock`, `connected`, `msgQueue` |
| `Entitlement` | what a database content and the cards shown entitle to |
| `AccessPromise` | abstract: what the door promises, visit by visit |
| `DoorScanner` | the scanner thread, authenticators, lock, reader as it uses it, process life cycle, cards and database updates |
| `DoorScannerProofs` | the TLAPS proofs about `DoorScanner` |
| `IrcThread` | the IRC thread, and the irc library, server and network as it sees them |
| `OpenSwitch` | the switch thread and the uploader; extends `IrcThread`, on whose connection it sends |
| `BrmdoorDaemon` | the three threads together, and the properties of the whole |
| `CardStore` | abstract: what the card database promises to whoever reads it |
| `CardDb` | the tools that write it, their transactions, races and deaths |
| `CardDbProofs` | the TLAPS proofs about `CardDb` |
| `Announcements` | abstract: what the channels are promised, visit by visit |
| `BrmdoorDaemonProofs` | the TLAPS proofs about the three threads: types, order of announcements and topics, the connection |
| `DaemonAwaitProofs` | the TLAPS proofs about what the threads wait for: the lock, joins, topic requests |
| `DaemonPromiseProofs` | the TLAPS proofs that the daemon implements `AccessPromise` and `Announcements`, and about the door beside the other threads |
| `NfcDevice` | the life cycle of an `NFCDevice`, method by method, in several processes that share one reader |
| `NdefReader` | the search of `readDesfireNDEF` for the NDEF File Control TLV |
| `ReaderTools` | the card-writing script, the hardware test and any other program, on one reader |
| `ReaderToolsProofs` | the TLAPS proofs about `ReaderTools`, and so about `NfcDevice` and `NdefReader` |
| `MCDoor`, `MCDaemon`, `MCCardDb`, `MCReader` | values of the constants for TLC |

A step of a thread ends where something else can act: at a query, a radio
exchange, a use of `threadLock`, the queue, the map or the pin, or a wait. A
section that runs under `threadLock` is one step, because nobody else can see its
middle, except when it blocks there: then the thread stays in `"blocked"` and
`threadLock` keeps its name. `spc`, `ircPc` and `swPc` say where each thread is.

How the models' state corresponds to the code:

* `uid`, `key`, `verdict` are locals of `actOnUid` and `checkHMACforUID`; `pin`
  is the GPIO level (of `UnlockerWiringPi`; the base class `Unlocker` only
  simulates); `nfc` and `selected` are the reader's. A card is its UID;
  `KeyOn` and `SignedUid` say which HMAC key it holds and for which UID its NDEF
  carries a signature. HMAC and ed25519 are modelled by what they establish: the
  response or signature verifies exactly when the key or the signed UID is right.
* The database is one of `DbVersions`; an update replaces it at once, as a commit
  does. `dbSeen` and `shown` are histories of one visit: database contents in
  force and cards in the field since the scan. No action reads them.
* Radio failures are unrestricted: `HmacFails` and `NdefRefused` are possible
  whenever the exchange is, `ScanFails` whenever the thread scans.
* `sock` is the connection as the client could know it: `"lost"` is gone without
  the client having noticed, `"closed"` is known to be gone. `handlers` are those on
  the current `Reactor`. `lines` is what one `process_once` has read. `inbox`,
  `registered`, `joined`, `topic` belong to the server. `said` is a history.
* A send on a lost connection is `"swallowed"`, or, with `LateDetection`, it may be
  what discovers the loss (`"reset"`): the library then runs the disconnect
  handlers before the send returns, in the sending thread. `README.md:212-215` lists
  both as things that happen. A send on a closed connection raises.
* Codecs may refuse a line or a text. A line of the server that is not UTF-8 ends
  `process_once` (`:366-367`), and the lines read with it are lost; it may come at any
  time, also ahead of the welcome (`GarbledLine`, `HandleGarbled`). A text that cannot be
  encoded (`:368-369`) raises before anything is written: an announcement is lost
  (`DrainUnencoded`); in `onTopic` the lines left are lost too and the request stays in the
  map (`SetTopicUnencoded`). `noise` counts all of them. The names of channels come from the
  configuration; a JOIN or a query that cannot be encoded is left out.
* A topic is its prefix only; the text after `|` is left out, and so are changes of the
  topic by other users, whose TOPIC events also reach `onTopic`. A status is its text
  together with a number that counts the changes of the switch. The code has the text
  only, and the actions compare texts only; the number lets `TopicsForward` tell an
  older OPEN from a newer one.
* `published` is the status on the web, `"partial"` after a failure inside
  `sftp.put`.
* In `CardDb` the file is `exists`, `schema` (its tables), `db` (committed content,
  in the form `Entitlement` gives it, which is all the authenticators read of it) and
  `pending`, what the one tool in a transaction sees. `job`, `found`, `todo` and `left` are
  a tool's command line and locals. The tools are Python 2: a transaction begins at
  the first INSERT or DELETE, every CREATE TABLE commits by itself. A synchronisation
  is its two imports; download and review come before and write nothing. Later rows
  for a UID that has one are not kept apart: the authenticators fetch the first, and
  no tool deletes one row alone.
* In `NfcDevice`, `object[p]` has the pointers `_nfcContext` and `_nfcDevice` (set or
  not) and the two flags; `holder` is the process in which libnfc has the reader open.
  The methods are operators over a process, which a program conjoins with its own
  control. `NdefReader` has the octets of a container and the offset, with
  `% 256` where the code adds to a `uint8_t`; `Starts` is the reference, the offsets the
  same search takes without a width, given as a constant and required to be that walk
  by `ContainerAssumption`, which TLC evaluates.
* In `ReaderTools`, `content` is the NDEF of each card and outlives everything, `file` is
  the temporary file of a run, `stayed` a history: has the card that was scanned been in
  the field since? The tools run with `os.system` are steps of the script; they need the
  reader, act on the card that is in the field, and may fail at any point. The script is
  Python 2: with no object to close, the `finally` clause raises a NameError and the exit
  status is 1 either way.

External, modelled from how the code uses it: the irc library's sending and its
disconnect events, the server's answers, the network, people with cards and
switches, signals, the command-line tools of libfreefare. Every such definition is marked external in `PROJECT.json`.

`BrmdoorDaemon` leaves to `DoorScanner` what the scanner does without touching
shared state: the idle loop, cards leaving the field, database updates,
interrupts, kills. It keeps every step from a scan to the end of the visit.

The definitions introduced by "A slip" are never used by a specification: each is
a variant of the definition below it with one plausible mistake, and shows that
the property named with it in `PROJECT.json` notices that mistake.

## The runs

| Run | What it asks | Result |
|---|---|---|
| `door` | who is let in, who is turned away, in what state the lock is left; the thread implements `AccessPromise`; every hold ends, and every visit that does not stay at `sendIrcMessage` or in the read of an NDEF | holds |
| `door_stopped` | is the lock ever left disengaged by a stopped process? | yes |
| `daemon` | with silent losses found by a send in any thread: the threads implement `Announcements`, the connected flag, no live connection abandoned, no topic goes back to an older status | holds |
| `daemon_live` | with losses found by reading, and an upload that may fail: does a listed card open the door, does a handled loss reconnect? | holds |
| `topics` | on a connection that stays up, with a line or a text that a codec refuses: all channels joined or none, a requested status shown unless `onTopic` deletes it with an older one, somebody always at work on a request, web follows the switch and what its thread has taken note of | holds |
| `reader` | two processes on one reader, scripts or programs that call anything in any order, with deaths, failing tools and swapped cards: who has the reader, does "All done" mean a signed card, is the file removed; does the search through a container end, and where? | holds |
| `carddb` | two administrators' tools at once, with bad arguments and a kill: does the daemon only ever see whole imports and enrolments, does an addition take anything away, are the tables all there? | holds |
| `adduser` | is a card added for one method authorised for that one only? | no |
| `late_reconnect` | does the reconnect kick in when a send finds the loss? | no |
| `late_door` | does the door still open then? | no |
| `second_loss` | is every loss followed by a reconnect? | no, only the first |
| `request_race` | does the topic show what a removed request asked for? | no |

What the six failing runs show, all of it present in the code:

* **A late disconnect stops the door.** `run` sends announcements while it holds
  `threadLock` (`:361-363`). If that send finds the connection dead, the irc
  library calls `onDisconnect` on the spot, and its `setConnected` waits for the
  same lock (`:230`, `:284`). The IRC thread hangs for good with the lock held;
  there is no reconnect. The next card gets as far as `sendIrcMessage`, which
  waits for that lock (`:161`), before `unlock` (`:174-175`): the door stays shut
  until the process is killed. `getTopic` and `setTopic` (`:264`, `:269`) do the
  same. A lock that may be re-entered, or sending outside it, removes the hang.
* **Only the first loss is handled.** `onDisconnect` connects with a new reactor
  and puts only the topic handlers on it (`:297-298`). The next loss finds no
  handler; `connected` stays true and the thread polls a closed connection until
  some message raises.
* **A topic request can vanish.** `onTopic` deletes the channel's entry (`:332`),
  which by then may be a newer request than the one it carried out (`:329-331`). The
  run ends with the deletion: the topic and the request that was carried out say OPEN, the
  request that is deleted, `lastStatus` and the switch say CLOSED, and no request is left
  for the answer to the query that follows. `RequestServed` of run `topics` says that this is the
  only way of losing a status on a connection that stays up, without noise (`Overtaken`).
* **A terminated daemon may leave the lock open.** Nothing runs on SIGTERM, and a
  new process only makes the pin an output again (`unlocker.py:43`).

* **Every addition is a Desfire addition.** `addNdefAuth` is called after the `if`,
  not in its last branch (`brmdoor_adduser.py:107`): a UID or HMAC user is put in
  the Desfire table too, and an import of the UID table does not take that back.

With two or more channels there is another: a reset inside `onConnect`'s loop
lets `onDisconnect` reconnect, after which the loop's next `join` raises on the
old connection and `run` connects a second time, abandoning a live connection.
`NoLiveConnectionAbandoned` and `LiveConnectionFlagged` are therefore checked with
one channel, as in the sample configuration.

### Bounds

* `door`: two cards cover the methods between them (`MCDoor`): one a Yubikey that
  also carries another card's signature, one a Desfire that moves from the UID
  table to the Desfire table. Two database contents, both directions. Two visits,
  so that one can leave something to the next; two interrupts, so that the second
  can strike during the clean-up; one kill, and restarts without bound.
* `daemon`: two visits (two messages can be queued), one loss, one line or
  text that a codec refuses, one change of the switch after the start, so that an older and a newer
  request exist on the two sides of a reconnect. A second loss would meet the states
  that `daemon_live` has with two. `OpenText` and `ClosedText` are symmetric: no property
  of the run tells them apart, and none of them is a liveness property.
* `daemon_live`: two losses, one with the handler and one without; one failing upload.
* `topics`: two channels, one change of the switch after the start, so that a
  channel can have an old and a new request; topics initially set or not; one
  line or text that a codec refuses. No failing upload: the two properties about the web only
  speak of runs without one, and nothing else reads `published`. No cards: the scanner only
  adds messages, which `daemon` has, and its absence leaves room for the second channel.
  `RequestAwaited` and `JoinsAwaited` are checked here without losses and with two channels; with
  losses, reconnects and late detection they are proved.
* `reader`: two processes with six pairs of programs, two cards, so that one can be
  swapped for the other and two runs can write to the same one. The 27 containers of
  `MCReader` have up to two TLVs before the one that is searched for or the end: too short
  (14 octets), just long enough, one length of 0, an octet 4 inside a TLV, and lengths
  that bring the offset to the last value that fits, and past it, where the search
  finds something else, and where it never ends.
* `carddb`: two tools, three command lines out of six: creation, one addition per
  method, an import, and a synchronisation whose second list has a bad line; starting
  without a file or with a database; one kill. Three command lines are two that race
  and one that comes after.
* `carddb` and `adduser` do not check for deadlock: with all command lines given
  there is nothing left to do.
* `daemon` and the two late runs do not check for deadlock: the threads really
  stop. The others check it.

### Fairness

Each thread is weakly fair: the operating system runs it. That is all that is assumed of
the threads, and it leaves out two things. Nothing is assumed of `threadLock`: a section
under it is a single step, so the lock is free between steps unless a thread has blocked
with it, and then it is never given back. In run `door`, where `IrcHolds` and `IrcReleases`
stand for the other threads, `IrcReleases` need not happen. And nothing is assumed of the
read of an NDEF (`ndefRead`), which may never return (`nfc_smartcard.cpp:235-238`, and the
infinite time-outs of `README.md:50-58`). So `VisitEnds` names both places as the ones where a
visit may stay, and says that there is no third.

One step is strongly fair: `PollReset` competes with the time-out of `process_once`, and the
end of a connection that has arrived is assumed to be read in the end. The server is
assumed to register a connected bot (`Welcome`). Nothing is assumed of `ConnectSucceeds`:
the liveness properties ask for attempts. No fairness is assumed of cards, people, database
updates, interrupts, losses or noise.

In `reader` only the search is fair: it is computation, with no wait in it. `SearchEnds`
is about containers whose offsets fit eight bits; for the others it is false of the code,
and a card with one holds its reader for ever.

## The proofs

`DoorScannerProofs` proves, for every set of cards and keys, every assignment of
keys and signatures, every set of database contents and every value of the
bounds, from `DoorAssumption` alone:

* `TypeCorrect`, `StandingCardTheorem`, `CleanExitTheorem`,
  `LockedBetweenVisitsTheorem`: the invariants of run `door`;
* `OnlyEntitledOpensTheorem`: its action property;
* `DoorKeepsPromise`: `DoorSpec` implements `AccessPromise`.

None of these is inductive alone. The thread acts on what it read steps ago, so the
invariant `IInv` says what is still known of it: a key that was read is the key of
the visitor in some content seen since the scan (`KnowledgeInv`), the histories
cover the present (`SeenInv`), locals are set exactly where control says so
(`ControlInv`), and the way out of the process only passes through states in which
the pin is accounted for (`ExitInv`). `TypeStep`, `ControlStep`, `SeenStep`,
`KnowledgeStep` and `ExitStep` show that each part is kept by every action, one
step per action; `Invariance` puts them together. For the refinement,
`PromiseStep` maps every action to an action of `AccessPromise` or to a stutter:
scans present a visitor, decisions to refuse need `KnowledgeInv` to be a `Deny`,
`Unlock` needs it to be an `Open`, and exceptions, interrupts and kills end the
visit without touching the door.

`CardDbProofs` does the same for the tools, for any number of them and all command
lines, from `CardDbAssumption`: `CardDbTypeCorrect`, `ImportOverwritesTheorem`,
`AddNeverRevokesTheorem`, `SchemaWholeTheorem`, and `CardDbKeepsStore`, that `CardDb`
implements `CardStore`. Here the invariant says what the writer's view is at each
point: the committed content, with the part of the list it has taken in place of its
table (`ImportInv`), or with the rows of its card (`AddInv`); the lock makes the writer
the only one (`LockInv`); and a command line never changes under way (`JobInv`).
`OnlyCommitWrites` then reduces every question about what the daemon reads to one
action. `SchemaInv` adds that at most one tool is part of the way through the
tables, because the first table decides the race.

`ReaderToolsProofs` proves the safety properties of run `reader` for any number of
processes with any mix of programs, all cards and all containers, from
`DeviceAssumption`, `ContainerAssumption` and `ToolsAssumption`. `ReaderInv` says where the
scripts have the reader and where they do not (`ScriptInv`), that a pointer is an open
reader that nobody else has (`DeviceInv`), what the temporary file holds at each place
(`FileInv`), that a card that has stayed is in the field (`StayedInv`), and that the search
is on the walk (`SearchInv`): its offset is one of `Starts`, as `SkipFollowsWalk` shows for one
TLV, where the remainder is the number itself. A search that is over on the walk is at
its end, since every earlier place is one it goes on from: `SearchExactTheorem`.

`BrmdoorDaemonProofs` proves safety properties of runs `daemon` and `topics` for every
list of channels and every value of the bounds, with `DoorScannerProofs` for what the
scanner keeps. `DaemonInv` has the types with what they leave open (`TypesInv`), and

* `OrderInv`: the announcements said, those queued and the visit under way form one
  increasing sequence of visits. It is the sequence that is inductive:
  `AnnouncedInOrder` speaks of its first part;
* `ForwardInv`: the numbers of statuses never increase along the way from the switch to
  `lastStatus`, the map, `onTopic`'s local and the topic. `TopicsForwardTheorem` follows,
  because `TopicChanges` shows that only `setTopic` changes a topic;
* `PublishedInv`, for `PublishedTheorem`.

`LinkInv`, for `LiveConnectionFlagged` and `NoLiveConnectionAbandoned`, needs the hypothesis
`NoStaleJoins`: one channel, or losses found by reading only. Without it the two are false,
as described above. `StaleInv` is what the hypothesis gives: when `onDisconnect` has
replaced a connection under `onConnect`, no join is left to do on the old one.

`DaemonAwaitProofs` proves who waits for what, without that hypothesis: for every list of
channels, any number of losses found in any way, and lines and texts that codecs refuse. `AwaitInv` has

* `LockInv`: `threadLock` is taken between steps exactly when a thread has blocked on it.
  `LockKeptOnlyWhenBlocked` and `LockNeverKept` follow;
* `FlowInv`: which connection the handlers and the locals belong to, at each place of the
  thread, also inside `onDisconnect` called from `onConnect` (`OnStale`);
* `WelcomeInv`: on a connection made by `run` no join is made before the welcome is handled,
  and then all of them are, one after the other, with nothing in between that ends
  `process_once`. Until then the welcome has still to be sent, or to be read; or a line ahead
  of it could not be decoded, or `onTopic` could not encode a text, and it is lost with the
  lines read with it, for good. `JoinsAwaitedTheorem` follows: the bot is never left in a part
  of its channels. That it may be left in none is what the code does;
* `RequestInv`: for every channel with a request, a topic and the bot in it, its query is to
  come, or a topic line is unread on this connection, or `onTopic` holds the channel. Lost
  connections take the bot out of the channel and a reply to a later JOIN brings the line
  back; `onTopic` may serve an older request than the one in the map, and deletes it.
  `RequestAwaitedTheorem` follows. It needs `noise = 0`: an undecodable line does take
  answers along (`:366`), so does a text that cannot be encoded (`:368`), and the request is
  then left (`ReadableInv`).

`LossKeptTheorem` is about losses themselves; its invariant `RejoinInv` says that the joins
of `onDisconnect` find no handler of losses on the new reactor.

`DaemonPromiseProofs` puts the components together. In run `door` the rest of the daemon is
represented by `IrcHolds` and `IrcReleases`; here the scanner runs beside the real threads.
`ScannerView` shows that each step of the daemon is, for the scanner, one of
`DoorScanner` or nothing at all, so `IInv` is an invariant of the daemon too
(`DaemonScannerInvariance`), and `DaemonKeepsPromise`, `DaemonOnlyEntitledOpens` and
`DaemonStandingCard` hold of the whole. (`DoorSpec` itself is not implemented by
`DaemonSpec`: an announcement is taken from the queue in one step, under the lock.)
`DaemonKeepsAnnouncing` is the other refinement, step by step: a scan is a `Begin`,
a decision a `Settle`, the `put` a `Tell`, a message taken from the queue a `Hear` or a
`Lose`, the end of the visit a `Finish`. `Announcements` has the messages on their way as a
set; that they are heard in order is its guard, and `OrderInv` is what the queue gives for it.

### What is only model-checked

The liveness properties, since TLAPS does not reach fairness and ENABLED. For most of
them the part that is safety is proved, and what remains is that the steps named there
are taken:

| Property | Proved of it |
|---|---|
| `VisitEnds` | `VisitAdvancesTheorem`: each step of the thread leads to a later of ten stages or ends the visit, and nothing else sets it back; that a stage is completed, where it is, is left to TLC |
| `DoorRelocks` | `LockedBetweenVisitsTheorem` and `CleanExitTheorem`: without a kill or a second interrupt the pin is high only in the hold and on the way out, and not after it |
| `CardOpensDoor` | `ListedCardOnItsWay`: a listed card's visit only looks it up, announces and lets in; it waits for nothing but `threadLock`, which `LockNeverKept` shows to be free |
| `RequestServed` | `RequestAwaitedTheorem`: somebody is at work on the request; `TopicsForwardTheorem`: what is shown later is not older |
| `WelcomeJoinsAll` | `JoinsAwaitedTheorem`: without noise, the bot is in each channel or has it still to join, or the welcome is on its way |
| `WebFollowsSwitch` | `PublishedTheorem` |
| `SearchEnds` | `SearchAdvancesTheorem`: a search goes forwards by two octets at least and stays inside the container |
| `HandledLossReconnects` | `LossKeptTheorem`: a loss that has a handler is not passed over by any thread: it stays until the handler is called or another connection is made |

What the six failing runs show is a counterexample each. For one of them there is more:
`BlockedForGoodTheorem` says that the hang of `late_door` and `late_reconnect` is not a matter
of the instance or of scheduling: no step of any thread ends it.

What the recursive reading of a container gives for every container is an assumption
checked by TLC for those of `MCReader` (`ContainerAssumption`): `Starts` is required to be the
walk, and a proof that such a walk exists for all octets would be an induction over data.

## Not modelled

* Configuration: `BrmdoorConfig` parses a file once; its switches are constants.
* `sign_uid.py` and `generate_ed25519_keypair.py`: pure functions of their arguments,
  cryptography and output. HMAC and ed25519 are modelled by what they establish.
* `ResponseAPDU` and the octets of APDUs; the SSH session, key loading and JSON template
  of the uploader; nicks; logging. `onJoin` and `onNoTopic` only log.
* The forced-unlock script, which drives the same pin by hand: a hazard on the list.
* Build files, bindings, start script, shell scripts that send fixed APDUs.

A comment the code departs from and that has no run: `nfc_smartcard.h:145` says `unload` is
to "close device", but it only exits the context, so that a program that relies on it
keeps the reader until it ends. The programs here all call `close` first, which is
`ReleasedForTools`.

## What is left

The plan of modules is done. What could still be said, in order:

1. Proofs: consequences of `CardStore` for the scanner, so that `DbVersions` of
   `DoorScanner` is justified by a theorem; what the second loss of run `second_loss` does in
   every instance, as `BlockedForGoodTheorem` says it of the hang.
2. A specification of the bot's presence after a reconnect by `onDisconnect`. Joins are
   sent before the server has registered it, and the welcome has no handler: whether it
   is in its channels depends on the server's timing, and what should hold is open.
3. The text after the prefix of a topic, with people who change it at the same time.
4. A code that sends outside `threadLock` and registers all handlers after a reconnect,
   under which the late runs would become passing ones.
