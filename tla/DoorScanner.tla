----------------------------- MODULE DoorScanner -----------------------------
(***************************************************************************)
(* The main thread of brmdoor_nfc_daemon.py: NFCScanner.run, which scans a *)
(* card, asks the three authenticators of brmdoor_authenticator.py about   *)
(* its UID, tells the IRC thread and drives the lock's pin (unlocker.py,   *)
(* class UnlockerWiringPi); Ctrl-C, kill and restart of the process; and   *)
(* the world around it: cards in the reader's field and the administrators *)
(* who change the database while the daemon runs.                          *)
(*                                                                         *)
(* A step ends where another thread or the outside world can act: at each  *)
(* sqlite query, each radio exchange, each use of threadLock, the queue    *)
(* and the pin, and each wait.                                             *)
(***************************************************************************)
EXTENDS IrcShared, Entitlement, Naturals

CONSTANTS DbVersions,     \* the contents the database file may have
          DbBusy,         \* can a query raise (sqlite3.OperationalError)?
          MaxVisits,      \* bound: scans that find a card
          MaxInterrupts,  \* bound: KeyboardInterrupts
          MaxKills        \* bound: kills of the process

ASSUME DoorAssumption ==
    /\ UseIRC \in BOOLEAN /\ DbBusy \in BOOLEAN
    /\ NoCard \notin Card
    /\ NoKey \notin Key
    /\ KeyOn \in [Card -> Key \cup {NoKey}]
    /\ SignedUid \in [Card -> Card \cup {NoCard}]
    /\ DbVersions \subseteq Database
    /\ MaxVisits \in Nat /\ MaxInterrupts \in Nat /\ MaxKills \in Nat

VARIABLES spc,         \* where the thread is
          uid,         \* local uid_hex of actOnUid, NoCard outside a visit
          key,         \* local secretKey of checkHMACforUID
          verdict,     \* "none", or which message actOnUid sends
          pin,         \* the GPIO pin of the lock: 1 lets people in
          nfc,         \* NFCDevice: "none", "open", "closed" or "unloaded"
          selected,    \* the card the reader has selected
          field,       \* the card in the reader's field
          db,          \* the committed content of the sqlite file
          dbSeen,      \* history: contents in force since the scan
          shown,       \* history: cards in the field since the scan
          visits, interrupts, kills     \* counters of the bounds

threadVars == <<spc, uid, key, verdict, pin, nfc, selected>>
worldVars  == <<field, db>>
seenVars   == <<dbSeen, shown>>
boundVars  == <<visits, interrupts, kills>>
scannerVars == <<threadVars, worldVars, seenVars, boundVars>>
doorVars   == <<scannerVars, sharedVars>>

InVisit  == uid # NoCard
Querying == {"uidQuery", "hmacQuery", "desfireQuery"}
Deciding == Querying \cup {"hmacSelect", "hmacChallenge", "ndefRead"}
TryBody  == Deciding \cup {"scan", "pause", "tell", "put", "unlock", "held",
                           "denyWait"}
Closing  == {"kiClose", "kiUnload", "kiLock"}
Stopped  == {"exited", "crashed"}

Message(n, v) == [visit |-> n, text |-> v]

ScannerInit ==
    /\ spc = "start"
    /\ uid = NoCard /\ key = NoKey /\ verdict = "none"
    /\ pin = 0
    /\ nfc = "none" /\ selected = NoCard
    /\ field = NoCard
    /\ db \in DbVersions
    /\ dbSeen = {} /\ shown = {}
    /\ visits = 0 /\ interrupts = 0 /\ kills = 0

(***************************************************************************)
(* Shapes the actions share.                                               *)
(***************************************************************************)
(* Control moves on, nothing else of the thread changes. *)
GoTo(there) ==
    /\ spc' = there
    /\ UNCHANGED <<uid, key, verdict, pin, nfc, selected, seenVars>>

(* The locals of actOnUid and its callees go away with their frames. *)
EndVisit(there) ==
    /\ spc' = there
    /\ uid' = NoCard /\ key' = NoKey /\ verdict' = "none"
    /\ dbSeen' = {} /\ shown' = {}

(* The authenticators have decided: sendIrcMessage is called with v. *)
Decide(v) ==
    /\ spc' = IF UseIRC THEN "tell" ELSE IF v = "granted" THEN "unlock" ELSE "denyWait"
    /\ verdict' = v
    /\ UNCHANGED <<uid, key, pin, nfc, selected, seenVars>>

(* A slip: the two outcomes are not told apart. *)
AlwaysDeny == "denyWait"

AfterTelling == IF verdict = "granted" THEN "unlock" ELSE "denyWait"

Internal == UNCHANGED <<worldVars, boundVars, sharedVars>>

(***************************************************************************)
(* NFCScanner.__init__ and run: constructing the devices, the scan loop.   *)
(***************************************************************************)
Start ==
    /\ spc = "start"
    /\ spc' = "scan" /\ nfc' = "open"
    /\ UNCHANGED <<uid, key, verdict, pin, selected, seenVars>>
    /\ Internal

(* No reader: the NFCDevice constructor throws and run is left. *)
StartFails ==
    /\ spc = "start"
    /\ GoTo("crashed")
    /\ Internal

ScanUID ==
    /\ spc = "scan"
    /\ field # NoCard
    /\ visits < MaxVisits
    /\ visits' = visits + 1
    /\ spc' = "uidQuery"
    /\ uid' = field /\ selected' = field
    /\ dbSeen' = {db} /\ shown' = {field}
    /\ UNCHANGED <<key, verdict, pin, nfc, worldVars, interrupts, kills, sharedVars>>

(* A target without a UID: the code waits inside the try block. *)
ScanEmpty ==
    /\ spc = "scan"
    /\ GoTo("pause")
    /\ Internal

Pause ==
    /\ spc = "pause"
    /\ GoTo("scan")
    /\ Internal

(* NFCError: no card in the field, or the radio failed.  The wait is in the *)
(* except clause, so the clause for KeyboardInterrupt does not cover it.    *)
ScanFails ==
    /\ spc = "scan"
    /\ selected' = NoCard
    /\ spc' = "backoff"
    /\ UNCHANGED <<uid, key, verdict, pin, nfc, seenVars>>
    /\ Internal

Backoff ==
    /\ spc = "backoff"
    /\ GoTo("scan")
    /\ Internal

(***************************************************************************)
(* actOnUid: the three authenticators, in order.                           *)
(***************************************************************************)
(* A slip: a record that is found is not acted upon. *)
RecordIgnored ==
    /\ spc = "uidQuery"
    /\ GoTo("hmacQuery")
    /\ Internal

FetchUidRecord ==
    /\ spc = "uidQuery"
    /\ IF ByUid(db, uid) THEN Decide("granted") ELSE GoTo("hmacQuery")
    /\ Internal

(* A slip: the row of the query is kept, not the key in it. *)
RowForKey ==
    /\ spc = "hmacQuery"
    /\ key' = <<uid, db.hmac[uid]>>
    /\ spc' = IF db.hmac[uid] = NoKey THEN "desfireQuery" ELSE "hmacSelect"
    /\ UNCHANGED <<uid, verdict, pin, nfc, selected, seenVars>>
    /\ Internal

(* A key that is found stays in a local while the radio is used. *)
HmacQuery ==
    /\ spc = "hmacQuery"
    /\ key' = db.hmac[uid]
    /\ spc' = IF db.hmac[uid] = NoKey THEN "desfireQuery" ELSE "hmacSelect"
    /\ UNCHANGED <<uid, verdict, pin, nfc, selected, seenVars>>
    /\ Internal

HmacSelect ==
    /\ spc = "hmacSelect"
    /\ selected = uid
    /\ GoTo("hmacChallenge")
    /\ Internal

(* A slip: any response counts. *)
AnyResponse ==
    /\ spc = "hmacChallenge"
    /\ selected = uid
    /\ Decide("granted")
    /\ Internal

HmacChallenge ==
    /\ spc = "hmacChallenge"
    /\ selected = uid
    /\ KeyOn[uid] = key
    /\ Decide("granted")
    /\ Internal

(* A slip: a failed exchange is tried again, without a limit. *)
HmacRetried ==
    /\ spc \in {"hmacSelect", "hmacChallenge"}
    /\ GoTo("hmacSelect")
    /\ Internal

(* NFCError, a bad status word or a wrong HMAC: checkHMACforUID returns None. *)
HmacFails ==
    /\ spc \in {"hmacSelect", "hmacChallenge"}
    /\ GoTo("desfireQuery")
    /\ Internal

DesfireQuery ==
    /\ spc = "desfireQuery"
    /\ IF uid \in db.desfire THEN GoTo("ndefRead") ELSE Decide("denied")
    /\ Internal

(* readDesfireNDEF lists the targets anew and takes the first: the UID that *)
(* the card in the field now holds a signature of, if there is one.  It may *)
(* never return: the offset into the container wraps, and an older          *)
(* libfreefare has no timeouts.                                            *)
NdefSignature == IF field = NoCard THEN NoCard ELSE SignedUid[field]

NdefVerified ==
    /\ spc = "ndefRead"
    /\ NdefSignature = uid
    /\ Decide("granted")
    /\ Internal

NdefRefused ==
    /\ spc = "ndefRead"
    /\ Decide("denied")
    /\ Internal

(* An exception no authenticator catches (the database is locked; the JSON *)
(* holds a signature that is not a string) is logged by run, which scans   *)
(* again at once.                                                          *)
UnexpectedException ==
    /\ (spc \in Querying /\ DbBusy) \/ spc = "ndefRead"
    /\ EndVisit("scan")
    /\ UNCHANGED <<pin, nfc, selected>>
    /\ Internal

(***************************************************************************)
(* sendIrcMessage: getConnected takes threadLock, put comes after its      *)
(* release.                                                                *)
(***************************************************************************)
SendIrcMessage ==
    /\ spc = "tell"
    /\ threadLock = "free"
    /\ GoTo(IF connected THEN "put" ELSE AfterTelling)
    /\ Internal

(* A slip: the newest message is served first. *)
PutInFront ==
    /\ spc = "put"
    /\ msgQueue' = <<Message(visits, verdict)>> \o msgQueue
    /\ GoTo(AfterTelling)
    /\ UNCHANGED <<worldVars, boundVars, threadLock, connected>>

PutMessage ==
    /\ spc = "put"
    /\ msgQueue' = Append(msgQueue, Message(visits, verdict))
    /\ GoTo(AfterTelling)
    /\ UNCHANGED <<worldVars, boundVars, threadLock, connected>>

(***************************************************************************)
(* The lock, and the wait after an unknown card.                           *)
(***************************************************************************)
Unlock ==
    /\ spc = "unlock"
    /\ pin' = 1
    /\ spc' = "held"
    /\ UNCHANGED <<uid, key, verdict, nfc, selected, seenVars>>
    /\ Internal

(* A slip: the pin is left high after the hold. *)
RelockForgotten ==
    /\ spc = "held"
    /\ EndVisit("scan")
    /\ UNCHANGED <<pin, nfc, selected>>
    /\ Internal

Relock ==
    /\ spc = "held"
    /\ pin' = 0
    /\ EndVisit("scan")
    /\ UNCHANGED <<nfc, selected>>
    /\ Internal

DenyWait ==
    /\ spc = "denyWait"
    /\ EndVisit("scan")
    /\ UNCHANGED <<pin, nfc, selected>>
    /\ Internal

(***************************************************************************)
(* The end of the process.  Python delivers a KeyboardInterrupt to this    *)
(* thread, except while it waits for threadLock.                           *)
(***************************************************************************)
Interruptible == interrupts < MaxInterrupts /\ (spc = "tell" => threadLock = "free")

KeyboardInterrupt ==
    /\ spc \in TryBody
    /\ Interruptible
    /\ interrupts' = interrupts + 1
    /\ EndVisit("kiClose")
    /\ UNCHANGED <<pin, nfc, selected, worldVars, visits, kills, sharedVars>>

(* Outside the try block, or inside one of its except clauses. *)
UncaughtInterrupt ==
    /\ spc \in Closing \cup {"start", "backoff"}
    /\ Interruptible
    /\ interrupts' = interrupts + 1
    /\ GoTo("crashed")
    /\ UNCHANGED <<worldVars, visits, kills, sharedVars>>

CloseReader ==
    /\ spc = "kiClose"
    /\ nfc' = "closed" /\ selected' = NoCard
    /\ spc' = "kiUnload"
    /\ UNCHANGED <<uid, key, verdict, pin, seenVars>>
    /\ Internal

UnloadReader ==
    /\ spc = "kiUnload"
    /\ nfc' = "unloaded"
    /\ spc' = "kiLock"
    /\ UNCHANGED <<uid, key, verdict, pin, selected, seenVars>>
    /\ Internal

(* A slip: unlocker.lock is not called on the way out. *)
ExitWithoutLock ==
    /\ spc = "kiLock"
    /\ spc' = "exited"
    /\ UNCHANGED <<uid, key, verdict, pin, nfc, selected, seenVars>>
    /\ Internal

LockAndExit ==
    /\ spc = "kiLock"
    /\ pin' = 0
    /\ spc' = "exited"
    /\ UNCHANGED <<uid, key, verdict, nfc, selected, seenVars>>
    /\ Internal

(* SIGTERM or SIGKILL: no Python code runs, the pin keeps its level. *)
Kill ==
    /\ spc \notin Stopped
    /\ kills < MaxKills
    /\ kills' = kills + 1
    /\ EndVisit("crashed")
    /\ UNCHANGED <<pin, nfc, selected, worldVars, visits, interrupts, sharedVars>>

(* A new process: fresh objects, but the pin is only made an output again. *)
Restart ==
    /\ spc \in Stopped
    /\ spc' = "start"
    /\ nfc' = "none" /\ selected' = NoCard
    /\ threadLock' = "free" /\ connected' = FALSE /\ msgQueue' = <<>>
    /\ UNCHANGED <<uid, key, verdict, pin, worldVars, seenVars, boundVars>>

(***************************************************************************)
(* The world.                                                              *)
(***************************************************************************)
PlaceCard(c) ==
    /\ field = NoCard
    /\ field' = c
    /\ shown' = IF InVisit THEN shown \cup {c} ELSE shown
    /\ UNCHANGED <<threadVars, db, dbSeen, boundVars, sharedVars>>

RemoveCard ==
    /\ field # NoCard
    /\ field' = NoCard /\ selected' = NoCard
    /\ UNCHANGED <<spc, uid, key, verdict, pin, nfc, db, seenVars, boundVars, sharedVars>>

CommitDb(d) ==
    /\ db' = d
    /\ dbSeen' = IF InVisit THEN dbSeen \cup {d} ELSE dbSeen
    /\ UNCHANGED <<threadVars, field, shown, boundVars, sharedVars>>

(* Only when this thread is checked alone: what the IRC thread may do to   *)
(* the shared state.                                                       *)
IrcHolds ==
    /\ UseIRC /\ threadLock = "free"
    /\ threadLock' = "irc"
    /\ UNCHANGED <<scannerVars, connected, msgQueue>>

IrcReleases ==
    /\ threadLock = "irc"
    /\ threadLock' = "free"
    /\ connected' \in BOOLEAN
    /\ msgQueue' \in {msgQueue, <<>>}
    /\ UNCHANGED scannerVars

(***************************************************************************)
(* The thread, the process, the specification of both.                     *)
(***************************************************************************)
Deliberate ==
    \/ FetchUidRecord \/ HmacQuery \/ HmacSelect \/ HmacChallenge \/ HmacFails
    \/ DesfireQuery \/ NdefVerified \/ NdefRefused

ScannerStep ==
    \/ Start \/ ScanUID \/ ScanEmpty \/ Pause \/ ScanFails \/ Backoff
    \/ Deliberate \/ UnexpectedException
    \/ SendIrcMessage \/ PutMessage \/ Unlock \/ Relock \/ DenyWait

Shutdown == CloseReader \/ UnloadReader \/ LockAndExit

Process == StartFails \/ KeyboardInterrupt \/ UncaughtInterrupt \/ Kill \/ Restart

World ==
    \/ \E c \in Card : PlaceCard(c)
    \/ RemoveCard
    \/ \E d \in DbVersions : CommitDb(d)

DoorInit == ScannerInit /\ SharedInit

DoorNext == ScannerStep \/ Shutdown \/ Process \/ World \/ IrcHolds \/ IrcReleases

DoorSpec == DoorInit /\ [][DoorNext]_doorVars

(* The thread runs, but for the read of an NDEF, which may never return.    *)
(* Nothing is assumed of threadLock: who took it may keep it.               *)
DoorFairness == WF_doorVars((spc # "ndefRead" /\ ScannerStep) \/ Shutdown)

FairDoorSpec == DoorSpec /\ DoorFairness

(***************************************************************************)
(* Properties.                                                             *)
(***************************************************************************)
(* Every variable has a value of its kind. *)
ScannerTypeOK ==
    /\ spc \in TryBody \cup Closing \cup Stopped \cup {"start", "backoff"}
    /\ uid \in Card \cup {NoCard}
    /\ key \in Key \cup {NoKey}
    /\ verdict \in {"none", "granted", "denied"}
    /\ pin \in {0, 1}
    /\ nfc \in {"none", "open", "closed", "unloaded"}
    /\ selected \in Card \cup {NoCard}
    /\ field \in Card \cup {NoCard}
    /\ db \in DbVersions
    /\ dbSeen \subseteq DbVersions
    /\ shown \subseteq Card
    /\ visits \in Nat /\ interrupts \in Nat /\ kills \in Nat

(* NFCScanner.actOnUid: the pin goes high only in a visit whose visitor was *)
(* entitled by one content of the database that was in force during that    *)
(* visit: three unsynchronised queries, a card that may be swapped between   *)
(* the scan and the NDEF read, and restarts do not add up to more.          *)
OnlyEntitledOpens ==
    [][pin = 0 /\ pin' = 1 => \E d \in dbSeen : Entitles(d, uid, shown)]_doorVars

(* NFCScanner.actOnUid: a card whose UID every database in force during the *)
(* visit lists is never turned away as unknown, whatever else is committed  *)
(* between the three queries.                                               *)
StandingCardNotDenied ==
    spc = "denyWait" => \E d \in dbSeen : ~ByUid(d, uid)

(* The KeyboardInterrupt clause of run: a process that has exited through   *)
(* it left the lock engaged and the reader unloaded, wherever in a visit    *)
(* the interrupt came.                                                      *)
CleanExit == spc = "exited" => pin = 0 /\ nfc = "unloaded"

(* UnlockerWiringPi: a daemon that was never killed, and interrupted at     *)
(* most once, has the pin high only while it holds the door or is on its    *)
(* way out; exceptions inside a visit do not leave it high.                 *)
LockedBetweenVisits ==
    kills = 0 /\ interrupts < 2 /\ pin = 1 => spc \in Closing \cup {"held"}

(* UnlockerWiringPi.unlock: a door that is held open is locked again, unless *)
(* the process dies first; an interrupt during the hold does not prevent it. *)
DoorRelocks == spc = "held" ~> (pin = 0 \/ spc = "crashed")

(* NFCScanner.run: there are two places where the thread may stay with a    *)
(* scanned card for ever: the wait for threadLock in sendIrcMessage and the *)
(* read of an NDEF.  Every other visit ends, whatever the radio and the     *)
(* database do, and the next card can be scanned.                          *)
VisitEnds == InVisit ~> (~InVisit \/ [](spc = "tell") \/ [](spc = "ndefRead"))

(* The whole thread keeps the promise of AccessPromise. *)
Promise == INSTANCE AccessPromise WITH
    door <- IF pin = 1 THEN "open" ELSE "locked",
    phase <- IF uid = NoCard THEN "idle"
             ELSE IF spc = "held" THEN "admitted"
             ELSE IF spc = "denyWait" THEN "denied"
             ELSE "waiting",
    visitor <- uid,
    seen <- dbSeen

KeepsPromise == Promise!PromiseSpec

(* unlocker.py, Unlocker.lock: "Meant to be used when program is shut down  *)
(* so that lock is not left disengaged."                                    *)
NotLeftDisengaged == spc \in Stopped => pin = 0
==============================================================================
