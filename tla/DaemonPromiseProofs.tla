-------------------------- MODULE DaemonPromiseProofs --------------------------
(***************************************************************************)
(* Proofs about BrmdoorDaemon and the abstract specifications: that the    *)
(* scanner still keeps the promise of AccessPromise when it shares         *)
(* threadLock and the queue with the real threads instead of the stand-ins *)
(* of DoorScanner, and that the threads together keep the promise of       *)
(* Announcements.                                                          *)
(***************************************************************************)
EXTENDS DaemonAwaitProofs

(***************************************************************************)
(* The scanner among the other threads.                                    *)
(***************************************************************************)
(* For the scanner, a step of the daemon is its own step as DoorScanner has *)
(* it, or changes nothing it keeps.                                         *)
LEMMA ScannerView ==
  ASSUME [DaemonNext]_daemonVars
  PROVE  [DoorNext]_doorVars \/ UNCHANGED scannerVars
BY ScannerFrame DEF DaemonNext, Irc, Switch, daemonVars

(* What the invariant of the scanner speaks of is the scanner's.            *)
LEMMA ScannerAlone == IInv /\ UNCHANGED scannerVars => IInv'
BY DEF IInv, ScannerTypeOK, ControlInv, SeenInv, KnowledgeInv, ExitInv, CleanExit,
   LockedBetweenVisits, InVisit, Entitles, ByUid, ByHmac, ByNdef,
   scannerVars, threadVars, worldVars, seenVars, boundVars

(* The invariant of the scanner is one of the daemon. *)
THEOREM DaemonScannerInvariance == DaemonSpec => []IInv
<1>1. DaemonInit => IInv
  BY InitInv DEF DaemonInit, DoorInit
<1>2. IInv /\ [DaemonNext]_daemonVars => IInv'
  BY ScannerView, StepInv, ScannerAlone
<1>. QED
  BY <1>1, <1>2, PTL DEF DaemonSpec

(* The daemon with its three threads implements AccessPromise. *)
THEOREM DaemonKeepsPromise == DaemonSpec => KeepsPromise
<1>1. DaemonInit => Promise!PromiseInit
  BY PromiseInitial DEF DaemonInit, DoorInit
<1>2. IInv /\ [DaemonNext]_daemonVars => [Promise!PromiseNext]_(Promise!promiseVars)
  <2> SUFFICES ASSUME IInv, [DaemonNext]_daemonVars
               PROVE  [Promise!PromiseNext]_(Promise!promiseVars)
    OBVIOUS
  <2>1. CASE [DoorNext]_doorVars
    BY <2>1, PromiseStep
  <2>2. CASE UNCHANGED scannerVars
    BY <2>2 DEF Promise!promiseVars, scannerVars, threadVars, worldVars, seenVars
  <2>. QED
    BY <2>1, <2>2, ScannerView
<1>. QED
  BY <1>1, <1>2, DaemonScannerInvariance, PTL DEF DaemonSpec, KeepsPromise, Promise!PromiseSpec

(* NFCScanner.actOnUid: whatever the other threads do, the pin goes high only *)
(* for a visitor entitled by a content of the database seen during the visit. *)
THEOREM DaemonOnlyEntitledOpens == DaemonSpec => OnlyEntitledOpens
<1>1. IInv /\ [DaemonNext]_daemonVars
        => [pin = 0 /\ pin' = 1 => \E d \in dbSeen : Entitles(d, uid, shown)]_doorVars
  <2> SUFFICES ASSUME IInv, [DaemonNext]_daemonVars, pin = 0, pin' = 1
               PROVE  \E d \in dbSeen : Entitles(d, uid, shown)
    OBVIOUS
  <2>1. Scanner
    BY DEF DaemonNext, Irc, Switch, daemonVars, scannerVars, threadVars
  <2>2. Unlock
    BY <2>1 DEF Scanner, Visit, Arrive, Deliberate, Start, ScanUID, FetchUidRecord, HmacQuery,
       HmacSelect, HmacChallenge, HmacFails, DesfireQuery, NdefVerified, NdefRefused,
       SendIrcMessage, PutMessage, Relock, DenyWait, PlaceCard, GoTo, Decide, threadVars
  <2>3. verdict = "granted"
    BY <2>2 DEF Unlock, IInv, ControlInv
  <2>. QED
    BY <2>3 DEF IInv, KnowledgeInv
<1>. QED
  BY <1>1, DaemonScannerInvariance, PTL DEF DaemonSpec, OnlyEntitledOpens

(* NFCScanner.actOnUid: nor is a card turned away that every database in      *)
(* force during its visit lists by UID.                                       *)
THEOREM DaemonStandingCard == DaemonSpec => []StandingCardNotDenied
<1>1. IInv => StandingCardNotDenied
  BY DEF IInv, ControlInv, KnowledgeInv, StandingCardNotDenied
<1>. QED
  BY <1>1, DaemonScannerInvariance, PTL

(***************************************************************************)
(* The announcements.                                                      *)
(***************************************************************************)
(* The threads start where the announcements start. *)
LEMMA ToldInitial == DaemonInit => Told!AnnounceInit
BY RangeEmpty DEF DaemonInit, ScannerInit, SharedInit, IrcInit, InVisit, Told!AnnounceInit

(* What has no part in the announcements leaves them as they are. *)
LEMMA ToldElsewhere ==
  UNCHANGED <<visits, uid, verdict, msgQueue, said>> => UNCHANGED Told!announceVars
BY DEF Told!announceVars, InVisit

(* A scan begins a visit, a decision settles it, its end finishes it, and a *)
(* message put tells of it: it is the first and says what was decided.      *)
LEMMA ScannerTold ==
  ASSUME ScannerTypeOK, ControlInv, OrderInv, Scanner
  PROVE  [Told!AnnounceNext]_(Told!announceVars)
<1>1. said' = said
  BY ScannerFrame DEF ircVars, ircServer
<1> USE DoorAssumption DEF ScannerTypeOK, ControlInv, InVisit, Deciding, Querying, Acting, Internal
<1>2. CASE ScanUID
  <2>1. /\ ~InVisit /\ visits' = visits + 1 /\ uid' # NoCard /\ verdict' = "none"
        /\ msgQueue' = msgQueue
    BY <1>2 DEF ScanUID, sharedVars
  <2>2. Told!Begin
    BY <1>1, <2>1 DEF Told!Begin
  <2>. QED
    BY <2>2 DEF Told!AnnounceNext
<1>3. ASSUME NEW v \in {"granted", "denied"}, Decide(v), spc \in Deciding, Internal
      PROVE  Told!AnnounceNext
  <2>1. /\ InVisit /\ verdict = "none" /\ verdict' = v
        /\ UNCHANGED <<uid, visits, msgQueue>>
    BY <1>3 DEF Decide, boundVars, sharedVars
  <2>2. Told!Settle(v)
    BY <1>1, <2>1 DEF Told!Settle
  <2>. QED
    BY <1>3, <2>2 DEF Told!AnnounceNext
<1>4. CASE Relock \/ DenyWait
  <2>1. /\ InVisit /\ verdict \in {"granted", "denied"} /\ uid' = NoCard
        /\ UNCHANGED <<visits, msgQueue>>
    BY <1>4 DEF Relock, DenyWait, EndVisit, boundVars, sharedVars
  <2>2. Told!Finish
    BY <1>1, <2>1 DEF Told!Finish
  <2>. QED
    BY <2>2 DEF Told!AnnounceNext
<1>5. CASE PutMessage
  <2>1. /\ InVisit /\ verdict \in {"granted", "denied"} /\ visits \in Nat
        /\ UNCHANGED <<visits, uid, verdict>> /\ spc \in Unannounced
        /\ msgQueue' = Append(msgQueue, Message(visits, verdict))
    BY <1>5 DEF PutMessage, GoTo, boundVars, Unannounced
  <2>2. /\ msgQueue \in Seq(Announcement)
        /\ \A i \in 1..Len(said) : said[i].visit < visits
        /\ \A j \in 1..Len(msgQueue) : msgQueue[j].visit < visits
    BY <2>1 DEF OrderInv
  <2>3. Message(visits, verdict) \in Announcement
    BY <2>1 DEF Message, Announcement
  <2>4. /\ Range(msgQueue') = Range(msgQueue) \cup {Message(visits, verdict)}
        /\ \A m \in Range(msgQueue) : m.visit < visits
    <3>1. DOMAIN msgQueue = 1..Len(msgQueue)
      BY <2>2
    <3>. QED
      BY <2>1, <2>2, <2>3, <3>1, RangeAppend DEF Range
  <2>5. Told!Tell
    BY <1>1, <2>1, <2>2, <2>4 DEF Told!Tell, Message
  <2>. QED
    BY <2>5 DEF Told!AnnounceNext
<1>6. CASE UNCHANGED <<visits, uid, verdict, msgQueue>>
  BY <1>1, <1>6, ToldElsewhere
<1>7. CASE Start \/ HmacQuery \/ HmacSelect \/ HmacFails \/ SendIrcMessage \/ Unlock \/ Arrive
  BY <1>6, <1>7 DEF Start, HmacQuery, HmacSelect, HmacFails, SendIrcMessage, Unlock, Arrive,
     PlaceCard, GoTo, threadVars, boundVars, sharedVars
<1>8. CASE FetchUidRecord \/ HmacChallenge \/ DesfireQuery \/ NdefVerified \/ NdefRefused
  <2>1. \/ Decide("granted") /\ spc \in Deciding /\ Internal
        \/ Decide("denied") /\ spc \in Deciding /\ Internal
        \/ UNCHANGED <<visits, uid, verdict, msgQueue>>
    BY <1>8 DEF FetchUidRecord, HmacChallenge, DesfireQuery, NdefVerified, NdefRefused, GoTo,
       boundVars, sharedVars
  <2>. QED
    BY <1>3, <1>6, <2>1
<1>. QED
  BY <1>2, <1>4, <1>5, <1>7, <1>8 DEF Scanner, Visit, Deliberate

(* The message taken is older than all that stay and younger than all that *)
(* were heard: it is heard or lost.                                        *)
LEMMA DrainTold ==
  ASSUME OrderInv, UNCHANGED scannerVars, (\E o \in Outcomes : Drain(o)) \/ DrainUnencoded
  PROVE  Told!AnnounceNext
<1> DEFINE m == Head(msgQueue)
<1>1. /\ msgQueue # <<>> /\ msgQueue' = Tail(msgQueue) /\ UNCHANGED <<visits, uid, verdict>>
      /\ said' = said \/ said' = Append(said, m)
  BY DEF Drain, DrainUnencoded, ServePrivmsg, ircServer, scannerVars, threadVars, boundVars
<1>2. msgQueue \in Seq(Announcement) /\ said \in Seq(Announcement) /\ Increasing(msgQueue)
  BY DEF OrderInv
<1>3. /\ m = msgQueue[1] /\ 1 \in 1..Len(msgQueue)
      /\ Tail(msgQueue) \in Seq(Announcement)
      /\ \A j \in 1..Len(Tail(msgQueue)) : m.visit < Tail(msgQueue)[j].visit
  BY <1>1, <1>2, TailElements, TailIncreasing
<1>4. \A i \in 1..Len(said) : said[i].visit < m.visit
  BY <1>3 DEF OrderInv
<1>5. Range(msgQueue) = {m} \cup Range(Tail(msgQueue))
  BY <1>1, <1>2, RangeTail
<1>6. \A l \in Range(Tail(msgQueue)) : m.visit < l.visit
  <2>1. DOMAIN Tail(msgQueue) = 1..Len(Tail(msgQueue))
    BY <1>3
  <2>. QED
    BY <1>3, <2>1 DEF Range
<1>7. m.visit \in Nat
  BY <1>2, <1>3, ElementTypes
<1> HIDE DEF m
<1>8. m \in Range(msgQueue) /\ Range(msgQueue') = Range(msgQueue) \ {m}
  BY <1>1, <1>5, <1>6, <1>7
<1>9. CASE said' = said
  <2>1. Told!Lose(m)
    BY <1>1, <1>8, <1>9 DEF Told!Lose, InVisit
  <2>. QED
    BY <1>8, <2>1 DEF Told!AnnounceNext
<1>10. CASE said' = Append(said, m)
  <2>1. Told!Hear(m)
    BY <1>1, <1>4, <1>6, <1>8, <1>10 DEF Told!Hear, InVisit
  <2>. QED
    BY <1>8, <2>1 DEF Told!AnnounceNext
<1>. QED
  BY <1>1, <1>9, <1>10 DEF m

(* Every step is a step of the announcements or leaves them as they are. *)
LEMMA ToldStep ==
    ScannerTypeOK /\ ControlInv /\ OrderInv /\ [DaemonNext]_daemonVars
      => [Told!AnnounceNext]_(Told!announceVars)
<1> SUFFICES ASSUME ScannerTypeOK, ControlInv, OrderInv, [DaemonNext]_daemonVars
             PROVE  [Told!AnnounceNext]_(Told!announceVars)
  OBVIOUS
<1>1. CASE Scanner
  BY <1>1, ScannerTold
<1>2. CASE UNCHANGED <<said, msgQueue, scannerVars>>
  BY <1>2, ToldElsewhere DEF scannerVars, threadVars, boundVars
<1>3. CASE Irc
  BY <1>2, <1>3, DrainTold, IrcKeepsMessages DEF Irc
<1>4. CASE Switch
  BY <1>2, <1>4, SwitchKeepsMessages DEF Switch
<1>. QED
  BY <1>1, <1>2, <1>3, <1>4 DEF DaemonNext, daemonVars, ircVars, ircServer, sharedVars

(* NFCScanner.sendIrcMessage to IrcThread.run: the threads together         *)
(* implement Announcements, for any number of visits, losses and            *)
(* reconnects.                                                              *)
THEOREM DaemonKeepsAnnouncing == DaemonSpec => KeepsAnnouncing
<1>1. DaemonInit => Told!AnnounceInit
  BY ToldInitial
<1>2. DaemonInv /\ [DaemonNext]_daemonVars => [Told!AnnounceNext]_(Told!announceVars)
  BY ToldStep DEF DaemonInv, TypesInv
<1>. QED
  BY <1>1, <1>2, DaemonInvariance, PTL DEF DaemonSpec, KeepsAnnouncing, Told!AnnounceSpec

(***************************************************************************)
(* What CardOpensDoor rests on, and what takes it away.                    *)
(***************************************************************************)
(* A listed card has been found, or is about to be. *)
ListedInv == InVisit /\ ByUid(db, uid) => spc = "uidQuery" \/ verdict = "granted"

(* Every step of the scanner keeps a listed card on its way. *)
LEMMA ListedStep == ControlInv /\ ListedInv /\ [DaemonNext]_daemonVars => ListedInv'
<1> SUFFICES ASSUME ControlInv, ListedInv, [DaemonNext]_daemonVars PROVE ListedInv'
  OBVIOUS
<1> USE DEF ControlInv, ListedInv, InVisit, ByUid, Acting, Deciding, Querying, worldVars
<1>1. CASE UNCHANGED scannerVars
  BY <1>1 DEF scannerVars, threadVars
<1>2. CASE Start \/ ScanUID \/ Arrive
  BY <1>2 DEF Start, ScanUID, Arrive, PlaceCard, threadVars, Internal
<1>3. CASE FetchUidRecord
  BY <1>3 DEF FetchUidRecord, Decide, GoTo, Internal
<1>4. CASE HmacQuery \/ HmacSelect \/ HmacChallenge \/ HmacFails \/ DesfireQuery
           \/ NdefVerified \/ NdefRefused
  <2>1. spc \in Deciding \ {"uidQuery"}
    BY <1>4 DEF HmacQuery, HmacSelect, HmacChallenge, HmacFails, DesfireQuery, NdefVerified,
       NdefRefused
  <2>2. ~(InVisit /\ ByUid(db, uid)) /\ UNCHANGED <<uid, db>>
    BY <1>4, <2>1 DEF HmacQuery, HmacSelect, HmacChallenge, HmacFails, DesfireQuery,
       NdefVerified, NdefRefused, Decide, GoTo, Internal
  <2>. QED
    BY <2>2
<1>5. CASE SendIrcMessage \/ PutMessage \/ Unlock
  BY <1>5 DEF SendIrcMessage, PutMessage, Unlock, GoTo, Internal
<1>6. CASE Relock \/ DenyWait
  BY <1>6 DEF Relock, DenyWait, EndVisit
<1>. QED
  BY <1>1, <1>2, <1>3, <1>4, <1>5, <1>6 DEF DaemonNext, Scanner, Visit, Deliberate, Irc, Switch,
     daemonVars

(* NFCScanner.actOnUid: from the scan to the end of its visit, a card whose *)
(* UID is listed is being looked up, announced or let in, and nowhere else. *)
THEOREM ListedCardOnItsWay ==
  DaemonSpec =>
    [](InVisit /\ ByUid(db, uid) => spc \in {"uidQuery", "tell", "put", "unlock", "held"})
<1>1. DaemonInit => ListedInv
  BY DoorAssumption DEF DaemonInit, ScannerInit, ListedInv, InVisit
<1>2. DaemonInv /\ ListedInv /\ [DaemonNext]_daemonVars => ListedInv'
  BY ListedStep DEF DaemonInv, TypesInv
<1>3. DaemonInv /\ ListedInv
        => (InVisit /\ ByUid(db, uid) => spc \in {"uidQuery", "tell", "put", "unlock", "held"})
  BY DEF DaemonInv, TypesInv, ScannerTypeOK, ControlInv, ListedInv, Acting, Deciding, Querying
<1>. QED
  BY <1>1, <1>2, <1>3, DaemonInvariance, PTL DEF DaemonSpec

(* IrcThread.onDisconnect called by a send under threadLock: once a thread  *)
(* has blocked there, no step of any thread gives the lock back, and a      *)
(* scanner that has come to sendIrcMessage goes no further.                 *)
BlockedForGood ==
    [][threadLock # "free" =>
         threadLock' = threadLock /\ (spc = "tell" => spc' = "tell")]_daemonVars

(* No step takes the lock from a thread that has blocked. *)
LEMMA LockStays ==
  ASSUME AwaitInv, IrcTypeOK, [DaemonNext]_daemonVars, threadLock # "free"
  PROVE  threadLock' = threadLock
<1>1. (threadLock = "irc" /\ ircPc = "blocked") \/ (threadLock = "switch" /\ swPc = "blocked")
  BY DEF AwaitInv, LockInv, IrcTypeOK
<1>2. CASE Scanner \/ UNCHANGED daemonVars
  BY <1>2, ScannerFrame DEF daemonVars, sharedVars
<1>3. CASE Irc
  <2>1. IrcStep \/ Network
    BY <1>3 DEF Irc
  <2>. QED
    BY <1>1, <2>1 DEF IrcStep, Network, ConnectSucceeds, ConnectFails, SetConnected, Register,
       CheckConnected, PollData, PollReset, PollTimeout, Drain, DrainUnencoded, DrainEmpty, Sleep,
       HandleWelcome, HandleTopic, HandleGarbled, LinesDone, Join, JoinOnStale, JoinDone,
       Rejoin, FlagDisconnect, FlagReconnect, Reregister, SetTopic, SetTopicUnencoded, DelRequest,
       Welcome, DropConnection, GarbledLine, Jump, sharedVars
<1>4. CASE Switch
  <2>1. SwitchStep \/ Flip
    BY <1>4 DEF Switch
  <2>. QED
    BY <1>1, <2>1 DEF SwitchStep, Flip, ReadSwitch, Upload, UploadFails, CheckIrc, Request,
       RequestsDone, GetTopic, ircVars, sharedVars
<1>. QED
  BY <1>2, <1>3, <1>4 DEF DaemonNext

(* The hang of run late_door lasts until the process is killed, for every   *)
(* list of channels and whichever thread has blocked.                       *)
THEOREM BlockedForGoodTheorem == DaemonSpec => BlockedForGood
<1> DEFINE Stays == threadLock # "free" =>
                      threadLock' = threadLock /\ (spc = "tell" => spc' = "tell")
<1>1. DaemonInv /\ AwaitInv /\ [DaemonNext]_daemonVars => [Stays]_daemonVars
  <2> SUFFICES ASSUME DaemonInv, AwaitInv, [DaemonNext]_daemonVars, threadLock # "free"
               PROVE  threadLock' = threadLock /\ (spc = "tell" => spc' = "tell")
    OBVIOUS
  <2>1. threadLock' = threadLock
    BY LockStays DEF DaemonInv, TypesInv
  <2>2. ASSUME spc = "tell" PROVE spc' = "tell"
    BY <2>2 DEF DaemonNext, Scanner, Visit, Arrive, Irc, Switch, Deliberate, Start, ScanUID,
       FetchUidRecord, HmacQuery, HmacSelect, HmacChallenge, HmacFails, DesfireQuery,
       NdefVerified, NdefRefused, SendIrcMessage, PutMessage, Unlock, Relock, DenyWait,
       PlaceCard, daemonVars, scannerVars, threadVars
  <2>. QED
    BY <2>1, <2>2
<1>. QED
  BY <1>1, DaemonInvariance, AwaitInvariance, PTL DEF DaemonSpec, BlockedForGood
==============================================================================
