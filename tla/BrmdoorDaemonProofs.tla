------------------------- MODULE BrmdoorDaemonProofs -------------------------
(***************************************************************************)
(* Proofs about BrmdoorDaemon, for every list of channels, every set of    *)
(* cards and without the bounds mattering: type correctness, the order of  *)
(* announcements, the connected flag, the published status and the order   *)
(* of the topics.                                                          *)
(***************************************************************************)
EXTENDS BrmdoorDaemon, DoorScannerProofs

(***************************************************************************)
(* The invariant.                                                          *)
(***************************************************************************)
Announcement == [visit : Nat, text : {"none", "granted", "denied"}]

Lines == [event : {"welcome", "garbled"}, channel : {NoTopic}]
         \cup [event : {"topic"}, channel : Channels]

(* What the types leave open: the lines on their way, and the locals where  *)
(* they are used.                                                          *)
LocalInv ==
    /\ inbox \in Seq(Lines) /\ lines \in Seq(Lines)
    /\ ircPc \in {"setTopic", "delRequest"} => newTopic # <<>>
    /\ swPc # "read" => lastStatus \in Status

(* Announcements are numbered by their visits.  Those a channel has heard   *)
(* come before those in the queue, and a visit that has not put its message *)
(* yet is later than all of them.                                          *)
Increasing(s) == \A i, j \in 1..Len(s) : i < j => s[i].visit < s[j].visit

Unannounced == Deciding \cup {"tell", "put"}

OrderInv ==
    /\ said \in Seq(Announcement) /\ msgQueue \in Seq(Announcement)
    /\ Increasing(said) /\ Increasing(msgQueue)
    /\ \A i \in 1..Len(said), j \in 1..Len(msgQueue) : said[i].visit < msgQueue[j].visit
    /\ \A i \in 1..Len(said) :
         said[i].visit <= visits /\ (spc \in Unannounced => said[i].visit < visits)
    /\ \A j \in 1..Len(msgQueue) :
         msgQueue[j].visit <= visits /\ (spc \in Unannounced => msgQueue[j].visit < visits)

(* The thread knows of a live connection, and does not try to make another. *)
LinkInv ==
    /\ LiveConnectionFlagged
    /\ ircPc \in {"sleep", "connect", "dConnect", "dFlag"} => sock # "up"
    /\ ircPc \in {"setConnected", "dSetConnected"} /\ ~attempt => sock # "up"

(* What that takes: onConnect has nothing left to do on a connection that   *)
(* onDisconnect has replaced.                                              *)
NoStaleJoins == Len(ChannelList) = 1 \/ ~LateDetection

StaleInv ==
    /\ ircPc = "join" /\ LateDetection => Len(toJoin) <= 1
    /\ ircPc = "staleJoin" => toJoin = <<>>
    /\ returnTo = "staleJoin" /\ ircPc \in {"dFlag", "dConnect", "dSetConnected", "dJoin"}
         => toJoin = <<>>

(* The statuses are handed on in order: from the switch to the thread that  *)
(* reads it, to the map, to onTopic, to the topic.                         *)
ForwardInv ==
    /\ lastStatus.no <= switchFile.no
    /\ \A ch \in Channels :
         /\ topic[ch] \in Status =>
              /\ topic[ch].no <= lastStatus.no
              /\ channelPrefixMap[ch] \in Status => topic[ch].no <= channelPrefixMap[ch].no
              /\ newTopic # <<>> /\ newTopic[1] = ch => topic[ch].no <= newTopic[2].no
         /\ channelPrefixMap[ch] \in Status =>
              /\ channelPrefixMap[ch].no <= lastStatus.no
              /\ newTopic # <<>> /\ newTopic[1] = ch
                   => newTopic[2].no <= channelPrefixMap[ch].no
    /\ newTopic # <<>> => newTopic[2].no <= lastStatus.no

PublishedInv == UseUpload /\ uploadFails = 0 /\ swPc # "upload" => published = lastStatus.text

TypesInv == ScannerTypeOK /\ ControlInv /\ IrcTypeOK /\ SwitchTypeOK /\ LocalInv

(***************************************************************************)
(* Lemmas.                                                                 *)
(***************************************************************************)
(* What the outcome of a send says of the connection. *)
LEMMA OutcomeFacts ==
  ASSUME NEW o \in Outcomes
  PROVE  /\ o = "sent" => sock = "up"
         /\ o = "reset" => sock = "lost" /\ LateDetection
         /\ o = "raised" => sock # "up"
<1>1. CASE sock = "up"
  BY <1>1 DEF Outcomes
<1>2. CASE sock = "lost" /\ LateDetection
  BY <1>2 DEF Outcomes
<1>3. CASE sock = "lost" /\ ~LateDetection
  BY <1>3 DEF Outcomes
<1>4. CASE sock \notin {"up", "lost"}
  BY <1>4 DEF Outcomes
<1>. QED
  BY <1>1, <1>2, <1>3, <1>4

(* The first of the lines that have been read, and what remains. *)
LEMMA LineTypes ==
  ASSUME LocalInv, lines # <<>>
  PROVE  /\ Tail(lines) \in Seq(Lines)
         /\ Head(lines).event = "topic" => Head(lines).channel \in Channels
<1>1. Head(lines) \in Lines /\ Tail(lines) \in Seq(Lines)
  BY DEF LocalInv
<1>. QED
  BY <1>1 DEF Lines

(* Nothing has been read. *)
LEMMA NoLines == <<>> \in Seq(Lines)
OBVIOUS

(* A request taken up by onTopic is not the empty one. *)
LEMMA PairNotEmpty == ASSUME NEW x, NEW y PROVE <<x, y>> # <<>>
OBVIOUS

(* The answer about a topic is made of lines. *)
LEMMA TopicLineType == ASSUME NEW ch \in Channels PROVE TopicLine(ch) \in Seq(Lines)
<1>1. Line("topic", ch) \in Lines
  BY DEF Line, Lines
<1>. QED
  BY <1>1 DEF TopicLine

(* Every answer to a JOIN or a query is a line. *)
LEMMA AnswerTypes ==
ASSUME LocalInv, NEW ch \in Channels, NEW o \in Outcomes, ServeJoin(o, ch) \/ ServeTopicQuery(o,
      ch)
  PROVE  inbox' \in Seq(Lines)
<1>1. inbox \in Seq(Lines) /\ TopicLine(ch) \in Seq(Lines)
  BY TopicLineType DEF LocalInv
<1>2. inbox \o TopicLine(ch) \in Seq(Lines)
  BY <1>1
<1>. QED
  BY <1>1, <1>2 DEF ServeJoin, ServeTopicQuery

(* The IRC thread and the server keep the types. *)
LEMMA IrcTypeStep ==
  ASSUME IrcTypeOK, LocalInv, IrcStep \/ Network
  PROVE  IrcTypeOK'
<1> USE IrcAssumption DEF IrcTypeOK, ircLocals, ircServer, ircBounds, ircVars, sharedVars
<1>1. ASSUME ConnectSucceeds PROVE IrcTypeOK'
  BY <1>1 DEF ConnectSucceeds, AfterConnect
<1>2. ASSUME ConnectFails PROVE IrcTypeOK'
  BY <1>2 DEF ConnectFails, AfterConnect
<1>3. ASSUME SetConnected PROVE IrcTypeOK'
  BY <1>3 DEF SetConnected, Jump
<1>4. ASSUME Register PROVE IrcTypeOK'
  BY <1>4 DEF Register
<1>5. ASSUME CheckConnected PROVE IrcTypeOK'
  BY <1>5 DEF CheckConnected, Jump
<1>6. ASSUME PollData PROVE IrcTypeOK'
  BY <1>6 DEF PollData
<1>7. ASSUME PollReset PROVE IrcTypeOK'
  BY <1>7 DEF PollReset
<1>8. ASSUME PollTimeout PROVE IrcTypeOK'
  BY <1>8 DEF PollTimeout, Jump
<1>9. ASSUME DrainEmpty PROVE IrcTypeOK'
  BY <1>9 DEF DrainEmpty, Jump
<1>10. ASSUME Sleep PROVE IrcTypeOK'
  BY <1>10 DEF Sleep, Jump
<1>11. ASSUME HandleWelcome PROVE IrcTypeOK'
  BY <1>11 DEF HandleWelcome, NextLine
<1>12. ASSUME HandleTopic PROVE IrcTypeOK'
  <2>1. Head(lines).channel \in Channels
    BY <1>12, LineTypes DEF HandleTopic, NextLine
  <2>. QED
    BY <1>12, <2>1 DEF HandleTopic
<1>13. ASSUME HandleGarbled PROVE IrcTypeOK'
  BY <1>13 DEF HandleGarbled, NextLine
<1>14. ASSUME LinesDone PROVE IrcTypeOK'
  BY <1>14 DEF LinesDone, Jump
<1>15. ASSUME JoinOnStale PROVE IrcTypeOK'
  BY <1>15 DEF JoinOnStale, Unwind
<1>16. ASSUME JoinDone PROVE IrcTypeOK'
  BY <1>16 DEF JoinDone, Jump
<1>17. ASSUME FlagDisconnect PROVE IrcTypeOK'
  BY <1>17 DEF FlagDisconnect, Jump
<1>18. ASSUME FlagReconnect PROVE IrcTypeOK'
  BY <1>18 DEF FlagReconnect
<1>19. ASSUME Reregister PROVE IrcTypeOK'
  BY <1>19 DEF Reregister
<1>20. ASSUME DelRequest PROVE IrcTypeOK'
  BY <1>20 DEF DelRequest
<1>21. ASSUME NEW o \in Outcomes, Drain(o) PROVE IrcTypeOK'
  BY <1>21 DEF Drain, Transmit, Disconnects, ServePrivmsg
<1>22. ASSUME NEW o \in Outcomes, Join(o) PROVE IrcTypeOK'
  <2>1. Head(toJoin) \in Channels /\ Tail(toJoin) \in Seq(Channels)
    BY <1>22 DEF Join
  <2>2. CASE o = "raised"
    BY <1>22, <2>2 DEF Join, Transmit, ServeJoin, Unwind
  <2>3. CASE o # "raised"
    BY <1>22, <2>1, <2>3 DEF Join, Transmit, Disconnects, ServeJoin
  <2>. QED
    BY <2>2, <2>3
<1>23. ASSUME NEW o \in Outcomes, Rejoin(o) PROVE IrcTypeOK'
  BY <1>23 DEF Rejoin, Transmit, ServeJoin, TopicLine, Line
<1>24. ASSUME NEW o \in Outcomes, SetTopic(o) PROVE IrcTypeOK'
  <2>1. newTopic \in Channels \X Status
    BY <1>24 DEF SetTopic, LocalInv
  <2>2. CASE o = "raised"
    BY <1>24, <2>1, <2>2 DEF SetTopic, Transmit, Disconnects, ServeTopicChange, Unwind
  <2>3. CASE o # "raised"
    BY <1>24, <2>1, <2>3 DEF SetTopic, Transmit, Disconnects, ServeTopicChange
  <2>. QED
    BY <2>2, <2>3
<1>25. ASSUME Welcome PROVE IrcTypeOK'
  BY <1>25 DEF Welcome, Line
<1>26. ASSUME DropConnection PROVE IrcTypeOK'
  BY <1>26 DEF DropConnection
<1>27. ASSUME GarbledLine PROVE IrcTypeOK'
  BY <1>27 DEF GarbledLine, Line
<1>28. ASSUME DrainUnencoded PROVE IrcTypeOK'
  BY <1>28 DEF DrainUnencoded, Unencodable
<1>29. ASSUME SetTopicUnencoded PROVE IrcTypeOK'
  BY <1>29 DEF SetTopicUnencoded, Unencodable
<1>. QED
  BY <1>1, <1>2, <1>3, <1>4, <1>5, <1>6, <1>7, <1>8, <1>9, <1>10, <1>11, <1>12, <1>13,
     <1>14, <1>15, <1>16, <1>17, <1>18, <1>19, <1>20, <1>21, <1>22, <1>23, <1>24, <1>25, <1>26,
     <1>27, <1>28, <1>29
  DEF IrcStep, Network

(* They keep the lines and locals in order. *)
LEMMA IrcLocalStep ==
  ASSUME IrcTypeOK, LocalInv, UNCHANGED switchVars, IrcStep \/ Network
  PROVE  LocalInv'
<1> USE DEF LocalInv, switchVars, ircLocals, ircServer, ircBounds, ircVars, sharedVars
<1>1. ASSUME ConnectSucceeds PROVE LocalInv'
  BY <1>1 DEF ConnectSucceeds, AfterConnect
<1>2. ASSUME ConnectFails PROVE LocalInv'
  BY <1>2 DEF ConnectFails, AfterConnect
<1>3. ASSUME SetConnected PROVE LocalInv'
  BY <1>3 DEF SetConnected, Jump
<1>4. ASSUME Register PROVE LocalInv'
  BY <1>4 DEF Register
<1>5. ASSUME CheckConnected PROVE LocalInv'
  BY <1>5 DEF CheckConnected, Jump
<1>6. ASSUME PollData PROVE LocalInv'
  BY <1>6 DEF PollData
<1>7. ASSUME PollReset PROVE LocalInv'
  BY <1>7 DEF PollReset
<1>8. ASSUME PollTimeout PROVE LocalInv'
  BY <1>8 DEF PollTimeout, Jump
<1>9. ASSUME DrainEmpty PROVE LocalInv'
  BY <1>9 DEF DrainEmpty, Jump
<1>10. ASSUME Sleep PROVE LocalInv'
  BY <1>10 DEF Sleep, Jump
<1>11. ASSUME HandleWelcome PROVE LocalInv'
  BY <1>11, LineTypes DEF HandleWelcome, NextLine
<1>12. ASSUME HandleTopic PROVE LocalInv'
  <2>1. Tail(lines) \in Seq(Lines)
    BY <1>12, LineTypes DEF HandleTopic, NextLine
  <2>. QED
    BY <1>12, <2>1, PairNotEmpty DEF HandleTopic, NextLine
<1>13. ASSUME HandleGarbled PROVE LocalInv'
  BY <1>13 DEF HandleGarbled, NextLine
<1>14. ASSUME LinesDone PROVE LocalInv'
  BY <1>14 DEF LinesDone, Jump
<1>15. ASSUME JoinOnStale PROVE LocalInv'
  BY <1>15 DEF JoinOnStale, Unwind
<1>16. ASSUME JoinDone PROVE LocalInv'
  BY <1>16 DEF JoinDone, Jump
<1>17. ASSUME FlagDisconnect PROVE LocalInv'
  BY <1>17 DEF FlagDisconnect, Jump
<1>18. ASSUME FlagReconnect PROVE LocalInv'
  BY <1>18 DEF FlagReconnect, IrcTypeOK
<1>19. ASSUME Reregister PROVE LocalInv'
  BY <1>19 DEF Reregister, IrcTypeOK
<1>20. ASSUME DelRequest PROVE LocalInv'
  BY <1>20 DEF DelRequest
<1>21. ASSUME NEW o \in Outcomes, Drain(o) PROVE LocalInv'
  BY <1>21 DEF Drain, ServePrivmsg
<1>22. ASSUME NEW o \in Outcomes, Join(o) PROVE LocalInv'
  <2>1. Head(toJoin) \in Channels
    BY <1>22 DEF Join, IrcTypeOK
  <2>2. inbox' \in Seq(Lines)
    BY <1>22, <2>1, AnswerTypes DEF Join
  <2>3. ircPc' \notin {"setTopic", "delRequest"} /\ lines' \in Seq(Lines)
    BY <1>22, NoLines DEF Join, Unwind
  <2>. QED
    BY <1>22, <2>2, <2>3 DEF Join
<1>23. ASSUME NEW o \in Outcomes, Rejoin(o) PROVE LocalInv'
  <2>1. Head(toRejoin) \in Channels
    BY <1>23 DEF Rejoin, IrcTypeOK
  <2>2. inbox' \in Seq(Lines)
    BY <1>23, <2>1, AnswerTypes DEF Rejoin
  <2>. QED
    BY <1>23, <2>2 DEF Rejoin
<1>24. ASSUME NEW o \in Outcomes, SetTopic(o) PROVE LocalInv'
  <2>1. lines' \in Seq(Lines) /\ (ircPc' = "delRequest" => UNCHANGED newTopic)
    BY <1>24, NoLines DEF SetTopic, Unwind
  <2>. QED
    BY <1>24, <2>1 DEF SetTopic, ServeTopicChange, Unwind
<1>25. ASSUME Welcome PROVE LocalInv'
  <2>1. Line("welcome", NoTopic) \in Lines
    BY DEF Line, Lines
  <2>. QED
    BY <1>25, <2>1 DEF Welcome
<1>26. ASSUME DropConnection PROVE LocalInv'
  <2>1. inbox' \in Seq(Lines)
    BY <1>26, NoLines DEF DropConnection
  <2>. QED
    BY <1>26, <2>1 DEF DropConnection
<1>27. ASSUME GarbledLine PROVE LocalInv'
  <2>1. Line("garbled", NoTopic) \in Lines
    BY DEF Line, Lines
  <2>. QED
    BY <1>27, <2>1 DEF GarbledLine
<1>28. ASSUME DrainUnencoded PROVE LocalInv'
  BY <1>28 DEF DrainUnencoded, Unencodable
<1>29. ASSUME SetTopicUnencoded PROVE LocalInv'
  BY <1>29, NoLines DEF SetTopicUnencoded, Unencodable
<1>. QED
  BY <1>1, <1>2, <1>3, <1>4, <1>5, <1>6, <1>7, <1>8, <1>9, <1>10, <1>11, <1>12, <1>13,
     <1>14, <1>15, <1>16, <1>17, <1>18, <1>19, <1>20, <1>21, <1>22, <1>23, <1>24, <1>25, <1>26,
     <1>27, <1>28, <1>29
  DEF IrcStep, Network

(* So does the switch thread. *)
LEMMA SwitchTypeStep ==
  ASSUME IrcTypeOK, SwitchTypeOK, LocalInv, SwitchStep \/ Flip
  PROVE  (IrcTypeOK /\ SwitchTypeOK)'
<1> USE IrcAssumption DEF IrcTypeOK, SwitchTypeOK, LocalInv, Status, ircLocals, ircServer,
      ircBounds, ircVars, sharedVars
<1>1. ASSUME ReadSwitch PROVE (IrcTypeOK /\ SwitchTypeOK)'
  BY <1>1 DEF ReadSwitch, AfterUpload
<1>2. ASSUME Upload PROVE (IrcTypeOK /\ SwitchTypeOK)'
  BY <1>2 DEF Upload, AfterUpload
<1>3. ASSUME UploadFails PROVE (IrcTypeOK /\ SwitchTypeOK)'
  BY <1>3 DEF UploadFails, AfterUpload
<1>4. ASSUME CheckIrc PROVE (IrcTypeOK /\ SwitchTypeOK)'
  BY <1>4 DEF CheckIrc
<1>5. ASSUME Request PROVE (IrcTypeOK /\ SwitchTypeOK)'
  BY <1>5 DEF Request
<1>6. ASSUME RequestsDone PROVE (IrcTypeOK /\ SwitchTypeOK)'
  BY <1>6 DEF RequestsDone
<1>7. ASSUME NEW o \in Outcomes, GetTopic(o) PROVE (IrcTypeOK /\ SwitchTypeOK)'
  BY <1>7 DEF GetTopic, Transmit, Disconnects, ServeTopicQuery
<1>8. ASSUME Flip PROVE (IrcTypeOK /\ SwitchTypeOK)'
  BY <1>8 DEF Flip
<1>. QED
  BY <1>1, <1>2, <1>3, <1>4, <1>5, <1>6, <1>7, <1>8
  DEF SwitchStep

(* And the locals. *)
LEMMA SwitchLocalStep ==
  ASSUME IrcTypeOK, SwitchTypeOK, LocalInv, SwitchStep \/ Flip
  PROVE  LocalInv'
<1> USE DEF SwitchTypeOK, LocalInv, ircLocals, ircServer, ircBounds, ircVars, sharedVars
<1>1. ASSUME ReadSwitch PROVE LocalInv'
  BY <1>1 DEF ReadSwitch, AfterUpload
<1>2. ASSUME Upload PROVE LocalInv'
  BY <1>2 DEF Upload, AfterUpload
<1>3. ASSUME UploadFails PROVE LocalInv'
  BY <1>3 DEF UploadFails, AfterUpload
<1>4. ASSUME CheckIrc PROVE LocalInv'
  BY <1>4 DEF CheckIrc
<1>5. ASSUME Request PROVE LocalInv'
  BY <1>5 DEF Request
<1>6. ASSUME RequestsDone PROVE LocalInv'
  BY <1>6 DEF RequestsDone
<1>7. ASSUME NEW o \in Outcomes, GetTopic(o) PROVE LocalInv'
  <2>1. Head(asking) \in Channels
    BY <1>7 DEF GetTopic
  <2>2. inbox' \in Seq(Lines)
    BY <1>7, <2>1, AnswerTypes DEF GetTopic
  <2>. QED
    BY <1>7, <2>2 DEF GetTopic, ServeTopicQuery
<1>8. ASSUME Flip PROVE LocalInv'
  BY <1>8 DEF Flip
<1>. QED
  BY <1>1, <1>2, <1>3, <1>4, <1>5, <1>6, <1>7, <1>8
  DEF SwitchStep

(* Late detection is assumed for a bot with one channel only. *)
LEMMA OneJoin == NoStaleJoins /\ LateDetection => Len(ChannelList) <= 1
<1>1. NoStaleJoins /\ LateDetection => Len(ChannelList) = 1
  BY DEF NoStaleJoins
<1>2. Len(ChannelList) = 1 => Len(ChannelList) <= 1
  OBVIOUS
<1>. QED
  BY <1>1, <1>2

(* The scanner beside the other threads is the scanner of DoorScanner, and   *)
(* of what is shared it changes the queue only.                             *)
LEMMA ScannerFrame ==
  ASSUME Scanner
  PROVE  /\ [DoorNext]_doorVars
         /\ UNCHANGED <<ircVars, switchVars, threadLock, connected>>
         /\ msgQueue' = msgQueue \/ PutMessage
BY DEF Scanner, Visit, Arrive, DoorNext, ScannerStep, World, Deliberate, Start, ScanUID,
   FetchUidRecord, HmacQuery, HmacSelect, HmacChallenge, HmacFails, DesfireQuery,
   NdefVerified, NdefRefused, SendIrcMessage, PutMessage, Unlock, Relock, DenyWait,
   PlaceCard, Internal, sharedVars

(* Every step of the daemon keeps the types. *)
LEMMA TypesStep == TypesInv /\ [DaemonNext]_daemonVars => TypesInv'
<1> SUFFICES ASSUME TypesInv, [DaemonNext]_daemonVars PROVE TypesInv'
  OBVIOUS
<1> USE DEF TypesInv
<1>1. CASE Scanner
  <2>1. ScannerTypeOK' /\ ControlInv'
    BY <1>1, ScannerFrame, TypeStep, ControlStep
  <2>2. UNCHANGED <<ircVars, switchVars, threadLock, connected>>
    BY <1>1, ScannerFrame
  <2>3. IrcTypeOK'
    BY <2>2 DEF IrcTypeOK, ircVars, ircLocals, ircServer, ircBounds
  <2>4. SwitchTypeOK' /\ LocalInv'
    BY <2>2 DEF SwitchTypeOK, LocalInv, ircVars, ircLocals, ircServer, switchVars
  <2>. QED
    BY <2>1, <2>3, <2>4
<1>2. ASSUME UNCHANGED scannerVars PROVE ScannerTypeOK' /\ ControlInv'
  BY <1>2 DEF ScannerTypeOK, ControlInv, InVisit, scannerVars, threadVars, worldVars,
     seenVars, boundVars
<1>3. CASE Irc
  <2>1. IrcTypeOK' /\ LocalInv'
    BY <1>3, IrcTypeStep, IrcLocalStep DEF Irc
  <2>2. SwitchTypeOK'
    BY <1>3 DEF Irc, SwitchTypeOK, switchVars
  <2>. QED
    BY <1>2, <1>3, <2>1, <2>2 DEF Irc
<1>4. CASE Switch
  BY <1>2, <1>4, SwitchTypeStep, SwitchLocalStep DEF Switch
<1>5. CASE UNCHANGED daemonVars
  BY <1>2, <1>5 DEF daemonVars, IrcTypeOK, SwitchTypeOK, LocalInv, ircVars, ircLocals,
     ircServer, ircBounds, switchVars, sharedVars
<1>. QED
  BY <1>1, <1>3, <1>4, <1>5 DEF DaemonNext

(* The IRC thread knows of a live connection. *)
LEMMA IrcLinkStep ==
  ASSUME IrcTypeOK, NoStaleJoins, LinkInv, StaleInv, IrcStep \/ Network
  PROVE  (LinkInv /\ StaleInv)'
<1> USE IrcAssumption, OutcomeFacts
    DEF IrcTypeOK, NoStaleJoins, LinkInv, StaleInv, LiveConnectionFlagged, ircLocals, ircServer,
        ircBounds, ircVars, sharedVars
<1>1. ASSUME ConnectSucceeds PROVE (LinkInv /\ StaleInv)'
  BY <1>1 DEF ConnectSucceeds, AfterConnect
<1>2. ASSUME ConnectFails PROVE (LinkInv /\ StaleInv)'
  BY <1>2 DEF ConnectFails, AfterConnect
<1>3. ASSUME SetConnected PROVE (LinkInv /\ StaleInv)'
  BY <1>3 DEF SetConnected, Jump
<1>4. ASSUME Register PROVE (LinkInv /\ StaleInv)'
  BY <1>4 DEF Register
<1>5. ASSUME CheckConnected PROVE (LinkInv /\ StaleInv)'
  BY <1>5 DEF CheckConnected, Jump
<1>6. ASSUME PollData PROVE (LinkInv /\ StaleInv)'
  BY <1>6 DEF PollData
<1>7. ASSUME PollReset PROVE (LinkInv /\ StaleInv)'
  BY <1>7 DEF PollReset
<1>8. ASSUME PollTimeout PROVE (LinkInv /\ StaleInv)'
  BY <1>8 DEF PollTimeout, Jump
<1>9. ASSUME DrainEmpty PROVE (LinkInv /\ StaleInv)'
  BY <1>9 DEF DrainEmpty, Jump
<1>10. ASSUME Sleep PROVE (LinkInv /\ StaleInv)'
  BY <1>10 DEF Sleep, Jump
<1>11. ASSUME HandleWelcome PROVE (LinkInv /\ StaleInv)'
  <2>2. \/ ircPc' = "join" /\ toJoin' = ChannelList
        \/ ircPc' = "lines"
    BY <1>11 DEF HandleWelcome, NextLine
  <2>3. LinkInv'
    BY <1>11 DEF HandleWelcome, NextLine
  <2>4. StaleInv'
    <3>1. CASE ircPc' = "join" /\ toJoin' = ChannelList
      <4>1. LateDetection => Len(toJoin') <= 1
        BY <3>1, OneJoin
      <4>. QED
        BY <3>1, <4>1
    <3>2. CASE ircPc' = "lines"
      BY <3>2
    <3>. QED
      BY <2>2, <3>1, <3>2
  <2>. QED
    BY <2>3, <2>4
<1>12. ASSUME HandleTopic PROVE (LinkInv /\ StaleInv)'
  BY <1>12 DEF HandleTopic, NextLine
<1>13. ASSUME HandleGarbled PROVE (LinkInv /\ StaleInv)'
  BY <1>13 DEF HandleGarbled, NextLine
<1>14. ASSUME LinesDone PROVE (LinkInv /\ StaleInv)'
  BY <1>14 DEF LinesDone, Jump
<1>15. ASSUME JoinOnStale PROVE (LinkInv /\ StaleInv)'
  BY <1>15 DEF JoinOnStale, Unwind
<1>16. ASSUME JoinDone PROVE (LinkInv /\ StaleInv)'
  BY <1>16 DEF JoinDone, Jump
<1>17. ASSUME FlagDisconnect PROVE (LinkInv /\ StaleInv)'
  BY <1>17 DEF FlagDisconnect, Jump
<1>18. ASSUME FlagReconnect PROVE (LinkInv /\ StaleInv)'
  BY <1>18 DEF FlagReconnect
<1>19. ASSUME Reregister PROVE (LinkInv /\ StaleInv)'
  BY <1>19 DEF Reregister
<1>20. ASSUME DelRequest PROVE (LinkInv /\ StaleInv)'
  BY <1>20 DEF DelRequest
<1>21. ASSUME NEW o \in Outcomes, Drain(o) PROVE (LinkInv /\ StaleInv)'
  BY <1>21 DEF Drain, Transmit, Disconnects, ServePrivmsg
<1>22. ASSUME NEW o \in Outcomes, Join(o) PROVE (LinkInv /\ StaleInv)'
  BY <1>22 DEF Join, Transmit, Disconnects, ServeJoin, TopicLine, Line, Unwind
<1>23. ASSUME NEW o \in Outcomes, Rejoin(o) PROVE (LinkInv /\ StaleInv)'
  BY <1>23 DEF Rejoin, Transmit, ServeJoin, TopicLine, Line
<1>24. ASSUME NEW o \in Outcomes, SetTopic(o) PROVE (LinkInv /\ StaleInv)'
  BY <1>24 DEF SetTopic, Transmit, Disconnects, ServeTopicChange, Unwind
<1>25. ASSUME Welcome PROVE (LinkInv /\ StaleInv)'
  BY <1>25 DEF Welcome, Line
<1>26. ASSUME DropConnection PROVE (LinkInv /\ StaleInv)'
  BY <1>26 DEF DropConnection
<1>27. ASSUME GarbledLine PROVE (LinkInv /\ StaleInv)'
  BY <1>27 DEF GarbledLine, Line
<1>28. ASSUME DrainUnencoded PROVE (LinkInv /\ StaleInv)'
  BY <1>28 DEF DrainUnencoded, Unencodable
<1>29. ASSUME SetTopicUnencoded PROVE (LinkInv /\ StaleInv)'
  BY <1>29 DEF SetTopicUnencoded, Unencodable
<1>. QED
  BY <1>1, <1>2, <1>3, <1>4, <1>5, <1>6, <1>7, <1>8, <1>9, <1>10, <1>11, <1>12, <1>13,
     <1>14, <1>15, <1>16, <1>17, <1>18, <1>19, <1>20, <1>21, <1>22, <1>23, <1>24, <1>25, <1>26,
     <1>27, <1>28, <1>29
  DEF IrcStep, Network

(* The switch thread brings no connection to life. *)
LEMMA SwitchLinkStep ==
  ASSUME LinkInv, StaleInv, SwitchStep \/ Flip
  PROVE  (LinkInv /\ StaleInv)'
<1> USE OutcomeFacts DEF LinkInv, StaleInv, LiveConnectionFlagged, ircLocals, ircServer,
      ircBounds, ircVars, sharedVars
<1>1. ASSUME ReadSwitch PROVE (LinkInv /\ StaleInv)'
  BY <1>1 DEF ReadSwitch, AfterUpload
<1>2. ASSUME Upload PROVE (LinkInv /\ StaleInv)'
  BY <1>2 DEF Upload, AfterUpload
<1>3. ASSUME UploadFails PROVE (LinkInv /\ StaleInv)'
  BY <1>3 DEF UploadFails, AfterUpload
<1>4. ASSUME CheckIrc PROVE (LinkInv /\ StaleInv)'
  BY <1>4 DEF CheckIrc
<1>5. ASSUME Request PROVE (LinkInv /\ StaleInv)'
  BY <1>5 DEF Request
<1>6. ASSUME RequestsDone PROVE (LinkInv /\ StaleInv)'
  BY <1>6 DEF RequestsDone
<1>7. ASSUME NEW o \in Outcomes, GetTopic(o) PROVE (LinkInv /\ StaleInv)'
  BY <1>7 DEF GetTopic, Transmit, Disconnects, ServeTopicQuery, TopicLine, Line
<1>8. ASSUME Flip PROVE (LinkInv /\ StaleInv)'
  BY <1>8 DEF Flip
<1>. QED
  BY <1>1, <1>2, <1>3, <1>4, <1>5, <1>6, <1>7, <1>8
  DEF SwitchStep

(* The published status follows the one the thread has taken note of. *)
LEMMA PublishedStep == SwitchTypeOK /\ PublishedInv /\ [DaemonNext]_daemonVars => PublishedInv'
<1> SUFFICES ASSUME SwitchTypeOK, PublishedInv, [DaemonNext]_daemonVars PROVE PublishedInv'
  OBVIOUS
<1>1. CASE UNCHANGED switchVars
  BY <1>1 DEF PublishedInv, switchVars
<1>2. CASE SwitchStep \/ Flip
  <2> USE DEF PublishedInv
  <2>1. CASE ReadSwitch
    BY <2>1 DEF ReadSwitch, AfterUpload
  <2>2. CASE Upload
    BY <2>2 DEF Upload
  <2>3. CASE UploadFails
    BY <2>3 DEF UploadFails, SwitchTypeOK
  <2>4. CASE CheckIrc \/ Request \/ RequestsDone \/ Flip
    BY <2>4 DEF CheckIrc, Request, RequestsDone, Flip
  <2>5. ASSUME NEW o \in Outcomes, GetTopic(o) PROVE PublishedInv'
    BY <2>5 DEF GetTopic
  <2>. QED
    BY <1>2, <2>1, <2>2, <2>3, <2>4, <2>5 DEF SwitchStep
<1>. QED
  BY <1>1, <1>2, ScannerFrame DEF DaemonNext, Irc, Switch, daemonVars

(* onTopic hands the statuses on in order. *)
LEMMA IrcForwardStep ==
  ASSUME IrcTypeOK, SwitchTypeOK, LocalInv, ForwardInv, UNCHANGED switchVars, IrcStep \/ Network
  PROVE  ForwardInv'
<1> USE IrcAssumption DEF IrcTypeOK, SwitchTypeOK, LocalInv, ForwardInv, switchVars, ircLocals,
      ircServer, ircBounds, ircVars, sharedVars
<1>1. ASSUME ConnectSucceeds PROVE ForwardInv'
  BY <1>1 DEF ConnectSucceeds, AfterConnect
<1>2. ASSUME ConnectFails PROVE ForwardInv'
  BY <1>2 DEF ConnectFails, AfterConnect
<1>3. ASSUME SetConnected PROVE ForwardInv'
  BY <1>3 DEF SetConnected, Jump
<1>4. ASSUME Register PROVE ForwardInv'
  BY <1>4 DEF Register
<1>5. ASSUME CheckConnected PROVE ForwardInv'
  BY <1>5 DEF CheckConnected, Jump
<1>6. ASSUME PollData PROVE ForwardInv'
  BY <1>6 DEF PollData
<1>7. ASSUME PollReset PROVE ForwardInv'
  BY <1>7 DEF PollReset
<1>8. ASSUME PollTimeout PROVE ForwardInv'
  BY <1>8 DEF PollTimeout, Jump
<1>9. ASSUME DrainEmpty PROVE ForwardInv'
  BY <1>9 DEF DrainEmpty, Jump
<1>10. ASSUME Sleep PROVE ForwardInv'
  BY <1>10 DEF Sleep, Jump
<1>11. ASSUME HandleWelcome PROVE ForwardInv'
  BY <1>11 DEF HandleWelcome, NextLine
<1>12. ASSUME HandleTopic PROVE ForwardInv'
  <2>1. CASE UNCHANGED newTopic
    BY <1>12, <2>1 DEF HandleTopic
  <2>2. CASE newTopic' # newTopic
    <3>1. PICK ch \in Channels :
            channelPrefixMap[ch] # NoTopic /\ newTopic' = <<ch, channelPrefixMap[ch]>>
      BY <1>12, <2>2, LineTypes DEF HandleTopic, NextLine
    <3>2. channelPrefixMap[ch] \in Status /\ newTopic'[1] = ch /\ newTopic'[2] = channelPrefixMap[ch]
      BY <3>1
    <3>3. UNCHANGED <<topic, channelPrefixMap, lastStatus, switchFile>>
      BY <1>12 DEF HandleTopic
    <3>. QED
      BY <3>2, <3>3 DEF Status
  <2>. QED
    BY <2>1, <2>2
<1>13. ASSUME HandleGarbled PROVE ForwardInv'
  BY <1>13 DEF HandleGarbled, NextLine
<1>14. ASSUME LinesDone PROVE ForwardInv'
  BY <1>14 DEF LinesDone, Jump
<1>15. ASSUME JoinOnStale PROVE ForwardInv'
  BY <1>15 DEF JoinOnStale, Unwind
<1>16. ASSUME JoinDone PROVE ForwardInv'
  BY <1>16 DEF JoinDone, Jump
<1>17. ASSUME FlagDisconnect PROVE ForwardInv'
  BY <1>17 DEF FlagDisconnect, Jump
<1>18. ASSUME FlagReconnect PROVE ForwardInv'
  BY <1>18 DEF FlagReconnect
<1>19. ASSUME Reregister PROVE ForwardInv'
  BY <1>19 DEF Reregister
<1>20. ASSUME DelRequest PROVE ForwardInv'
  <2>1. newTopic' = <<>> /\ UNCHANGED <<topic, lastStatus, switchFile>>
    BY <1>20 DEF DelRequest
  <2>2. \A ch \in Channels :
          channelPrefixMap'[ch] \in Status => channelPrefixMap'[ch] = channelPrefixMap[ch]
    BY <1>20 DEF DelRequest
  <2>. QED
    BY <2>1, <2>2
<1>21. ASSUME NEW o \in Outcomes, Drain(o) PROVE ForwardInv'
  BY <1>21 DEF Drain, Transmit, Disconnects, ServePrivmsg
<1>22. ASSUME NEW o \in Outcomes, Join(o) PROVE ForwardInv'
  BY <1>22 DEF Join, Transmit, Disconnects, ServeJoin, TopicLine, Line, Unwind
<1>23. ASSUME NEW o \in Outcomes, Rejoin(o) PROVE ForwardInv'
  BY <1>23 DEF Rejoin, Transmit, ServeJoin, TopicLine, Line
<1>24. ASSUME NEW o \in Outcomes, SetTopic(o) PROVE ForwardInv'
  <2>1. /\ newTopic[1] \in Channels /\ newTopic[2] \in Status /\ newTopic # <<>>
        /\ UNCHANGED <<channelPrefixMap, lastStatus, switchFile>> /\ newTopic' \in {newTopic, <<>>}
    BY <1>24 DEF SetTopic, Unwind
  <2>2. topic' = topic \/ topic' = [topic EXCEPT ![newTopic[1]] = newTopic[2]]
    BY <1>24 DEF SetTopic, ServeTopicChange
  <2>3. CASE topic' = topic
    BY <2>1, <2>3
  <2>4. CASE topic' = [topic EXCEPT ![newTopic[1]] = newTopic[2]]
    BY <2>1, <2>4 DEF Status
  <2>. QED
    BY <2>2, <2>3, <2>4
<1>25. ASSUME Welcome PROVE ForwardInv'
  BY <1>25 DEF Welcome, Line
<1>26. ASSUME DropConnection PROVE ForwardInv'
  BY <1>26 DEF DropConnection
<1>27. ASSUME GarbledLine PROVE ForwardInv'
  BY <1>27 DEF GarbledLine, Line
<1>28. ASSUME DrainUnencoded PROVE ForwardInv'
  BY <1>28 DEF DrainUnencoded, Unencodable
<1>29. ASSUME SetTopicUnencoded PROVE ForwardInv'
  BY <1>29 DEF SetTopicUnencoded, Unencodable
<1>. QED
  BY <1>1, <1>2, <1>3, <1>4, <1>5, <1>6, <1>7, <1>8, <1>9, <1>10, <1>11, <1>12, <1>13,
     <1>14, <1>15, <1>16, <1>17, <1>18, <1>19, <1>20, <1>21, <1>22, <1>23, <1>24, <1>25, <1>26,
     <1>27, <1>28, <1>29
  DEF IrcStep, Network

(* So does the switch thread. *)
LEMMA SwitchForwardStep ==
  ASSUME IrcTypeOK, SwitchTypeOK, LocalInv, ForwardInv, SwitchStep \/ Flip
  PROVE  ForwardInv'
<1> USE DEF IrcTypeOK, SwitchTypeOK, LocalInv, ForwardInv, switchVars, Status, NoStatus,
      ircLocals, ircServer, ircBounds, ircVars, sharedVars
<1>1. ASSUME ReadSwitch PROVE ForwardInv'
  BY <1>1 DEF ReadSwitch, AfterUpload
<1>2. ASSUME Upload PROVE ForwardInv'
  BY <1>2 DEF Upload, AfterUpload
<1>3. ASSUME UploadFails PROVE ForwardInv'
  BY <1>3 DEF UploadFails, AfterUpload
<1>4. ASSUME CheckIrc PROVE ForwardInv'
  BY <1>4 DEF CheckIrc
<1>5. ASSUME Request PROVE ForwardInv'
  BY <1>5 DEF Request
<1>6. ASSUME RequestsDone PROVE ForwardInv'
  BY <1>6 DEF RequestsDone
<1>7. ASSUME NEW o \in Outcomes, GetTopic(o) PROVE ForwardInv'
  BY <1>7 DEF GetTopic, Transmit, Disconnects, ServeTopicQuery, TopicLine, Line
<1>8. ASSUME Flip PROVE ForwardInv'
  BY <1>8 DEF Flip
<1>. QED
  BY <1>1, <1>2, <1>3, <1>4, <1>5, <1>6, <1>7, <1>8
  DEF SwitchStep

(* An announcement has the number of a visit. *)
LEMMA VisitType == \A a \in Announcement : a.visit \in Nat
BY DEF Announcement

(* Every element of a queue of announcements has the number of a visit. *)
LEMMA ElementTypes ==
  ASSUME NEW s \in Seq(Announcement)
  PROVE  Len(s) \in Nat /\ \A i \in 1..Len(s) : s[i].visit \in Nat
<1>1. Len(s) \in Nat /\ \A i \in 1..Len(s) : s[i] \in Announcement
  OBVIOUS
<1>. QED
  BY <1>1, VisitType

(* What is put comes last. *)
LEMMA AppendElements ==
  ASSUME NEW S, NEW s \in Seq(S), NEW e \in S
  PROVE  /\ Append(s, e) \in Seq(S) /\ Len(s) \in Nat
         /\ Len(Append(s, e)) = Len(s) + 1 /\ Append(s, e)[Len(s) + 1] = e
         /\ \A i \in 1..Len(s) : Append(s, e)[i] = s[i]
OBVIOUS

(* What is taken came first. *)
LEMMA TailElements ==
  ASSUME NEW S, NEW s \in Seq(S), s # <<>>
  PROVE  /\ Tail(s) \in Seq(S) /\ Len(s) \in Nat /\ Head(s) = s[1] /\ 1 \in 1..Len(s)
         /\ Len(Tail(s)) = Len(s) - 1
         /\ \A i \in 1..(Len(s) - 1) : Tail(s)[i] = s[i + 1]
OBVIOUS

(* A later announcement put last keeps the order. *)
LEMMA AppendIncreasing ==
  ASSUME NEW s \in Seq(Announcement), NEW e \in Announcement, Increasing(s),
         \A i \in 1..Len(s) : s[i].visit < e.visit
  PROVE  Increasing(Append(s, e))
<1> DEFINE t == Append(s, e)
<1>1. /\ Len(s) \in Nat /\ Len(t) = Len(s) + 1 /\ t[Len(s) + 1] = e
      /\ \A i \in 1..Len(s) : t[i] = s[i]
  BY AppendElements
<1> HIDE DEF t
<1>2. ASSUME NEW i \in 1..Len(t), NEW j \in 1..Len(t), i < j PROVE t[i].visit < t[j].visit
  <2>1. i \in 1..Len(s) /\ t[i] = s[i]
    BY <1>1, <1>2
  <2>2. CASE j = Len(s) + 1
    BY <1>1, <2>1, <2>2
  <2>3. CASE j \in 1..Len(s)
    BY <1>1, <1>2, <2>1, <2>3 DEF Increasing
  <2>. QED
    BY <1>1, <2>2, <2>3
<1>. QED
  BY <1>2 DEF Increasing, t

(* Taking the first keeps the order, and it was before all others. *)
LEMMA TailIncreasing ==
  ASSUME NEW s \in Seq(Announcement), s # <<>>, Increasing(s)
  PROVE  /\ Increasing(Tail(s))
         /\ \A j \in 1..Len(Tail(s)) : s[1].visit < Tail(s)[j].visit
<1> DEFINE t == Tail(s)
<1>1. /\ Len(s) \in Nat /\ 1 \in 1..Len(s) /\ Len(t) = Len(s) - 1
      /\ \A i \in 1..(Len(s) - 1) : t[i] = s[i + 1]
  BY TailElements
<1> HIDE DEF t
<1>2. \A i \in 1..Len(t) : i + 1 \in 1..Len(s) /\ t[i] = s[i + 1] /\ 1 < i + 1
  BY <1>1
<1>3. ASSUME NEW i \in 1..Len(t), NEW j \in 1..Len(t), i < j PROVE t[i].visit < t[j].visit
  <2>1. i + 1 < j + 1
    BY <1>1, <1>3
  <2>. QED
    BY <1>2, <2>1 DEF Increasing
<1>4. \A j \in 1..Len(t) : s[1].visit < t[j].visit
  BY <1>1, <1>2 DEF Increasing
<1>. QED
  BY <1>3, <1>4 DEF Increasing, t

(* A visit begins after all that are announced, and puts its message last. *)
LEMMA ScannerOrderStep ==
  ASSUME ScannerTypeOK, ControlInv, OrderInv, Scanner
  PROVE  OrderInv'
<1>1. said' = said /\ said \in Seq(Announcement) /\ msgQueue \in Seq(Announcement) /\ visits \in Nat
  BY ScannerFrame DEF OrderInv, ScannerTypeOK, ircVars, ircServer
<1>2. /\ Len(said) \in Nat /\ \A i \in 1..Len(said) : said[i].visit \in Nat
      /\ Len(msgQueue) \in Nat /\ \A i \in 1..Len(msgQueue) : msgQueue[i].visit \in Nat
  BY <1>1, ElementTypes
<1>3. CASE msgQueue' = msgQueue
  <2>1. \/ visits' = visits /\ (spc' \in Unannounced => spc \in Unannounced)
        \/ visits' = visits + 1
    <3> USE DEF GoTo, Internal, boundVars, Unannounced, Deciding, Querying
    <3>1. CASE Start \/ ScanUID \/ Arrive
      BY <3>1 DEF Start, ScanUID, Arrive, PlaceCard, threadVars
    <3>2. CASE Deliberate
      BY <3>2 DEF Deliberate, FetchUidRecord, HmacQuery, HmacSelect, HmacChallenge, HmacFails,
         DesfireQuery, NdefVerified, NdefRefused, Decide
    <3>3. CASE SendIrcMessage \/ PutMessage \/ Unlock \/ Relock \/ DenyWait
      BY <3>3 DEF SendIrcMessage, PutMessage, Unlock, Relock, DenyWait, EndVisit, AfterTelling
    <3>. QED
      BY <3>1, <3>2, <3>3 DEF Scanner, Visit
  <2>2. /\ \A i \in 1..Len(said) : said[i].visit <= visits
        /\ \A i \in 1..Len(msgQueue) : msgQueue[i].visit <= visits
        /\ spc \in Unannounced => /\ \A i \in 1..Len(said) : said[i].visit < visits
                                  /\ \A i \in 1..Len(msgQueue) : msgQueue[i].visit < visits
    BY DEF OrderInv
  <2>3. /\ \A i \in 1..Len(said) :
             said[i].visit <= visits' /\ (spc' \in Unannounced => said[i].visit < visits')
        /\ \A i \in 1..Len(msgQueue) :
             msgQueue[i].visit <= visits' /\ (spc' \in Unannounced => msgQueue[i].visit < visits')
    BY <1>1, <1>2, <2>1, <2>2
  <2>. QED
    BY <1>1, <1>3, <2>3 DEF OrderInv, Increasing
<1>4. CASE PutMessage
  <2> DEFINE m == Message(visits, verdict)
  <2>1. /\ msgQueue' = Append(msgQueue, m)
        /\ visits' = visits /\ spc \in Unannounced /\ spc' \notin Unannounced
    BY <1>4 DEF PutMessage, GoTo, AfterTelling, boundVars, Unannounced, Deciding, Querying
  <2>2. m \in Announcement /\ m.visit = visits
    BY <1>1 DEF Message, Announcement, ScannerTypeOK
  <2> HIDE DEF m
  <2>3. /\ Increasing(said) /\ Increasing(msgQueue)
        /\ \A i \in 1..Len(said) : said[i].visit < visits
        /\ \A i \in 1..Len(msgQueue) : msgQueue[i].visit < visits
        /\ \A i \in 1..Len(said), j \in 1..Len(msgQueue) : said[i].visit < msgQueue[j].visit
    BY <2>1 DEF OrderInv
  <2>4. /\ msgQueue' \in Seq(Announcement) /\ Len(msgQueue') = Len(msgQueue) + 1
        /\ msgQueue'[Len(msgQueue) + 1] = m
        /\ \A i \in 1..Len(msgQueue) : msgQueue'[i] = msgQueue[i]
    BY <1>1, <2>1, <2>2, AppendElements
  <2>5. Increasing(msgQueue')
    BY <1>1, <2>1, <2>2, <2>3, AppendIncreasing
  <2>6. ASSUME NEW j \in 1..Len(msgQueue')
        PROVE  msgQueue'[j].visit <= visits /\ \A i \in 1..Len(said) : said[i].visit < msgQueue'[j].visit
    <3>1. CASE j = Len(msgQueue) + 1
      BY <1>1, <2>2, <2>3, <2>4, <3>1
    <3>2. CASE j \in 1..Len(msgQueue)
      BY <1>1, <1>2, <2>3, <2>4, <3>2
    <3>. QED
      BY <1>2, <2>4, <3>1, <3>2
  <2>7. \A i \in 1..Len(said) : said[i].visit <= visits
    BY DEF OrderInv
  <2>. QED
    BY <1>1, <2>1, <2>3, <2>4, <2>5, <2>6, <2>7 DEF OrderInv, Increasing
<1>. QED
  BY <1>3, <1>4, ScannerFrame

(* The first message in the queue is later than all that have been said;   *)
(* that it may be lost changes nothing.                                    *)
LEMMA DrainOrderStep ==
  ASSUME ScannerTypeOK, OrderInv, UNCHANGED scannerVars,
         (\E o \in Outcomes : Drain(o)) \/ DrainUnencoded
  PROVE  OrderInv'
<1>1. /\ msgQueue # <<>> /\ msgQueue' = Tail(msgQueue) /\ UNCHANGED <<visits, spc>>
      /\ said' = said \/ said' = Append(said, Head(msgQueue))
  BY DEF Drain, DrainUnencoded, ServePrivmsg, scannerVars, threadVars, boundVars, ircServer
<1>2. said \in Seq(Announcement) /\ msgQueue \in Seq(Announcement) /\ visits \in Nat
  BY DEF OrderInv, ScannerTypeOK
<1>3. /\ Len(said) \in Nat /\ \A i \in 1..Len(said) : said[i].visit \in Nat
      /\ Len(msgQueue) \in Nat /\ \A i \in 1..Len(msgQueue) : msgQueue[i].visit \in Nat
  BY <1>2, ElementTypes
<1>4. /\ msgQueue' \in Seq(Announcement)
      /\ Head(msgQueue) = msgQueue[1] /\ 1 \in 1..Len(msgQueue)
      /\ Len(msgQueue') = Len(msgQueue) - 1
      /\ \A i \in 1..Len(msgQueue') : i + 1 \in 1..Len(msgQueue) /\ msgQueue'[i] = msgQueue[i + 1]
  <2>1. /\ Tail(msgQueue) \in Seq(Announcement)
        /\ Head(msgQueue) = msgQueue[1] /\ 1 \in 1..Len(msgQueue)
        /\ Len(Tail(msgQueue)) = Len(msgQueue) - 1
        /\ \A i \in 1..(Len(msgQueue) - 1) : Tail(msgQueue)[i] = msgQueue[i + 1]
    BY <1>1, <1>2, TailElements
  <2>. QED
    BY <1>1, <1>3, <2>1
<1>5. /\ Increasing(said) /\ Increasing(msgQueue')
      /\ \A j \in 1..Len(msgQueue') : msgQueue[1].visit < msgQueue'[j].visit
  BY <1>1, <1>2, TailIncreasing DEF OrderInv
<1>6. /\ \A i \in 1..Len(said) : said[i].visit < msgQueue[1].visit
      /\ \A i \in 1..Len(said), j \in 1..Len(msgQueue') : said[i].visit < msgQueue'[j].visit
      /\ \A j \in 1..Len(msgQueue') : msgQueue'[j].visit <= visits
                                      /\ (spc \in Unannounced => msgQueue'[j].visit < visits)
      /\ msgQueue[1].visit <= visits /\ (spc \in Unannounced => msgQueue[1].visit < visits)
      /\ \A i \in 1..Len(said) : said[i].visit <= visits
                                 /\ (spc \in Unannounced => said[i].visit < visits)
  BY <1>4 DEF OrderInv
<1>7. CASE said' = said
  BY <1>1, <1>2, <1>4, <1>5, <1>6, <1>7 DEF OrderInv, Increasing
<1>8. CASE said' = Append(said, Head(msgQueue))
  <2>1. Head(msgQueue) \in Announcement
    BY <1>2, <1>4
  <2>2. /\ said' \in Seq(Announcement)
        /\ Len(said') = Len(said) + 1 /\ said'[Len(said) + 1] = msgQueue[1]
        /\ \A i \in 1..Len(said) : said'[i] = said[i]
    BY <1>2, <1>4, <1>8, <2>1, AppendElements
  <2>3. Increasing(said')
    BY <1>2, <1>4, <1>5, <1>6, <1>8, <2>1, AppendIncreasing
  <2>4. ASSUME NEW i \in 1..Len(said')
        PROVE  /\ said'[i].visit <= visits /\ (spc \in Unannounced => said'[i].visit < visits)
               /\ \A j \in 1..Len(msgQueue') : said'[i].visit < msgQueue'[j].visit
    <3>1. CASE i = Len(said) + 1
      BY <1>5, <1>6, <2>2, <3>1
    <3>2. CASE i \in 1..Len(said)
      BY <1>6, <2>2, <3>2
    <3>. QED
      BY <1>3, <2>2, <3>1, <3>2
  <2>. QED
    BY <1>1, <1>4, <1>5, <1>6, <2>2, <2>3, <2>4 DEF OrderInv, Increasing
<1>. QED
  BY <1>1, <1>7, <1>8

(* No other step of the IRC thread touches an announcement. *)
LEMMA IrcKeepsMessages ==
  ASSUME IrcStep \/ Network, \A o \in Outcomes : ~Drain(o), ~DrainUnencoded
  PROVE  UNCHANGED <<said, msgQueue>>
BY DEF IrcStep, Network, ConnectSucceeds, ConnectFails, SetConnected, Register, CheckConnected,
   PollData, PollReset, PollTimeout, DrainEmpty, Sleep, HandleWelcome, HandleTopic,
   HandleGarbled, LinesDone, JoinOnStale, JoinDone, FlagDisconnect, FlagReconnect, Reregister,
   DelRequest, SetTopicUnencoded, Join, Rejoin, SetTopic, ServeJoin, ServeTopicChange, Welcome,
   DropConnection, GarbledLine, Jump, ircServer, sharedVars

(* Nor does a step of the switch thread. *)
LEMMA SwitchKeepsMessages == ASSUME SwitchStep \/ Flip PROVE UNCHANGED <<said, msgQueue>>
BY DEF SwitchStep, Flip, ReadSwitch, Upload, UploadFails, CheckIrc, Request, RequestsDone,
   GetTopic, ServeTopicQuery, ircVars, ircServer, sharedVars

(* Every step keeps the announcements in order. *)
LEMMA OrderStep ==
  ScannerTypeOK /\ ControlInv /\ OrderInv /\ [DaemonNext]_daemonVars => OrderInv'
<1> SUFFICES ASSUME ScannerTypeOK, ControlInv, OrderInv, [DaemonNext]_daemonVars PROVE OrderInv'
  OBVIOUS
<1>1. CASE Scanner
  BY <1>1, ScannerOrderStep
<1>2. CASE UNCHANGED <<said, msgQueue, scannerVars>>
  BY <1>2 DEF OrderInv, Increasing, scannerVars, threadVars, boundVars
<1>3. CASE Irc
  BY <1>2, <1>3, DrainOrderStep, IrcKeepsMessages DEF Irc
<1>4. CASE Switch
  BY <1>2, <1>4, SwitchKeepsMessages DEF Switch
<1>. QED
  BY <1>1, <1>2, <1>3, <1>4 DEF DaemonNext, daemonVars, ircVars, ircServer, sharedVars

(* No step takes the flag from a live connection, or makes a second one. *)
LEMMA LinkStep ==
  TypesInv /\ NoStaleJoins /\ LinkInv /\ StaleInv /\ [DaemonNext]_daemonVars
    => (LinkInv /\ StaleInv)'
<1> SUFFICES ASSUME TypesInv, NoStaleJoins, LinkInv, StaleInv, [DaemonNext]_daemonVars
             PROVE  (LinkInv /\ StaleInv)'
  OBVIOUS
<1>1. CASE UNCHANGED <<ircVars, connected>>
  BY <1>1 DEF LinkInv, StaleInv, LiveConnectionFlagged, ircVars, ircLocals
<1>2. CASE Scanner
  BY <1>1, <1>2, ScannerFrame
<1>3. CASE Irc
  BY <1>3, IrcLinkStep DEF Irc, TypesInv
<1>4. CASE Switch
  BY <1>4, SwitchLinkStep DEF Switch
<1>. QED
  BY <1>1, <1>2, <1>3, <1>4 DEF DaemonNext, daemonVars, sharedVars

(* Every step hands the statuses on in order. *)
LEMMA ForwardStep == TypesInv /\ ForwardInv /\ [DaemonNext]_daemonVars => ForwardInv'
<1> SUFFICES ASSUME TypesInv, ForwardInv, [DaemonNext]_daemonVars PROVE ForwardInv'
  OBVIOUS
<1>1. CASE UNCHANGED <<ircVars, switchVars>>
  BY <1>1 DEF ForwardInv, ircVars, ircLocals, ircServer, switchVars
<1>2. CASE Scanner
  BY <1>1, <1>2, ScannerFrame
<1>3. CASE Irc
  BY <1>3, IrcForwardStep DEF Irc, TypesInv
<1>4. CASE Switch
  BY <1>4, SwitchForwardStep DEF Switch, TypesInv
<1>. QED
  BY <1>1, <1>2, <1>3, <1>4 DEF DaemonNext, daemonVars

(***************************************************************************)
(* The theorems.                                                           *)
(***************************************************************************)
DaemonInv == TypesInv /\ OrderInv /\ ForwardInv /\ PublishedInv

(* The daemon starts in the invariant. *)
LEMMA DaemonInitial == DaemonInit => DaemonInv /\ LinkInv /\ StaleInv
<1> SUFFICES ASSUME DaemonInit PROVE DaemonInv /\ LinkInv /\ StaleInv
  OBVIOUS
<1> USE DEF DaemonInit
<1>1. ScannerTypeOK /\ ControlInv
  BY InitInv DEF DoorInit, IInv, SharedInit
<1>2. switchFile \in Status /\ switchFile.no = 0 /\ NoStatus.no = 0 /\ NoStatus.text = "none"
  BY DEF SwitchInit, Status, NoStatus
<1>3. IrcTypeOK /\ SwitchTypeOK
  <2>1. <<>> \in Seq(Channels)
    OBVIOUS
  <2>2. /\ channelPrefixMap \in [Channels -> Status \cup {NoTopic}]
        /\ topic \in [Channels -> Status \cup {NoTopic, OtherTopic}]
    BY DEF IrcInit
  <2>3. IrcTypeOK
    BY <2>1, <2>2 DEF IrcInit, SharedInit, IrcTypeOK
  <2>4. SwitchTypeOK
    BY <1>2, <2>1 DEF SwitchInit, SwitchTypeOK
  <2>. QED
    BY <2>3, <2>4
<1>4. LocalInv
  BY NoLines DEF IrcInit, SwitchInit, LocalInv
<1>5. OrderInv
  BY DEF IrcInit, SharedInit, OrderInv, Increasing
<1>6. LinkInv /\ StaleInv
  BY DEF IrcInit, LinkInv, StaleInv, LiveConnectionFlagged
<1>7. ForwardInv
  <2>1. \A ch \in Channels : topic[ch] \notin Status /\ channelPrefixMap[ch] \notin Status
    BY IrcAssumption DEF IrcInit
  <2>. QED
    BY <1>2, <2>1 DEF IrcInit, SwitchInit, ForwardInv
<1>8. PublishedInv
  BY <1>2 DEF SwitchInit, PublishedInv
<1>. QED
  BY <1>1, <1>3, <1>4, <1>5, <1>6, <1>7, <1>8 DEF DaemonInv, TypesInv

(* The invariant of the three threads together. *)
THEOREM DaemonInvariance == DaemonSpec => []DaemonInv
<1>1. DaemonInit => DaemonInv
  BY DaemonInitial
<1>2. DaemonInv /\ [DaemonNext]_daemonVars => DaemonInv'
  BY TypesStep, OrderStep, ForwardStep, PublishedStep DEF DaemonInv, TypesInv
<1>. QED
  BY <1>1, <1>2, PTL DEF DaemonSpec

(* Every variable of the three threads always has a value of its kind. *)
THEOREM DaemonTypeCorrect == DaemonSpec => []DaemonTypeOK
<1>1. DaemonInv => DaemonTypeOK
  BY DEF DaemonInv, TypesInv, DaemonTypeOK
<1>. QED
  BY <1>1, DaemonInvariance, PTL

(* NFCScanner.sendIrcMessage to IrcThread.run: the channels hear of the     *)
(* visits in their order, and of each at most once.                        *)
THEOREM AnnouncedInOrderTheorem == DaemonSpec => []AnnouncedInOrder
<1>1. DaemonInv => AnnouncedInOrder
  BY DEF DaemonInv, OrderInv, Increasing, AnnouncedInOrder
<1>. QED
  BY <1>1, DaemonInvariance, PTL

(* OpenSwitchThread.run: until an upload fails, the web shows the status of *)
(* which the thread has taken note.                                        *)
THEOREM PublishedTheorem == DaemonSpec => []PublishedWhenDealtWith
<1>1. DaemonInv => PublishedWhenDealtWith
  BY DEF DaemonInv, PublishedInv, PublishedWhenDealtWith
<1>. QED
  BY <1>1, DaemonInvariance, PTL

(* onDisconnect and setConnected, in a setting in which no connection can   *)
(* be replaced under onConnect: a live connection is known to be live.     *)
THEOREM LinkInvariance == NoStaleJoins => (DaemonSpec => [](LinkInv /\ StaleInv))
<1> SUFFICES ASSUME NoStaleJoins PROVE DaemonSpec => [](LinkInv /\ StaleInv)
  OBVIOUS
<1>1. DaemonInit => LinkInv /\ StaleInv
  BY DaemonInitial
<1>2. DaemonInv => TypesInv
  BY DEF DaemonInv
<1>3. TypesInv /\ LinkInv /\ StaleInv /\ [DaemonNext]_daemonVars => (LinkInv /\ StaleInv)'
  BY LinkStep
<1>. QED
  BY <1>1, <1>2, <1>3, DaemonInvariance, PTL DEF DaemonSpec

(* setConnected: a live connection is flagged, or about to be. *)
THEOREM LiveConnectionFlaggedTheorem ==
  NoStaleJoins => (DaemonSpec => []LiveConnectionFlagged)
<1> SUFFICES ASSUME NoStaleJoins PROVE DaemonSpec => []LiveConnectionFlagged
  OBVIOUS
<1>1. LinkInv => LiveConnectionFlagged
  BY DEF LinkInv
<1>2. DaemonSpec => [](LinkInv /\ StaleInv)
  BY LinkInvariance
<1>. QED
  BY <1>1, <1>2, PTL

(* connect: the bot does not come to the server twice. *)
THEOREM NoLiveConnectionAbandonedTheorem ==
  NoStaleJoins => (DaemonSpec => []NoLiveConnectionAbandoned)
<1> SUFFICES ASSUME NoStaleJoins PROVE DaemonSpec => []NoLiveConnectionAbandoned
  OBVIOUS
<1>1. LinkInv => NoLiveConnectionAbandoned
  BY DEF LinkInv, NoLiveConnectionAbandoned
<1>2. DaemonSpec => [](LinkInv /\ StaleInv)
  BY LinkInvariance
<1>. QED
  BY <1>1, <1>2, PTL

(* Only setTopic changes a topic. *)
LEMMA TopicChanges ==
  ASSUME DaemonNext PROVE UNCHANGED topic \/ \E o \in Outcomes : SetTopic(o)
<1>1. CASE Scanner
  BY <1>1, ScannerFrame DEF ircVars, ircServer
<1>2. CASE Switch
  BY <1>2 DEF Switch, SwitchStep, Flip, ReadSwitch, Upload, UploadFails, CheckIrc, Request,
     RequestsDone, GetTopic, ServeTopicQuery, ircVars, ircServer
<1>3. CASE Irc
  BY <1>3 DEF Irc, IrcStep, Network, ConnectSucceeds, ConnectFails, SetConnected, Register,
     CheckConnected, PollData, PollReset, PollTimeout, DrainEmpty, Sleep, HandleWelcome,
     HandleTopic, HandleGarbled, LinesDone, JoinOnStale, JoinDone, FlagDisconnect,
     FlagReconnect, Reregister, DelRequest, DrainUnencoded, SetTopicUnencoded, Drain, Join,
     Rejoin, ServePrivmsg, ServeJoin, Welcome, DropConnection, GarbledLine, Jump, ircServer
<1>. QED
  BY <1>1, <1>2, <1>3 DEF DaemonNext

(* OpenSwitchThread.run and IrcThread.onTopic: the topics show the statuses *)
(* in the order in which the switch had them.                              *)
THEOREM TopicsForwardTheorem == DaemonSpec => TopicsForward
<1> DEFINE Forward == \A ch \in Channels :
      topic[ch] \in Status /\ topic'[ch] \in Status => topic[ch].no <= topic'[ch].no
<1>1. DaemonInv /\ [DaemonNext]_daemonVars => [Forward]_daemonVars
  <2> SUFFICES ASSUME DaemonInv, DaemonNext,
                      NEW ch \in Channels, topic[ch] \in Status, topic'[ch] \in Status
               PROVE  topic[ch].no <= topic'[ch].no
    OBVIOUS
  <2>1. CASE topic'[ch] = topic[ch]
    BY <2>1 DEF Status
  <2>2. ASSUME NEW o \in Outcomes, SetTopic(o), topic'[ch] # topic[ch]
        PROVE  topic[ch].no <= topic'[ch].no
    <3>1. newTopic \in Channels \X Status /\ newTopic # <<>>
      BY <2>2 DEF SetTopic, DaemonInv, TypesInv, LocalInv, IrcTypeOK
    <3>2. /\ topic' = [topic EXCEPT ![newTopic[1]] = newTopic[2]]
          /\ topic \in [Channels -> Status \cup {NoTopic, OtherTopic}]
      BY <2>2 DEF SetTopic, ServeTopicChange, DaemonInv, TypesInv, IrcTypeOK
    <3>3. newTopic[1] = ch /\ topic'[ch] = newTopic[2]
      BY <2>2, <3>1, <3>2
    <3>. QED
      BY <3>1, <3>3 DEF DaemonInv, ForwardInv
  <2>. QED
    BY <2>1, <2>2, TopicChanges
<1>. QED
  BY <1>1, DaemonInvariance, PTL DEF DaemonSpec, TopicsForward
==============================================================================
