--------------------------- MODULE DaemonAwaitProofs ---------------------------
(***************************************************************************)
(* Proofs about what the threads of BrmdoorDaemon wait for, for every list *)
(* of channels, with any number of lost connections: who holds threadLock, *)
(* that the joins of a registered bot and the requested topic changes are  *)
(* always on somebody's list.                                              *)
(***************************************************************************)
EXTENDS BrmdoorDaemonProofs

(***************************************************************************)
(* The invariant.                                                          *)
(***************************************************************************)
WelcomeLine == Line("welcome", NoTopic)

Unread == Range(inbox) \cup Range(lines)

(* Where the thread is between registering its handlers and giving up.      *)
Working == {"check", "poll", "lines", "drain", "join", "staleJoin", "setTopic", "delRequest"}

(* onDisconnect has been called from onConnect, which still has joins to    *)
(* make on the connection that is gone.                                    *)
OnStale ==
    \/ ircPc = "staleJoin"
    \/ returnTo = "staleJoin" /\ ircPc \in {"dFlag", "dConnect", "dSetConnected", "dJoin"}

(* A thread that waits for ever holds the lock, and only such a thread.     *)
LockInv ==
    /\ threadLock = "irc" <=> ircPc = "blocked"
    /\ threadLock = "switch" <=> swPc = "blocked"
    /\ ~LateDetection => threadLock = "free"

(* What the server knows of the bot, which connection the handlers are for, *)
(* and where the locals hold something.                                    *)
FlowInv ==
    /\ registered => sock = "up"
    /\ joined # {} => registered
    /\ ircPc \in {"dFlag", "dConnect"} => sock # "up"
    /\ ircPc = "dSetConnected" /\ ~attempt => sock # "up"
    /\ sock = "up" /\ ircPc \in Working => "topic" \in handlers
    /\ ircPc \in {"dSetConnected", "dJoin", "staleJoin"} => "welcome" \notin handlers
    /\ lines # <<>> => ircPc \in {"lines", "join", "setTopic", "delRequest", "blocked"} \/ OnStale
    /\ toJoin # <<>> => ircPc = "join" \/ OnStale
    /\ newTopic # <<>> => ircPc \in {"setTopic", "delRequest", "blocked"}

ReadableInv ==
    /\ noise \in Nat
    /\ noise = 0 => \A l \in Unread : l.event # "garbled"

(* A connection made by run, not by onDisconnect: its reactor has, or will  *)
(* have, the handler of the welcome.                                       *)
Fresh ==
    \/ "welcome" \in handlers
    \/ ircPc = "register"
    \/ ircPc = "setConnected" /\ attempt

(* On such a connection no join is made before the welcome is handled, and   *)
(* then all are.  Before that the welcome has still to be sent or to be     *)
(* read; or it may be lost with a line or a text that a codec refuses, and  *)
(* then the bot stays in no channel.                                       *)
NotWelcomed ==
    /\ ~registered /\ joined = {} /\ toJoin = <<>>
    /\ WelcomeLine \notin Unread

WelcomeUnread ==
    /\ registered /\ joined = {} /\ toJoin = <<>>
    /\ WelcomeLine \in Unread \/ noise # 0

WelcomeRead ==
    /\ registered /\ "welcome" \in handlers
    /\ Channels \subseteq joined \cup Range(toJoin)

WelcomeInv == Fresh /\ sock = "up" => NotWelcomed \/ WelcomeUnread \/ WelcomeRead

(* The answer that makes onTopic look at a request.  Lines left over from   *)
(* the connection before do not count: onConnect may still throw them away. *)
AnswerUnread(ch) ==
    \/ Line("topic", ch) \in Range(inbox)
    \/ Line("topic", ch) \in Range(lines) /\ ~OnStale

Attended(ch) ==
    \/ swPc = "getTopic" /\ Head(asking) = ch
    \/ AnswerUnread(ch)
    \/ newTopic # <<>> /\ newTopic[1] = ch

Requested(ch) == channelPrefixMap[ch] # NoTopic /\ topic[ch] # NoTopic

RequestInv == noise = 0 => \A ch \in joined : Requested(ch) => Attended(ch)

AwaitInv == LockInv /\ FlowInv /\ ReadableInv /\ WelcomeInv /\ RequestInv

(***************************************************************************)
(* Lemmas about sequences and lines.                                       *)
(***************************************************************************)
(* Every element of a sequence is of its kind. *)
LEMMA RangeType == ASSUME NEW S, NEW s \in Seq(S) PROVE Range(s) \subseteq S
BY DEF Range

(* Nothing is in the empty sequence. *)
LEMMA RangeEmpty == Range(<<>>) = {}
BY DEF Range

(* One line alone. *)
LEMMA RangeOne == ASSUME NEW e PROVE Range(<<e>>) = {e}
BY DEF Range

(* What a sequence holds after something is put behind it. *)
LEMMA RangeAppend ==
  ASSUME NEW S, NEW s \in Seq(S), NEW e \in S
  PROVE  Range(Append(s, e)) = Range(s) \cup {e}
<1> DEFINE t == Append(s, e)
<1>1. /\ Len(s) \in Nat /\ DOMAIN s = 1..Len(s) /\ DOMAIN t = 1..(Len(s) + 1)
      /\ t[Len(s) + 1] = e /\ \A i \in 1..Len(s) : t[i] = s[i]
  OBVIOUS
<1> HIDE DEF t
<1>2. Range(t) \subseteq Range(s) \cup {e}
  <2> SUFFICES ASSUME NEW i \in 1..(Len(s) + 1) PROVE t[i] \in Range(s) \cup {e}
    BY <1>1 DEF Range
  <2>1. i \in 1..Len(s) \/ i = Len(s) + 1
    BY <1>1
  <2>. QED
    BY <1>1, <2>1 DEF Range
<1>3. Range(s) \cup {e} \subseteq Range(t)
  <2>1. Len(s) + 1 \in 1..(Len(s) + 1) /\ \A i \in 1..Len(s) : i \in 1..(Len(s) + 1)
    BY <1>1
  <2>. QED
    BY <1>1, <2>1 DEF Range
<1>. QED
  BY <1>2, <1>3 DEF t

(* What a sequence holds after another is put behind it. *)
LEMMA RangeConcat ==
  ASSUME NEW S, NEW s \in Seq(S), NEW t \in Seq(S)
  PROVE  Range(s \o t) = Range(s) \cup Range(t)
<1> DEFINE u == s \o t
<1>1. /\ Len(s) \in Nat /\ Len(t) \in Nat
      /\ DOMAIN s = 1..Len(s) /\ DOMAIN t = 1..Len(t) /\ DOMAIN u = 1..(Len(s) + Len(t))
      /\ \A i \in 1..(Len(s) + Len(t)) : u[i] = IF i <= Len(s) THEN s[i] ELSE t[i - Len(s)]
  OBVIOUS
<1> HIDE DEF u
<1>2. Range(u) \subseteq Range(s) \cup Range(t)
  <2> SUFFICES ASSUME NEW i \in 1..(Len(s) + Len(t)) PROVE u[i] \in Range(s) \cup Range(t)
    BY <1>1 DEF Range
  <2>1. \/ i \in 1..Len(s) /\ u[i] = s[i]
        \/ i - Len(s) \in 1..Len(t) /\ u[i] = t[i - Len(s)]
    BY <1>1
  <2>. QED
    BY <1>1, <2>1 DEF Range
<1>3. Range(s) \subseteq Range(u)
  <2>1. \A i \in 1..Len(s) : i \in 1..(Len(s) + Len(t)) /\ u[i] = s[i]
    BY <1>1
  <2>. QED
    BY <1>1, <2>1 DEF Range
<1>4. Range(t) \subseteq Range(u)
  <2>1. \A i \in 1..Len(t) : Len(s) + i \in 1..(Len(s) + Len(t)) /\ u[Len(s) + i] = t[i]
    BY <1>1
  <2>. QED
    BY <1>1, <2>1 DEF Range
<1>. QED
  BY <1>2, <1>3, <1>4 DEF u

(* What is left when the first is taken. *)
LEMMA RangeTail ==
  ASSUME NEW S, NEW s \in Seq(S), s # <<>>
  PROVE  Range(s) = {Head(s)} \cup Range(Tail(s))
<1> DEFINE t == Tail(s)
<1>1. /\ Len(s) \in Nat \ {0} /\ DOMAIN s = 1..Len(s) /\ DOMAIN t = 1..(Len(s) - 1)
      /\ Head(s) = s[1] /\ \A i \in 1..(Len(s) - 1) : t[i] = s[i + 1]
  OBVIOUS
<1> HIDE DEF t
<1>2. Range(s) \subseteq {s[1]} \cup Range(t)
  <2> SUFFICES ASSUME NEW i \in 1..Len(s) PROVE s[i] \in {s[1]} \cup Range(t)
    BY <1>1 DEF Range
  <2>1. i = 1 \/ (i - 1 \in 1..(Len(s) - 1) /\ t[i - 1] = s[i])
    BY <1>1
  <2>. QED
    BY <1>1, <2>1 DEF Range
<1>3. {s[1]} \cup Range(t) \subseteq Range(s)
  <2>1. 1 \in 1..Len(s) /\ \A i \in 1..(Len(s) - 1) : i + 1 \in 1..Len(s)
    BY <1>1
  <2>. QED
    BY <1>1, <2>1 DEF Range
<1>. QED
  BY <1>1, <1>2, <1>3 DEF t

(* The IRC thread keeps the lock only when it waits for it. *)
LEMMA IrcLockStep ==
  ASSUME IrcTypeOK, LockInv, UNCHANGED switchVars, IrcStep \/ Network
  PROVE  LockInv'
<1> USE OutcomeFacts DEF IrcTypeOK, LockInv, switchVars, ircLocals, ircServer, ircBounds,
      ircVars, sharedVars
<1>1. ASSUME ConnectSucceeds PROVE LockInv'
  BY <1>1 DEF ConnectSucceeds, AfterConnect
<1>2. ASSUME ConnectFails PROVE LockInv'
  BY <1>2 DEF ConnectFails, AfterConnect
<1>3. ASSUME SetConnected PROVE LockInv'
  BY <1>3 DEF SetConnected, Jump
<1>4. ASSUME Register PROVE LockInv'
  BY <1>4 DEF Register
<1>5. ASSUME CheckConnected PROVE LockInv'
  BY <1>5 DEF CheckConnected, Jump
<1>6. ASSUME PollData PROVE LockInv'
  BY <1>6 DEF PollData
<1>7. ASSUME PollReset PROVE LockInv'
  BY <1>7 DEF PollReset
<1>8. ASSUME PollTimeout PROVE LockInv'
  BY <1>8 DEF PollTimeout, Jump
<1>9. ASSUME DrainEmpty PROVE LockInv'
  BY <1>9 DEF DrainEmpty, Jump
<1>10. ASSUME Sleep PROVE LockInv'
  BY <1>10 DEF Sleep, Jump
<1>11. ASSUME HandleWelcome PROVE LockInv'
  BY <1>11 DEF HandleWelcome, NextLine
<1>12. ASSUME HandleTopic PROVE LockInv'
  BY <1>12 DEF HandleTopic, NextLine
<1>13. ASSUME HandleGarbled PROVE LockInv'
  BY <1>13 DEF HandleGarbled, NextLine
<1>14. ASSUME LinesDone PROVE LockInv'
  BY <1>14 DEF LinesDone, Jump
<1>15. ASSUME JoinOnStale PROVE LockInv'
  BY <1>15 DEF JoinOnStale, Unwind
<1>16. ASSUME JoinDone PROVE LockInv'
  BY <1>16 DEF JoinDone, Jump
<1>17. ASSUME FlagDisconnect PROVE LockInv'
  BY <1>17 DEF FlagDisconnect, Jump
<1>18. ASSUME FlagReconnect PROVE LockInv'
  BY <1>18 DEF FlagReconnect
<1>19. ASSUME Reregister PROVE LockInv'
  BY <1>19 DEF Reregister
<1>20. ASSUME DelRequest PROVE LockInv'
  BY <1>20 DEF DelRequest
<1>21. ASSUME NEW o \in Outcomes, Drain(o) PROVE LockInv'
  BY <1>21 DEF Drain, Transmit, Disconnects, ServePrivmsg
<1>22. ASSUME NEW o \in Outcomes, Join(o) PROVE LockInv'
  BY <1>22 DEF Join, Transmit, Disconnects, ServeJoin, TopicLine, Line, Unwind
<1>23. ASSUME NEW o \in Outcomes, Rejoin(o) PROVE LockInv'
  BY <1>23 DEF Rejoin, Transmit, ServeJoin, TopicLine, Line
<1>24. ASSUME NEW o \in Outcomes, SetTopic(o) PROVE LockInv'
  BY <1>24 DEF SetTopic, Transmit, Disconnects, ServeTopicChange, Unwind
<1>25. ASSUME Welcome PROVE LockInv'
  BY <1>25 DEF Welcome, Line
<1>26. ASSUME DropConnection PROVE LockInv'
  BY <1>26 DEF DropConnection
<1>27. ASSUME GarbledLine PROVE LockInv'
  BY <1>27 DEF GarbledLine, Line
<1>28. ASSUME DrainUnencoded PROVE LockInv'
  BY <1>28 DEF DrainUnencoded, Unencodable
<1>29. ASSUME SetTopicUnencoded PROVE LockInv'
  BY <1>29 DEF SetTopicUnencoded, Unencodable
<1>. QED
  BY <1>1, <1>2, <1>3, <1>4, <1>5, <1>6, <1>7, <1>8, <1>9, <1>10, <1>11, <1>12, <1>13,
     <1>14, <1>15, <1>16, <1>17, <1>18, <1>19, <1>20, <1>21, <1>22, <1>23, <1>24, <1>25, <1>26,
     <1>27, <1>28, <1>29
  DEF IrcStep, Network

(* So does the switch thread. *)
LEMMA SwitchLockStep ==
  ASSUME SwitchTypeOK, LockInv, SwitchStep \/ Flip
  PROVE  LockInv'
<1> USE OutcomeFacts DEF LockInv, ircLocals, ircServer, ircBounds, ircVars, sharedVars
<1>1. ASSUME ReadSwitch PROVE LockInv'
  BY <1>1 DEF ReadSwitch, AfterUpload
<1>2. ASSUME Upload PROVE LockInv'
  BY <1>2 DEF Upload, AfterUpload
<1>3. ASSUME UploadFails PROVE LockInv'
  BY <1>3 DEF UploadFails, AfterUpload
<1>4. ASSUME CheckIrc PROVE LockInv'
  BY <1>4 DEF CheckIrc
<1>5. ASSUME Request PROVE LockInv'
  BY <1>5 DEF Request
<1>6. ASSUME RequestsDone PROVE LockInv'
  BY <1>6 DEF RequestsDone
<1>7. ASSUME NEW o \in Outcomes, GetTopic(o) PROVE LockInv'
  BY <1>7 DEF GetTopic, Transmit, Disconnects, ServeTopicQuery, TopicLine, Line
<1>8. ASSUME Flip PROVE LockInv'
  BY <1>8 DEF Flip
<1>. QED
  BY <1>1, <1>2, <1>3, <1>4, <1>5, <1>6, <1>7, <1>8
  DEF SwitchStep

(* The lines differ by their events, and topic lines by their channels. *)
LEMMA LineKinds ==
  /\ WelcomeLine \in Lines /\ WelcomeLine.event = "welcome"
  /\ Line("garbled", NoTopic) \in Lines /\ Line("garbled", NoTopic).event = "garbled"
  /\ \A l \in Lines : l.event = "welcome" => l = WelcomeLine
  /\ \A ch \in Channels : /\ Line("topic", ch) \in Lines
                          /\ Line("topic", ch).event = "topic"
                          /\ Line("topic", ch).channel = ch
BY DEF WelcomeLine, Line, Lines

(* What has been read and not yet handled: its first line, and the rest. *)
LEMMA FirstLine ==
  ASSUME LocalInv, lines # <<>>
  PROVE  /\ Head(lines) \in Lines
         /\ Range(lines) = {Head(lines)} \cup Range(Tail(lines))
BY RangeTail DEF LocalInv

(* A topic that is there is answered with one line, no topic with none. *)
LEMMA AnswerRange ==
  ASSUME LocalInv, NEW ch \in Channels, NEW o, ServeJoin(o, ch) \/ ServeTopicQuery(o, ch)
  PROVE  /\ Range(inbox) \subseteq Range(inbox')
         /\ Range(inbox') \subseteq Range(inbox) \cup {Line("topic", ch)}
         /\ inbox' # inbox => o = "sent" /\ ch \in joined'
         /\ joined' # joined \/ (o = "sent" /\ ch \in joined /\ ServeTopicQuery(o, ch))
              => (topic[ch] # NoTopic => Line("topic", ch) \in Range(inbox'))
<1>1. inbox \in Seq(Lines) /\ TopicLine(ch) \in Seq(Lines)
  BY TopicLineType DEF LocalInv
<1>2. Range(inbox \o TopicLine(ch)) = Range(inbox) \cup Range(TopicLine(ch))
  BY <1>1, RangeConcat
<1>3. Range(TopicLine(ch)) = IF topic[ch] = NoTopic THEN {} ELSE {Line("topic", ch)}
  BY RangeEmpty, RangeOne DEF TopicLine
<1>. QED
  BY <1>2, <1>3 DEF ServeJoin, ServeTopicQuery

(* The locals hold something only where it is used. *)
LEMMA IrcFlowStep ==
  ASSUME IrcTypeOK, FlowInv, IrcStep \/ Network
  PROVE  FlowInv'
<1> USE OutcomeFacts DEF IrcTypeOK, FlowInv, OnStale, Working, ircLocals, ircServer, ircBounds,
      ircVars, sharedVars
<1>1. ASSUME ConnectSucceeds PROVE FlowInv'
  BY <1>1 DEF ConnectSucceeds, AfterConnect
<1>2. ASSUME ConnectFails PROVE FlowInv'
  BY <1>2 DEF ConnectFails, AfterConnect
<1>3. ASSUME SetConnected PROVE FlowInv'
  BY <1>3 DEF SetConnected, Jump
<1>4. ASSUME Register PROVE FlowInv'
  BY <1>4 DEF Register
<1>5. ASSUME CheckConnected PROVE FlowInv'
  BY <1>5 DEF CheckConnected, Jump
<1>6. ASSUME PollData PROVE FlowInv'
  BY <1>6 DEF PollData
<1>7. ASSUME PollReset PROVE FlowInv'
  BY <1>7 DEF PollReset
<1>8. ASSUME PollTimeout PROVE FlowInv'
  BY <1>8 DEF PollTimeout, Jump
<1>9. ASSUME DrainEmpty PROVE FlowInv'
  BY <1>9 DEF DrainEmpty, Jump
<1>10. ASSUME Sleep PROVE FlowInv'
  BY <1>10 DEF Sleep, Jump
<1>11. ASSUME HandleWelcome PROVE FlowInv'
  BY <1>11 DEF HandleWelcome, NextLine
<1>12. ASSUME HandleTopic PROVE FlowInv'
  BY <1>12 DEF HandleTopic, NextLine
<1>13. ASSUME HandleGarbled PROVE FlowInv'
  BY <1>13 DEF HandleGarbled, NextLine
<1>14. ASSUME LinesDone PROVE FlowInv'
  BY <1>14 DEF LinesDone, Jump
<1>15. ASSUME JoinOnStale PROVE FlowInv'
  BY <1>15 DEF JoinOnStale, Unwind
<1>16. ASSUME JoinDone PROVE FlowInv'
  BY <1>16 DEF JoinDone, Jump
<1>17. ASSUME FlagDisconnect PROVE FlowInv'
  BY <1>17 DEF FlagDisconnect, Jump
<1>18. ASSUME FlagReconnect PROVE FlowInv'
  BY <1>18 DEF FlagReconnect
<1>19. ASSUME Reregister PROVE FlowInv'
  BY <1>19 DEF Reregister
<1>20. ASSUME DelRequest PROVE FlowInv'
  BY <1>20 DEF DelRequest
<1>21. ASSUME NEW o \in Outcomes, Drain(o) PROVE FlowInv'
  BY <1>21 DEF Drain, Transmit, Disconnects, ServePrivmsg
<1>22. ASSUME NEW o \in Outcomes, Join(o) PROVE FlowInv'
  BY <1>22 DEF Join, Transmit, Disconnects, ServeJoin, TopicLine, Line, Unwind
<1>23. ASSUME NEW o \in Outcomes, Rejoin(o) PROVE FlowInv'
  BY <1>23 DEF Rejoin, Transmit, ServeJoin, TopicLine, Line
<1>24. ASSUME NEW o \in Outcomes, SetTopic(o) PROVE FlowInv'
  BY <1>24 DEF SetTopic, Transmit, Disconnects, ServeTopicChange, Unwind
<1>25. ASSUME Welcome PROVE FlowInv'
  BY <1>25 DEF Welcome, Line
<1>26. ASSUME DropConnection PROVE FlowInv'
  BY <1>26 DEF DropConnection
<1>27. ASSUME GarbledLine PROVE FlowInv'
  BY <1>27 DEF GarbledLine, Line
<1>28. ASSUME DrainUnencoded PROVE FlowInv'
  BY <1>28 DEF DrainUnencoded, Unencodable
<1>29. ASSUME SetTopicUnencoded PROVE FlowInv'
  BY <1>29 DEF SetTopicUnencoded, Unencodable
<1>. QED
  BY <1>1, <1>2, <1>3, <1>4, <1>5, <1>6, <1>7, <1>8, <1>9, <1>10, <1>11, <1>12, <1>13,
     <1>14, <1>15, <1>16, <1>17, <1>18, <1>19, <1>20, <1>21, <1>22, <1>23, <1>24, <1>25, <1>26,
     <1>27, <1>28, <1>29
  DEF IrcStep, Network

(* The switch thread leaves them alone, and brings no connection to life. *)
LEMMA SwitchFlowStep ==
  ASSUME FlowInv, SwitchStep \/ Flip
  PROVE  FlowInv'
<1> USE OutcomeFacts DEF FlowInv, OnStale, Working, ircLocals, ircServer, ircBounds, ircVars,
      sharedVars
<1>1. ASSUME ReadSwitch PROVE FlowInv'
  BY <1>1 DEF ReadSwitch, AfterUpload
<1>2. ASSUME Upload PROVE FlowInv'
  BY <1>2 DEF Upload, AfterUpload
<1>3. ASSUME UploadFails PROVE FlowInv'
  BY <1>3 DEF UploadFails, AfterUpload
<1>4. ASSUME CheckIrc PROVE FlowInv'
  BY <1>4 DEF CheckIrc
<1>5. ASSUME Request PROVE FlowInv'
  BY <1>5 DEF Request
<1>6. ASSUME RequestsDone PROVE FlowInv'
  BY <1>6 DEF RequestsDone
<1>7. ASSUME NEW o \in Outcomes, GetTopic(o) PROVE FlowInv'
  BY <1>7 DEF GetTopic, Transmit, Disconnects, ServeTopicQuery, TopicLine, Line
<1>8. ASSUME Flip PROVE FlowInv'
  BY <1>8 DEF Flip
<1>. QED
  BY <1>1, <1>2, <1>3, <1>4, <1>5, <1>6, <1>7, <1>8
  DEF SwitchStep

(* Only with noise is there a line that cannot be read. *)
LEMMA IrcReadableStep ==
  ASSUME IrcTypeOK, LocalInv, ReadableInv, IrcStep \/ Network
  PROVE  ReadableInv'
<1> USE DEF ReadableInv, Unread, ircLocals, ircServer, ircBounds, ircVars, sharedVars
<1>1. ASSUME ConnectSucceeds PROVE ReadableInv'
  BY <1>1, RangeEmpty DEF ConnectSucceeds, ReadableInv, Unread
<1>2. ASSUME ConnectFails PROVE ReadableInv'
  BY <1>2 DEF ConnectFails, AfterConnect
<1>3. ASSUME SetConnected PROVE ReadableInv'
  BY <1>3 DEF SetConnected, Jump
<1>4. ASSUME Register PROVE ReadableInv'
  BY <1>4 DEF Register
<1>5. ASSUME CheckConnected PROVE ReadableInv'
  BY <1>5 DEF CheckConnected, Jump
<1>6. ASSUME PollData PROVE ReadableInv'
  BY <1>6, RangeEmpty DEF PollData, ReadableInv, Unread
<1>7. ASSUME PollReset PROVE ReadableInv'
  BY <1>7 DEF PollReset
<1>8. ASSUME PollTimeout PROVE ReadableInv'
  BY <1>8 DEF PollTimeout, Jump
<1>9. ASSUME DrainEmpty PROVE ReadableInv'
  BY <1>9 DEF DrainEmpty, Jump
<1>10. ASSUME Sleep PROVE ReadableInv'
  BY <1>10 DEF Sleep, Jump
<1>11. ASSUME HandleWelcome PROVE ReadableInv'
  <2>1. Range(Tail(lines)) \subseteq Range(lines)
    BY <1>11, FirstLine DEF HandleWelcome, NextLine
  <2>. QED
    BY <1>11, <2>1 DEF HandleWelcome, ReadableInv, Unread
<1>12. ASSUME HandleTopic PROVE ReadableInv'
  <2>1. Range(Tail(lines)) \subseteq Range(lines)
    BY <1>12, FirstLine DEF HandleTopic, NextLine
  <2>. QED
    BY <1>12, <2>1 DEF HandleTopic, ReadableInv, Unread
<1>13. ASSUME HandleGarbled PROVE ReadableInv'
  BY <1>13, RangeEmpty DEF HandleGarbled, ReadableInv, Unread
<1>14. ASSUME LinesDone PROVE ReadableInv'
  BY <1>14 DEF LinesDone, Jump
<1>15. ASSUME JoinOnStale PROVE ReadableInv'
  BY <1>15, RangeEmpty DEF JoinOnStale, Unwind, ReadableInv, Unread
<1>16. ASSUME JoinDone PROVE ReadableInv'
  BY <1>16 DEF JoinDone, Jump
<1>17. ASSUME FlagDisconnect PROVE ReadableInv'
  BY <1>17 DEF FlagDisconnect, Jump
<1>18. ASSUME FlagReconnect PROVE ReadableInv'
  BY <1>18 DEF FlagReconnect
<1>19. ASSUME Reregister PROVE ReadableInv'
  BY <1>19 DEF Reregister
<1>20. ASSUME DelRequest PROVE ReadableInv'
  BY <1>20 DEF DelRequest
<1>21. ASSUME NEW o \in Outcomes, Drain(o) PROVE ReadableInv'
  BY <1>21 DEF Drain, ServePrivmsg, ReadableInv, Unread
<1>22. ASSUME NEW o \in Outcomes, Join(o) PROVE ReadableInv'
  <2>1. Head(toJoin) \in Channels
    BY <1>22 DEF Join, IrcTypeOK
  <2>2. Range(inbox') \subseteq Range(inbox) \cup {Line("topic", Head(toJoin))}
    BY <1>22, <2>1, AnswerRange DEF Join
  <2>3. Range(lines') \subseteq Range(lines) /\ UNCHANGED noise
    BY <1>22, RangeEmpty DEF Join, Unwind, ircBounds
  <2>. QED
    BY <2>1, <2>2, <2>3, LineKinds DEF ReadableInv, Unread
<1>23. ASSUME NEW o \in Outcomes, Rejoin(o) PROVE ReadableInv'
  <2>1. Head(toRejoin) \in Channels
    BY <1>23 DEF Rejoin, IrcTypeOK
  <2>2. Range(inbox') \subseteq Range(inbox) \cup {Line("topic", Head(toRejoin))}
    BY <1>23, <2>1, AnswerRange DEF Rejoin
  <2>. QED
    BY <1>23, <2>1, <2>2, LineKinds DEF Rejoin, ReadableInv, Unread, ircBounds
<1>24. ASSUME NEW o \in Outcomes, SetTopic(o) PROVE ReadableInv'
  <2>1. Range(lines') \subseteq Range(lines) /\ UNCHANGED <<inbox, noise>>
    BY <1>24, RangeEmpty DEF SetTopic, ServeTopicChange, Unwind, ircBounds
  <2>. QED
    BY <2>1 DEF ReadableInv, Unread
<1>25. ASSUME Welcome PROVE ReadableInv'
  <2>1. Range(inbox') = Range(inbox) \cup {WelcomeLine}
    BY <1>25, LineKinds, RangeAppend DEF Welcome, LocalInv, WelcomeLine
  <2>. QED
    BY <1>25, <2>1, LineKinds DEF Welcome, ReadableInv, Unread
<1>26. ASSUME DropConnection PROVE ReadableInv'
  <2>1. Range(inbox') \subseteq Range(inbox)
    BY <1>26, RangeEmpty DEF DropConnection
  <2>. QED
    BY <1>26, <2>1 DEF DropConnection, ReadableInv, Unread
<1>27. ASSUME GarbledLine PROVE ReadableInv'
  <2>1. noise' # 0
    BY <1>27 DEF GarbledLine, ReadableInv
  <2>. QED
    BY <1>27, <2>1 DEF GarbledLine, ReadableInv
<1>28. ASSUME DrainUnencoded PROVE ReadableInv'
  <2>1. noise' \in Nat /\ noise' # 0
    BY <1>28 DEF DrainUnencoded, Unencodable
  <2>. QED
    BY <2>1
<1>29. ASSUME SetTopicUnencoded PROVE ReadableInv'
  <2>1. noise' \in Nat /\ noise' # 0
    BY <1>29 DEF SetTopicUnencoded, Unencodable
  <2>. QED
    BY <2>1
<1>. QED
  BY <1>1, <1>2, <1>3, <1>4, <1>5, <1>6, <1>7, <1>8, <1>9, <1>10, <1>11, <1>12, <1>13,
     <1>14, <1>15, <1>16, <1>17, <1>18, <1>19, <1>20, <1>21, <1>22, <1>23, <1>24, <1>25, <1>26,
     <1>27, <1>28, <1>29
  DEF IrcStep, Network

(* A query is answered with a line that can be read. *)
LEMMA SwitchReadableStep ==
  ASSUME SwitchTypeOK, LocalInv, ReadableInv, SwitchStep \/ Flip
  PROVE  ReadableInv'
<1> USE DEF ReadableInv, Unread, ircLocals, ircServer, ircBounds, ircVars, sharedVars
<1>1. ASSUME ReadSwitch PROVE ReadableInv'
  BY <1>1 DEF ReadSwitch, AfterUpload
<1>2. ASSUME Upload PROVE ReadableInv'
  BY <1>2 DEF Upload, AfterUpload
<1>3. ASSUME UploadFails PROVE ReadableInv'
  BY <1>3 DEF UploadFails, AfterUpload
<1>4. ASSUME CheckIrc PROVE ReadableInv'
  BY <1>4 DEF CheckIrc
<1>5. ASSUME Request PROVE ReadableInv'
  BY <1>5 DEF Request
<1>6. ASSUME RequestsDone PROVE ReadableInv'
  BY <1>6 DEF RequestsDone
<1>7. ASSUME NEW o \in Outcomes, GetTopic(o) PROVE ReadableInv'
  <2>1. Head(asking) \in Channels
    BY <1>7 DEF GetTopic, SwitchTypeOK
  <2>2. Range(inbox') \subseteq Range(inbox) \cup {Line("topic", Head(asking))}
    BY <1>7, <2>1, AnswerRange DEF GetTopic
  <2>. QED
    BY <1>7, <2>1, <2>2, LineKinds DEF GetTopic
<1>8. ASSUME Flip PROVE ReadableInv'
  BY <1>8 DEF Flip
<1>. QED
  BY <1>1, <1>2, <1>3, <1>4, <1>5, <1>6, <1>7, <1>8
  DEF SwitchStep

(* What is sent while the connection is up arrives. *)
LEMMA UpMeansSent == ASSUME NEW o \in Outcomes, sock = "up" PROVE o = "sent"
BY DEF Outcomes

(* The welcome is handled once, with all joins, or is lost before any. *)
LEMMA IrcWelcomeStep ==
  ASSUME IrcTypeOK, LocalInv, FlowInv, ReadableInv, WelcomeInv, IrcStep \/ Network
  PROVE  WelcomeInv'
<1> USE IrcAssumption DEF FlowInv, WelcomeInv, Fresh, NotWelcomed, WelcomeUnread, WelcomeRead,
      Unread, ircLocals, ircServer, ircBounds, ircVars, sharedVars
<1>1. ASSUME ConnectSucceeds PROVE WelcomeInv'
  BY <1>1, RangeEmpty DEF ConnectSucceeds, AfterConnect, OnStale
<1>2. ASSUME ConnectFails PROVE WelcomeInv'
  BY <1>2 DEF ConnectFails, AfterConnect
<1>3. ASSUME SetConnected PROVE WelcomeInv'
  BY <1>3 DEF SetConnected, Jump
<1>4. ASSUME Register PROVE WelcomeInv'
  BY <1>4 DEF Register
<1>5. ASSUME CheckConnected PROVE WelcomeInv'
  BY <1>5 DEF CheckConnected, Jump
<1>6. ASSUME PollData PROVE WelcomeInv'
  BY <1>6, RangeEmpty DEF PollData, OnStale
<1>7. ASSUME PollReset PROVE WelcomeInv'
  BY <1>7 DEF PollReset
<1>8. ASSUME PollTimeout PROVE WelcomeInv'
  BY <1>8 DEF PollTimeout, Jump
<1>9. ASSUME DrainEmpty PROVE WelcomeInv'
  BY <1>9 DEF DrainEmpty, Jump
<1>10. ASSUME Sleep PROVE WelcomeInv'
  BY <1>10 DEF Sleep, Jump
<1>11. ASSUME HandleWelcome PROVE WelcomeInv'
  <2>1. Head(lines) = WelcomeLine /\ WelcomeLine \in Range(lines)
    BY <1>11, FirstLine, LineKinds DEF HandleWelcome, NextLine
  <2>2. CASE Fresh /\ sock = "up"
    <3>1. registered /\ "welcome" \in handlers
      BY <1>11, <2>1, <2>2 DEF HandleWelcome, NextLine
    <3>2. toJoin' = ChannelList /\ UNCHANGED <<handlers, registered, joined>>
      BY <1>11, <3>1 DEF HandleWelcome
    <3>. QED
      BY <3>1, <3>2 DEF Channels
  <2>3. CASE ~(Fresh /\ sock = "up")
    BY <1>11, <2>3 DEF HandleWelcome, NextLine
  <2>. QED
    BY <2>2, <2>3
<1>12. ASSUME HandleTopic PROVE WelcomeInv'
  <2>1. Head(lines) # WelcomeLine /\ Range(lines) = {Head(lines)} \cup Range(lines')
    BY <1>12, FirstLine, LineKinds DEF HandleTopic, NextLine
  <2>. QED
    BY <1>12, <2>1 DEF HandleTopic, NextLine
<1>13. ASSUME HandleGarbled PROVE WelcomeInv'
  <2>1. Head(lines) \in Unread /\ Head(lines).event = "garbled"
    BY <1>13, FirstLine DEF HandleGarbled, NextLine
  <2>2. noise # 0
    BY <2>1 DEF ReadableInv
  <2>. QED
    BY <1>13, <2>2, RangeEmpty DEF HandleGarbled, NextLine
<1>14. ASSUME LinesDone PROVE WelcomeInv'
  BY <1>14 DEF LinesDone, Jump
<1>15. ASSUME JoinOnStale PROVE WelcomeInv'
  BY <1>15 DEF JoinOnStale, Unwind
<1>16. ASSUME JoinDone PROVE WelcomeInv'
  BY <1>16 DEF JoinDone, Jump
<1>17. ASSUME FlagDisconnect PROVE WelcomeInv'
  BY <1>17 DEF FlagDisconnect, Jump
<1>18. ASSUME FlagReconnect PROVE WelcomeInv'
  BY <1>18 DEF FlagReconnect
<1>19. ASSUME Reregister PROVE WelcomeInv'
  <2>1. "welcome" \notin handlers' /\ ircPc' \notin {"register", "setConnected"}
    BY <1>19 DEF Reregister, IrcTypeOK
  <2>. QED
    BY <2>1
<1>20. ASSUME DelRequest PROVE WelcomeInv'
  BY <1>20 DEF DelRequest
<1>21. ASSUME NEW o \in Outcomes, Drain(o) PROVE WelcomeInv'
  BY <1>21 DEF Drain, Transmit, Disconnects, ServePrivmsg
<1>22. ASSUME NEW o \in Outcomes, Join(o) PROVE WelcomeInv'
  <2> DEFINE ch == Head(toJoin)
  <2>1. /\ toJoin # <<>> /\ ch \in Channels /\ Range(toJoin) = {ch} \cup Range(Tail(toJoin))
    BY <1>22, RangeTail DEF Join, IrcTypeOK
  <2>2. CASE WelcomeRead /\ sock' = "up"
    <3>1. sock = "up" /\ o = "sent"
      BY <1>22, <2>2, UpMeansSent DEF Join, Transmit
    <3>2. /\ joined' = joined \cup {ch} /\ toJoin' = Tail(toJoin)
          /\ UNCHANGED <<registered, lines, handlers>>
      BY <1>22, <2>2, <3>1 DEF Join, ServeJoin
    <3>3. Range(inbox') \subseteq Range(inbox) \cup {Line("topic", ch)}
      BY <1>22, <2>1, AnswerRange DEF Join
    <3>. QED
      BY <2>1, <2>2, <3>2, <3>3, LineKinds
  <2>3. CASE ~(Fresh /\ sock' = "up")
    BY <1>22, <2>3 DEF Join, Unwind
  <2>4. ASSUME Fresh, sock' = "up" PROVE sock = "up"
    BY <1>22, <2>4 DEF Join, Transmit
  <2>. QED
    BY <2>1, <2>2, <2>3, <2>4
<1>23. ASSUME NEW o \in Outcomes, Rejoin(o) PROVE WelcomeInv'
  BY <1>23 DEF Rejoin, Transmit, ServeJoin, TopicLine, Line
<1>24. ASSUME NEW o \in Outcomes, SetTopic(o) PROVE WelcomeInv'
  <2>1. CASE sock' = "up"
    <3>1. sock = "up" /\ o = "sent"
      BY <1>24, <2>1, UpMeansSent DEF SetTopic, Transmit
    <3>. QED
      BY <1>24, <3>1 DEF SetTopic, Disconnects, ServeTopicChange
  <2>2. CASE sock' # "up"
    BY <2>2
  <2>. QED
    BY <2>1, <2>2
<1>25. ASSUME Welcome PROVE WelcomeInv'
  <2>1. WelcomeLine \in Range(inbox')
    BY <1>25, LineKinds, RangeAppend DEF Welcome, LocalInv, WelcomeLine
  <2>. QED
    BY <1>25, <2>1 DEF Welcome
<1>26. ASSUME DropConnection PROVE WelcomeInv'
  BY <1>26 DEF DropConnection
<1>27. ASSUME GarbledLine PROVE WelcomeInv'
  <2>1. Range(inbox') = Range(inbox) \cup {Line("garbled", NoTopic)}
    BY <1>27, LineKinds, RangeAppend DEF GarbledLine, LocalInv
  <2>2. WelcomeLine # Line("garbled", NoTopic) /\ noise' # 0
    BY <1>27, LineKinds DEF GarbledLine, ReadableInv
  <2>. QED
    BY <1>27, <2>1, <2>2 DEF GarbledLine
<1>28. ASSUME DrainUnencoded PROVE WelcomeInv'
  <2>1. noise' # 0
    BY <1>28 DEF DrainUnencoded, Unencodable, ReadableInv
  <2>. QED
    BY <1>28, <2>1 DEF DrainUnencoded
<1>29. ASSUME SetTopicUnencoded PROVE WelcomeInv'
  <2>1. noise' # 0
    BY <1>29 DEF SetTopicUnencoded, Unencodable, ReadableInv
  <2>. QED
    BY <1>29, <2>1, RangeEmpty DEF SetTopicUnencoded
<1>. QED
  BY <1>1, <1>2, <1>3, <1>4, <1>5, <1>6, <1>7, <1>8, <1>9, <1>10, <1>11, <1>12, <1>13,
     <1>14, <1>15, <1>16, <1>17, <1>18, <1>19, <1>20, <1>21, <1>22, <1>23, <1>24, <1>25, <1>26,
     <1>27, <1>28, <1>29
  DEF IrcStep, Network

(* Before the bot has joined, a query is not answered. *)
LEMMA SwitchWelcomeStep ==
  ASSUME SwitchTypeOK, LocalInv, WelcomeInv, SwitchStep \/ Flip
  PROVE  WelcomeInv'
<1> USE DEF WelcomeInv, Fresh, NotWelcomed, WelcomeUnread, WelcomeRead, Unread, ircLocals,
      ircServer, ircBounds, ircVars, sharedVars
<1>1. ASSUME ReadSwitch PROVE WelcomeInv'
  BY <1>1 DEF ReadSwitch, AfterUpload
<1>2. ASSUME Upload PROVE WelcomeInv'
  BY <1>2 DEF Upload, AfterUpload
<1>3. ASSUME UploadFails PROVE WelcomeInv'
  BY <1>3 DEF UploadFails, AfterUpload
<1>4. ASSUME CheckIrc PROVE WelcomeInv'
  BY <1>4 DEF CheckIrc
<1>5. ASSUME Request PROVE WelcomeInv'
  BY <1>5 DEF Request
<1>6. ASSUME RequestsDone PROVE WelcomeInv'
  BY <1>6 DEF RequestsDone
<1>7. ASSUME NEW o \in Outcomes, GetTopic(o) PROVE WelcomeInv'
  <2> DEFINE ch == Head(asking)
  <2>1. ch \in Channels
    BY <1>7 DEF GetTopic, SwitchTypeOK
  <2>2. /\ inbox' # inbox => ch \in joined
        /\ Range(inbox) \subseteq Range(inbox')
    BY <1>7, <2>1, AnswerRange DEF GetTopic, ServeTopicQuery
  <2>3. sock' = "up" => sock = "up"
    BY <1>7 DEF GetTopic, Transmit
  <2>. QED
    BY <1>7, <2>1, <2>2, <2>3, LineKinds DEF GetTopic, ServeTopicQuery
<1>8. ASSUME Flip PROVE WelcomeInv'
  BY <1>8 DEF Flip
<1>. QED
  BY <1>1, <1>2, <1>3, <1>4, <1>5, <1>6, <1>7, <1>8
  DEF SwitchStep

(* While the link is gone the bot is in no channel. *)
LEMMA NotJoined == ASSUME FlowInv, sock # "up" PROVE joined = {}
BY DEF FlowInv

(* Nothing is asked of a bot that is in no channel, nor after noise. *)
LEMMA NothingRequested == ASSUME joined' = {} \/ noise' # 0 PROVE RequestInv'
BY DEF RequestInv

(* onTopic forgets no request that is not carried out. *)
LEMMA IrcRequestStep ==
  ASSUME IrcTypeOK, LocalInv, FlowInv, ReadableInv, RequestInv, UNCHANGED switchVars,
        IrcStep \/ Network
  PROVE  RequestInv'
<1> USE DEF OnStale, RequestInv, Requested, Attended, AnswerUnread, switchVars, ircLocals,
      ircServer, ircBounds, ircVars, sharedVars
<1>1. ASSUME ConnectSucceeds PROVE RequestInv'
  BY <1>1, NothingRequested DEF ConnectSucceeds
<1>2. ASSUME ConnectFails PROVE RequestInv'
  BY <1>2 DEF ConnectFails, AfterConnect
<1>3. ASSUME SetConnected PROVE RequestInv'
  BY <1>3 DEF SetConnected, Jump
<1>4. ASSUME Register PROVE RequestInv'
  BY <1>4 DEF Register
<1>5. ASSUME CheckConnected PROVE RequestInv'
  BY <1>5 DEF CheckConnected, Jump
<1>6. ASSUME PollData PROVE RequestInv'
  BY <1>6, RangeEmpty DEF PollData, OnStale, FlowInv, RequestInv, Requested, Attended,
        AnswerUnread
<1>7. ASSUME PollReset PROVE RequestInv'
  BY <1>7, NotJoined, NothingRequested DEF PollReset
<1>8. ASSUME PollTimeout PROVE RequestInv'
  BY <1>8 DEF PollTimeout, Jump
<1>9. ASSUME DrainEmpty PROVE RequestInv'
  BY <1>9 DEF DrainEmpty, Jump
<1>10. ASSUME Sleep PROVE RequestInv'
  BY <1>10 DEF Sleep, Jump
<1>11. ASSUME HandleWelcome PROVE RequestInv'
  <2>1. /\ Head(lines).event = "welcome" /\ lines # <<>> /\ lines' = Tail(lines)
        /\ Range(lines) = {Head(lines)} \cup Range(Tail(lines))
        /\ ircPc = "lines" /\ ircPc' \in {"lines", "join"}
        /\ UNCHANGED <<inbox, noise, joined, topic, channelPrefixMap, newTopic, swPc, asking>>
    BY <1>11, FirstLine DEF HandleWelcome, NextLine
  <2>2. \A ch \in Channels : AnswerUnread(ch) => AnswerUnread(ch)'
    BY <2>1, LineKinds DEF AnswerUnread, OnStale
  <2>3. joined \subseteq Channels
    BY DEF IrcTypeOK
  <2>. QED
    BY <2>1, <2>2, <2>3 DEF RequestInv, Requested, Attended
<1>12. ASSUME HandleTopic PROVE RequestInv'
  <2> DEFINE c == Head(lines).channel
  <2>1. /\ lines # <<>> /\ lines' = Tail(lines)
        /\ Range(lines) = {Head(lines)} \cup Range(Tail(lines)) /\ c \in Channels
        /\ ircPc = "lines" /\ ircPc' \in {"lines", "setTopic"}
        /\ UNCHANGED <<inbox, noise, joined, topic, channelPrefixMap, swPc, asking>>
    BY <1>12, FirstLine, LineTypes DEF HandleTopic, NextLine
  <2>2. \A ch \in Channels : ch # c /\ AnswerUnread(ch) => AnswerUnread(ch)'
    BY <2>1, LineKinds DEF AnswerUnread, OnStale
  <2>3. joined \subseteq Channels /\ newTopic = <<>>
    BY <2>1 DEF IrcTypeOK, FlowInv
  <2>4. joined # {} => "topic" \in handlers
    BY <2>1 DEF FlowInv, Working
  <2>5. joined # {} /\ channelPrefixMap[c] # NoTopic => newTopic' # <<>> /\ newTopic'[1] = c
    BY <1>12, <2>4, PairNotEmpty DEF HandleTopic
  <2>. QED
    BY <2>1, <2>2, <2>3, <2>5 DEF RequestInv, Requested, Attended
<1>13. ASSUME HandleGarbled PROVE RequestInv'
  <2>1. Head(lines) \in Unread /\ Head(lines).event = "garbled"
    BY <1>13, FirstLine DEF HandleGarbled, NextLine, Unread
  <2>. QED
    BY <1>13, <2>1, NothingRequested DEF HandleGarbled, ReadableInv
<1>14. ASSUME LinesDone PROVE RequestInv'
  BY <1>14 DEF LinesDone, Jump
<1>15. ASSUME JoinOnStale PROVE RequestInv'
  BY <1>15 DEF JoinOnStale, Unwind, OnStale, FlowInv, RequestInv, Requested, Attended,
        AnswerUnread
<1>16. ASSUME JoinDone PROVE RequestInv'
  BY <1>16 DEF JoinDone, Jump
<1>17. ASSUME FlagDisconnect PROVE RequestInv'
  BY <1>17 DEF FlagDisconnect, Jump
<1>18. ASSUME FlagReconnect PROVE RequestInv'
  <2>1. /\ UNCHANGED <<inbox, lines, noise, joined, topic, channelPrefixMap, newTopic, swPc,
                       asking>>
        /\ OnStale' => OnStale
    BY <1>18 DEF FlagReconnect, OnStale, IrcTypeOK
  <2>. QED
    BY <2>1 DEF RequestInv, Requested, Attended, AnswerUnread
<1>19. ASSUME Reregister PROVE RequestInv'
  <2>1. /\ UNCHANGED <<inbox, lines, noise, joined, topic, channelPrefixMap, newTopic, swPc,
                       asking>>
        /\ OnStale' => OnStale
    BY <1>19 DEF Reregister, OnStale, IrcTypeOK
  <2>. QED
    BY <2>1 DEF RequestInv, Requested, Attended, AnswerUnread
<1>20. ASSUME DelRequest PROVE RequestInv'
  <2>1. /\ UNCHANGED <<inbox, lines, noise, joined, topic, swPc, asking>>
        /\ newTopic # <<>> /\ newTopic \in Channels \X Status
        /\ channelPrefixMap' = [channelPrefixMap EXCEPT ![newTopic[1]] = NoTopic]
        /\ ircPc = "delRequest" /\ ircPc' = "lines"
    BY <1>20 DEF DelRequest, LocalInv, IrcTypeOK
  <2>2. joined \subseteq Channels /\ channelPrefixMap'[newTopic[1]] = NoTopic
    BY <2>1 DEF IrcTypeOK
  <2>3. \A ch \in Channels : ch # newTopic[1] =>
          /\ Attended(ch) => Attended(ch)'
          /\ channelPrefixMap'[ch] = channelPrefixMap[ch]
    BY <2>1 DEF Attended, AnswerUnread, OnStale, IrcTypeOK
  <2>. QED
    BY <2>1, <2>2, <2>3 DEF RequestInv, Requested
<1>21. ASSUME NEW o \in Outcomes, Drain(o) PROVE RequestInv'
  BY <1>21 DEF Drain, ServePrivmsg, OnStale, RequestInv, Requested, Attended, AnswerUnread
<1>22. ASSUME NEW o \in Outcomes, Join(o) PROVE RequestInv'
  <2>1. PICK c \in Channels : c = Head(toJoin)
    BY <1>22 DEF Join, IrcTypeOK
  <2>2. CASE sock # "up"
    BY <1>22, <2>2, NotJoined, OutcomeFacts, NothingRequested DEF Join, ServeJoin
  <2>3. CASE sock = "up"
    <3>1. o = "sent"
      BY <2>3, UpMeansSent
    <3>2. /\ UNCHANGED <<noise, topic, channelPrefixMap, lines, newTopic, swPc, asking, returnTo>>
          /\ UNCHANGED ircPc
          /\ joined' = joined \/ joined' = joined \cup {c}
      BY <1>22, <2>1, <3>1 DEF Join, ServeJoin, Disconnects, ircBounds
    <3>3. /\ Range(inbox) \subseteq Range(inbox')
          /\ joined' # joined /\ topic[c] # NoTopic => Line("topic", c) \in Range(inbox')
      BY <1>22, <2>1, AnswerRange DEF Join
    <3>4. \A ch \in Channels : Attended(ch) => Attended(ch)'
      BY <3>2, <3>3 DEF Attended, AnswerUnread, OnStale
    <3>5. joined' # joined /\ topic[c] # NoTopic => Attended(c)'
      BY <3>3 DEF Attended, AnswerUnread
    <3>6. joined \subseteq Channels
      BY DEF IrcTypeOK
    <3>. QED
      BY <2>1, <3>2, <3>4, <3>5, <3>6 DEF RequestInv, Requested
  <2>. QED
    BY <2>2, <2>3
<1>23. ASSUME NEW o \in Outcomes, Rejoin(o) PROVE RequestInv'
  <2>1. PICK c \in Channels : c = Head(toRejoin)
    BY <1>23 DEF Rejoin, IrcTypeOK
  <2>2. CASE sock # "up"
    BY <1>23, <2>2, NotJoined, OutcomeFacts, NothingRequested DEF Rejoin, ServeJoin
  <2>3. CASE sock = "up"
    <3>1. o = "sent"
      BY <2>3, UpMeansSent
    <3>2. /\ UNCHANGED <<noise, topic, channelPrefixMap, lines, newTopic, swPc, asking, returnTo>>
          /\ UNCHANGED ircPc
          /\ joined' = joined \/ joined' = joined \cup {c}
      BY <1>23, <2>1, <3>1 DEF Rejoin, ServeJoin, Disconnects, ircBounds
    <3>3. /\ Range(inbox) \subseteq Range(inbox')
          /\ joined' # joined /\ topic[c] # NoTopic => Line("topic", c) \in Range(inbox')
      BY <1>23, <2>1, AnswerRange DEF Rejoin
    <3>4. \A ch \in Channels : Attended(ch) => Attended(ch)'
      BY <3>2, <3>3 DEF Attended, AnswerUnread, OnStale
    <3>5. joined' # joined /\ topic[c] # NoTopic => Attended(c)'
      BY <3>3 DEF Attended, AnswerUnread
    <3>6. joined \subseteq Channels
      BY DEF IrcTypeOK
    <3>. QED
      BY <2>1, <3>2, <3>4, <3>5, <3>6 DEF RequestInv, Requested
  <2>. QED
    BY <2>2, <2>3
<1>24. ASSUME NEW o \in Outcomes, SetTopic(o) PROVE RequestInv'
  <2>1. CASE sock # "up"
    BY <1>24, <2>1, NotJoined, NothingRequested DEF SetTopic, ServeTopicChange
  <2>2. CASE sock = "up"
    <3>1. o = "sent"
      BY <2>2, UpMeansSent
    <3>2. /\ UNCHANGED <<inbox, lines, noise, joined, channelPrefixMap, newTopic, swPc, asking>>
          /\ ircPc = "setTopic" /\ ircPc' = "delRequest"
          /\ newTopic # <<>>
          /\ \A ch \in Channels : ch # newTopic[1] => topic'[ch] = topic[ch]
      BY <1>24, <3>1 DEF SetTopic, Disconnects, ServeTopicChange, LocalInv, IrcTypeOK, ircBounds
    <3>3. \A ch \in Channels : Attended(ch) => Attended(ch)'
      BY <3>2 DEF Attended, AnswerUnread, OnStale
    <3>4. Attended(newTopic[1])' /\ joined \subseteq Channels
      BY <3>2 DEF Attended, IrcTypeOK
    <3>. QED
      BY <3>2, <3>3, <3>4 DEF RequestInv, Requested
  <2>. QED
    BY <2>1, <2>2
<1>25. ASSUME Welcome PROVE RequestInv'
  <2>1. Range(inbox) \subseteq Range(inbox')
    BY <1>25, LineKinds, RangeAppend DEF Welcome, LocalInv, WelcomeLine
  <2>. QED
    BY <1>25, <2>1 DEF Welcome, OnStale, RequestInv, Requested, Attended, AnswerUnread
<1>26. ASSUME DropConnection PROVE RequestInv'
  BY <1>26, NothingRequested DEF DropConnection
<1>27. ASSUME GarbledLine PROVE RequestInv'
  <2>1. noise' # 0
    BY <1>27 DEF GarbledLine, ReadableInv
  <2>. QED
    BY <2>1, NothingRequested
<1>28. ASSUME DrainUnencoded PROVE RequestInv'
  <2>1. noise' # 0
    BY <1>28 DEF DrainUnencoded, Unencodable, ReadableInv
  <2>. QED
    BY <2>1, NothingRequested
<1>29. ASSUME SetTopicUnencoded PROVE RequestInv'
  <2>1. noise' # 0
    BY <1>29 DEF SetTopicUnencoded, Unencodable, ReadableInv
  <2>. QED
    BY <2>1, NothingRequested
<1>. QED
  BY <1>1, <1>2, <1>3, <1>4, <1>5, <1>6, <1>7, <1>8, <1>9, <1>10, <1>11, <1>12, <1>13,
     <1>14, <1>15, <1>16, <1>17, <1>18, <1>19, <1>20, <1>21, <1>22, <1>23, <1>24, <1>25, <1>26,
     <1>27, <1>28, <1>29
  DEF IrcStep, Network

(* A request is put in the map before its query is sent. *)
LEMMA SwitchRequestStep ==
  ASSUME IrcTypeOK, SwitchTypeOK, LocalInv, FlowInv, RequestInv, SwitchStep \/ Flip
  PROVE  RequestInv'
<1> USE DEF OnStale, RequestInv, Requested, Attended, AnswerUnread, switchVars, ircLocals,
      ircServer, ircBounds, ircVars, sharedVars
<1>1. ASSUME ReadSwitch PROVE RequestInv'
  BY <1>1 DEF ReadSwitch, AfterUpload
<1>2. ASSUME Upload PROVE RequestInv'
  BY <1>2 DEF Upload, AfterUpload
<1>3. ASSUME UploadFails PROVE RequestInv'
  BY <1>3 DEF UploadFails, AfterUpload
<1>4. ASSUME CheckIrc PROVE RequestInv'
  BY <1>4 DEF CheckIrc
<1>5. ASSUME Request PROVE RequestInv'
  <2>1. /\ UNCHANGED <<inbox, lines, noise, joined, topic, newTopic, asking, ircPc, returnTo>>
        /\ swPc = "request" /\ swPc' = "getTopic"
        /\ \A ch \in Channels : ch # Head(asking) => channelPrefixMap'[ch] = channelPrefixMap[ch]
    BY <1>5 DEF Request, IrcTypeOK
  <2>2. Attended(Head(asking))' /\ joined \subseteq Channels
    BY <2>1 DEF Attended, IrcTypeOK
  <2>3. \A ch \in Channels : Attended(ch) => Attended(ch)'
    BY <2>1 DEF Attended, AnswerUnread, OnStale
  <2>. QED
    BY <2>1, <2>2, <2>3 DEF RequestInv, Requested
<1>6. ASSUME RequestsDone PROVE RequestInv'
  BY <1>6 DEF RequestsDone
<1>7. ASSUME NEW o \in Outcomes, GetTopic(o) PROVE RequestInv'
  <2>1. PICK c \in Channels : c = Head(asking)
    BY <1>7 DEF GetTopic, SwitchTypeOK
  <2>2. UNCHANGED <<lines, noise, joined, topic, channelPrefixMap, newTopic, OnStale>>
    BY <1>7 DEF GetTopic, ServeTopicQuery, OnStale
  <2>3. CASE sock # "up"
    BY <2>2, <2>3, NotJoined, NothingRequested
  <2>4. CASE sock = "up"
    <3>1. /\ Range(inbox) \subseteq Range(inbox')
          /\ c \in joined /\ topic[c] # NoTopic => Line("topic", c) \in Range(inbox')
      BY <1>7, <2>1, <2>4, AnswerRange, UpMeansSent DEF GetTopic
    <3>2. c \in joined /\ topic[c] # NoTopic => Attended(c)'
      BY <3>1 DEF Attended, AnswerUnread
    <3>3. \A ch \in Channels : ch # c /\ Attended(ch) => Attended(ch)'
      BY <2>1, <2>2, <3>1 DEF Attended, AnswerUnread
    <3>4. joined \subseteq Channels
      BY DEF IrcTypeOK
    <3>. QED
      BY <2>1, <2>2, <3>2, <3>3, <3>4 DEF RequestInv, Requested
  <2>. QED
    BY <2>3, <2>4
<1>8. ASSUME Flip PROVE RequestInv'
  BY <1>8 DEF Flip
<1>. QED
  BY <1>1, <1>2, <1>3, <1>4, <1>5, <1>6, <1>7, <1>8
  DEF SwitchStep

(* Every step of the daemon keeps what is waited for on somebody's list. *)
LEMMA AwaitStep == TypesInv /\ AwaitInv /\ [DaemonNext]_daemonVars => AwaitInv'
<1> SUFFICES ASSUME TypesInv, AwaitInv, [DaemonNext]_daemonVars PROVE AwaitInv'
  OBVIOUS
<1> USE DEF TypesInv, AwaitInv
<1>1. CASE UNCHANGED <<ircVars, switchVars, threadLock>>
  <2> USE <1>1 DEF ircVars, ircLocals, ircServer, ircBounds, switchVars
  <2>1. LockInv' /\ FlowInv'
    BY DEF LockInv, FlowInv, OnStale
  <2>2. ReadableInv' /\ WelcomeInv'
    BY DEF ReadableInv, WelcomeInv, Unread, Fresh, NotWelcomed, WelcomeUnread, WelcomeRead
  <2>3. RequestInv'
    BY DEF RequestInv, Requested, Attended, AnswerUnread, OnStale
  <2>. QED
    BY <2>1, <2>2, <2>3
<1>2. CASE Scanner
  BY <1>1, <1>2, ScannerFrame
<1>3. CASE Irc
  <2>1. (IrcStep \/ Network) /\ UNCHANGED switchVars
    BY <1>3 DEF Irc
  <2>2. LockInv' /\ FlowInv' /\ ReadableInv'
    BY <2>1, IrcLockStep, IrcFlowStep, IrcReadableStep
  <2>3. WelcomeInv' /\ RequestInv'
    BY <2>1, IrcWelcomeStep, IrcRequestStep
  <2>. QED
    BY <2>2, <2>3
<1>4. CASE Switch
  <2>1. SwitchStep \/ Flip
    BY <1>4 DEF Switch
  <2>2. LockInv' /\ FlowInv' /\ ReadableInv'
    BY <2>1, SwitchLockStep, SwitchFlowStep, SwitchReadableStep
  <2>3. WelcomeInv' /\ RequestInv'
    BY <2>1, SwitchWelcomeStep, SwitchRequestStep
  <2>. QED
    BY <2>2, <2>3
<1>. QED
  BY <1>1, <1>2, <1>3, <1>4 DEF DaemonNext, daemonVars, sharedVars

(* At the start nothing is waited for. *)
LEMMA AwaitInitial == DaemonInit => AwaitInv
<1> SUFFICES ASSUME DaemonInit PROVE AwaitInv
  OBVIOUS
<1> USE DEF DaemonInit, IrcInit
<1>1. LockInv /\ FlowInv
  BY DEF SwitchInit, SharedInit, LockInv, FlowInv, Working
<1>2. Unread = {}
  BY RangeEmpty DEF Unread
<1>. QED
  BY <1>1, <1>2 DEF AwaitInv, ReadableInv, WelcomeInv, RequestInv

(***************************************************************************)
(* The theorems.                                                           *)
(***************************************************************************)
(* The invariant of what the threads wait for. *)
THEOREM AwaitInvariance == DaemonSpec => []AwaitInv
<1>1. DaemonInit => AwaitInv
  BY AwaitInitial
<1>2. DaemonInv => TypesInv
  BY DEF DaemonInv
<1>3. TypesInv /\ AwaitInv /\ [DaemonNext]_daemonVars => AwaitInv'
  BY AwaitStep
<1>. QED
  BY <1>1, <1>2, <1>3, DaemonInvariance, PTL DEF DaemonSpec

(* OpenSwitchThread.run and onTopic: while every line can be read, no       *)
(* request is left with nobody to carry it out, whatever connections are    *)
(* lost and whichever thread finds that out.                               *)
THEOREM RequestAwaitedTheorem == DaemonSpec => []RequestAwaited
<1>1. AwaitInv => RequestAwaited
  BY DEF AwaitInv, RequestInv, Requested, Attended, AnswerUnread, RequestAwaited
<1>. QED
  BY <1>1, AwaitInvariance, PTL

(* onConnect and the UnicodeDecodeError clause of run: a registered bot      *)
(* whose reactor has the handler is in all its channels or has them still   *)
(* to join; or it is in none, and the welcome is on its way, unless it was  *)
(* lost with a line or a text that a codec refuses.                        *)
THEOREM JoinsAwaitedTheorem == DaemonSpec => []JoinsAwaited
<1>1. AwaitInv => JoinsAwaited
  <2> SUFFICES ASSUME AwaitInv, registered, "welcome" \in handlers PROVE JoinsAwaited
    BY DEF JoinsAwaited
  <2>1. Fresh /\ sock = "up"
    BY DEF AwaitInv, FlowInv, Fresh
  <2>2. WelcomeUnread \/ WelcomeRead
    BY <2>1 DEF AwaitInv, WelcomeInv, NotWelcomed
  <2>3. noise # 0 => noise > 0
    BY DEF AwaitInv, ReadableInv
  <2>. QED
    BY <2>2, <2>3 DEF WelcomeUnread, WelcomeRead, WelcomeLine, Unread, JoinsAwaited
<1>. QED
  BY <1>1, AwaitInvariance, PTL

(* threadLock is kept only by a thread that waits for it itself, in         *)
(* onDisconnect.                                                           *)
THEOREM LockKeptOnlyWhenBlocked ==
  DaemonSpec => [](threadLock # "free" => ircPc = "blocked" \/ swPc = "blocked")
<1>1. DaemonInv /\ AwaitInv => (threadLock # "free" => ircPc = "blocked" \/ swPc = "blocked")
  BY DEF DaemonInv, TypesInv, IrcTypeOK, AwaitInv, LockInv
<1>. QED
  BY <1>1, DaemonInvariance, AwaitInvariance, PTL

(* OpenSwitchThread.getTopic, IrcThread.setConnected, sendIrcMessage: as    *)
(* long as losses of the connection are found by reading, no step ends with *)
(* threadLock taken, so no thread ever waits for it; that a card opens the  *)
(* door whatever the IRC thread does rests on it.                           *)
THEOREM LockNeverKept == ~LateDetection => (DaemonSpec => [](threadLock = "free"))
<1> SUFFICES ASSUME ~LateDetection PROVE DaemonSpec => [](threadLock = "free")
  OBVIOUS
<1>1. AwaitInv => threadLock = "free"
  BY DEF AwaitInv, LockInv
<1>. QED
  BY <1>1, AwaitInvariance, PTL

(***************************************************************************)
(* Losses.                                                                 *)
(***************************************************************************)
(* A reactor made by onDisconnect does not have the handler of losses.      *)
RejoinInv == ircPc \in {"dSetConnected", "dJoin"} => "disconnect" \notin handlers

(* IrcThread.onDisconnect: a loss that has a handler stays until the        *)
(* handler is called, in whichever thread finds it, or another connection   *)
(* is made; a handler that is called under threadLock blocks there.         *)
LossKept ==
    [][sock = "lost" /\ "disconnect" \in handlers =>
         \/ sock' = "lost" /\ "disconnect" \in handlers'
         \/ ircPc' = "dFlag"
         \/ ircPc' = "blocked" \/ swPc' = "blocked"
         \/ ircPc \in {"connect", "dConnect"}]_daemonVars

(* Every step of the daemon keeps that reactor as it is. *)
LEMMA RejoinStep == IrcTypeOK /\ RejoinInv /\ [DaemonNext]_daemonVars => RejoinInv'
<1> SUFFICES ASSUME IrcTypeOK, RejoinInv, [DaemonNext]_daemonVars PROVE RejoinInv'
  OBVIOUS
<1> USE DEF IrcTypeOK, RejoinInv, ircLocals, ircVars
<1>1. CASE UNCHANGED <<ircPc, handlers>>
  BY <1>1
<1>2. CASE Scanner
  BY <1>1, <1>2, ScannerFrame
<1>3. CASE Switch
  BY <1>1, <1>3 DEF Switch, SwitchStep, Flip, ReadSwitch, Upload, UploadFails, CheckIrc,
     Request, RequestsDone, GetTopic
<1>4. CASE ConnectSucceeds \/ ConnectFails \/ SetConnected \/ Register \/ CheckConnected
           \/ PollData \/ PollReset \/ PollTimeout \/ DrainEmpty \/ Sleep
  BY <1>4 DEF ConnectSucceeds, ConnectFails, SetConnected, Register, CheckConnected, PollData,
     PollReset, PollTimeout, DrainEmpty, Sleep, Jump
<1>5. CASE HandleWelcome \/ HandleTopic \/ HandleGarbled \/ LinesDone \/ JoinOnStale \/ JoinDone
  BY <1>5 DEF HandleWelcome, HandleTopic, HandleGarbled, LinesDone, JoinOnStale, JoinDone,
     Unwind, Jump
<1>6. CASE FlagDisconnect \/ FlagReconnect \/ Reregister \/ DelRequest
           \/ DrainUnencoded \/ SetTopicUnencoded
  BY <1>6 DEF FlagDisconnect, FlagReconnect, Reregister, DelRequest, DrainUnencoded,
     SetTopicUnencoded, Jump
<1>7. ASSUME NEW o \in Outcomes, Drain(o) \/ Join(o) \/ Rejoin(o) \/ SetTopic(o)
      PROVE  RejoinInv'
  BY <1>7 DEF Drain, Join, Rejoin, SetTopic, Unwind
<1>8. CASE Network
  BY <1>1, <1>8 DEF Network, Welcome, DropConnection, GarbledLine
<1>. QED
  BY <1>1, <1>2, <1>3, <1>4, <1>5, <1>6, <1>7, <1>8 DEF DaemonNext, Irc, IrcStep, daemonVars

(* What each step does to a loss that has a handler. *)
LEMMA LossStep ==
  ASSUME RejoinInv, [DaemonNext]_daemonVars, sock = "lost", "disconnect" \in handlers
  PROVE  \/ sock' = "lost" /\ "disconnect" \in handlers'
         \/ ircPc' = "dFlag"
         \/ ircPc' = "blocked" \/ swPc' = "blocked"
         \/ ircPc \in {"connect", "dConnect"}
<1> USE DEF RejoinInv, Disconnects, Transmit, ircLocals, ircVars
<1>1. CASE UNCHANGED <<sock, handlers>>
  BY <1>1
<1>2. CASE Scanner
  BY <1>1, <1>2, ScannerFrame
<1>3. CASE Switch
  BY <1>3 DEF Switch, SwitchStep, Flip, ReadSwitch, Upload, UploadFails, CheckIrc, Request,
     RequestsDone, GetTopic
<1>4. CASE ConnectSucceeds \/ ConnectFails \/ PollReset
  BY <1>4 DEF ConnectSucceeds, ConnectFails, PollReset
<1>5. CASE SetConnected \/ CheckConnected \/ PollData \/ PollTimeout \/ DrainEmpty \/ Sleep
           \/ LinesDone \/ JoinDone \/ FlagDisconnect
  BY <1>5 DEF SetConnected, CheckConnected, PollData, PollTimeout, DrainEmpty, Sleep, LinesDone,
     JoinDone, FlagDisconnect, Jump
<1>6. CASE Register \/ HandleWelcome \/ HandleTopic \/ HandleGarbled \/ JoinOnStale
           \/ FlagReconnect \/ Reregister \/ DelRequest \/ DrainUnencoded \/ SetTopicUnencoded
  BY <1>6 DEF Register, HandleWelcome, HandleTopic, HandleGarbled, JoinOnStale, FlagReconnect,
     Reregister, DelRequest, DrainUnencoded, SetTopicUnencoded
<1>7. ASSUME NEW o \in Outcomes, Drain(o) \/ Join(o) \/ SetTopic(o)
      PROVE  (sock' = "lost" /\ "disconnect" \in handlers') \/ ircPc' \in {"dFlag", "blocked"}
  BY <1>7, OutcomeFacts DEF Drain, Join, SetTopic
<1>8. ASSUME NEW o \in Outcomes, Rejoin(o) PROVE FALSE
  BY <1>8 DEF Rejoin
<1>9. CASE Network
  BY <1>9 DEF Network, Welcome, DropConnection, GarbledLine
<1>. QED
  BY <1>1, <1>2, <1>3, <1>4, <1>5, <1>6, <1>7, <1>8, <1>9
  DEF DaemonNext, Irc, IrcStep, daemonVars

(* No loss that has a handler is passed over; that it is found, and         *)
(* HandledLossReconnects with it, then only needs the thread to read.       *)
THEOREM LossKeptTheorem == DaemonSpec => LossKept
<1> DEFINE Kept == sock = "lost" /\ "disconnect" \in handlers =>
                     \/ sock' = "lost" /\ "disconnect" \in handlers'
                     \/ ircPc' = "dFlag"
                     \/ ircPc' = "blocked" \/ swPc' = "blocked"
                     \/ ircPc \in {"connect", "dConnect"}
<1>1. DaemonInit => RejoinInv
  BY DEF DaemonInit, IrcInit, RejoinInv
<1>2. DaemonInv /\ RejoinInv /\ [DaemonNext]_daemonVars => RejoinInv'
  BY RejoinStep DEF DaemonInv, TypesInv
<1>3. RejoinInv /\ [DaemonNext]_daemonVars => [Kept]_daemonVars
  BY LossStep
<1>. QED
  BY <1>1, <1>2, <1>3, DaemonInvariance, PTL DEF DaemonSpec, LossKept
==============================================================================
