------------------------------ MODULE IrcThread ------------------------------
(***************************************************************************)
(* class IrcThread of brmdoor_nfc_daemon.py: the thread that keeps a bot   *)
(* connected, announces the scanner's messages in its channels and carries *)
(* out the topic changes OpenSwitchThread asks for; with the irc library   *)
(* and the server as the code sees them.                                   *)
(*                                                                         *)
(* The library reads only in process_once, in this thread.  It writes in   *)
(* the thread that sends; when a write fails it runs the reactor's         *)
(* "disconnect" handlers there and then, with whatever locks the sender    *)
(* holds.  Sending on a connection that is known to be closed raises.      *)
(*                                                                         *)
(* threadLock is not reentrant.  A section that holds it is one step,      *)
(* unless it blocks in the middle: then the thread keeps the lock.         *)
(***************************************************************************)
EXTENDS IrcShared, Naturals, Functions

CONSTANTS ChannelList,    \* config.ircChannels, in order
          NoTopic,        \* a channel without a topic, a map without an entry
          OtherTopic,     \* a topic that does not begin with a status
          OpenText, ClosedText,   \* the texts of a status, "OPEN |" and "CLOSED |"
          LateDetection,  \* may a send be what discovers that the link is gone?
          MaxDrops,       \* bound: connections lost
          MaxNoise        \* bound: lines and texts a codec refuses

Channels == Range(ChannelList)

(* A status of the switch, tagged with its number among those the switch    *)
(* has had.  The code compares the texts only.                             *)
Status == [text : {OpenText, ClosedText}, no : Nat]

ASSUME IrcAssumption ==
    /\ LateDetection \in BOOLEAN
    /\ NoTopic \notin Status /\ OtherTopic \notin Status /\ NoTopic # OtherTopic
    /\ ChannelList \in Seq(Channels) /\ ChannelList # <<>>
    /\ MaxDrops \in Nat /\ MaxNoise \in Nat

VARIABLES ircPc,       \* where the thread is
          attempt,     \* local: did connect succeed?
          handlers,    \* events with a handler on the current reactor
          lines,       \* lines process_once has read and not yet handled
          toJoin,      \* channels onConnect has still to join
          toRejoin,    \* channels onDisconnect has still to join
          returnTo,    \* where onDisconnect returns to
          newTopic,    \* local of onTopic: <<channel, status>>, or <<>>
          channelPrefixMap,   \* the global map of requested topic prefixes
          sock,        \* self.connection: "none", "up", "lost" (not yet noticed), "closed"
          inbox,       \* lines on their way to the bot
          registered, joined,  \* the server's view of the bot
          topic,       \* the channels' topics: NoTopic, OtherTopic or a status
          said,        \* history: messages that reached a channel
          drops, noise \* counters of the bounds

ircLocals == <<attempt, handlers, lines, toJoin, toRejoin, returnTo, newTopic>>
ircServer == <<inbox, registered, joined, topic, said>>
ircBounds == <<drops, noise>>
ircVars == <<ircPc, ircLocals, channelPrefixMap, sock, ircServer, ircBounds>>

Line(e, ch) == [event |-> e, channel |-> ch]

IrcInit ==
    /\ ircPc = "connect"
    /\ attempt = FALSE
    /\ handlers = {}
    /\ lines = <<>> /\ toJoin = <<>> /\ toRejoin = <<>>
    /\ returnTo = "drain"
    /\ newTopic = <<>>
    /\ channelPrefixMap = [ch \in Channels |-> NoTopic]
    /\ sock = "none"
    /\ inbox = <<>> /\ registered = FALSE /\ joined = {}
    /\ topic \in [Channels -> {NoTopic, OtherTopic}]
    /\ said = <<>>
    /\ drops = 0 /\ noise = 0

(***************************************************************************)
(* Sending, as the library does it.                                        *)
(***************************************************************************)
Outcomes ==
    CASE sock = "up" -> {"sent"}
      [] sock = "lost" -> IF LateDetection THEN {"swallowed", "reset"} ELSE {"swallowed"}
      [] OTHER -> {"raised"}

(* A reset runs onDisconnect in the sender, when it is registered. *)
Disconnects(o) == o = "reset" /\ "disconnect" \in handlers

Transmit(o) == o \in Outcomes /\ sock' = IF o = "reset" THEN "closed" ELSE sock

(* The 332 line a JOIN or a TOPIC query is answered with. *)
TopicLine(ch) == IF topic[ch] = NoTopic THEN <<>> ELSE <<Line("topic", ch)>>

(* JOIN is refused until the server has registered the bot. *)
ServeJoin(o, ch) ==
    /\ IF o = "sent" /\ registered
         THEN /\ joined' = joined \cup {ch}
              /\ inbox' = inbox \o TopicLine(ch)
         ELSE UNCHANGED <<joined, inbox>>
    /\ UNCHANGED <<registered, topic, said>>

ServeTopicQuery(o, ch) ==
    /\ inbox' = IF o = "sent" /\ ch \in joined THEN inbox \o TopicLine(ch) ELSE inbox
    /\ UNCHANGED <<registered, joined, topic, said>>

ServeTopicChange(o, ch, s) ==
    /\ topic' = IF o = "sent" /\ ch \in joined THEN [topic EXCEPT ![ch] = s] ELSE topic
    /\ UNCHANGED <<inbox, registered, joined, said>>

ServePrivmsg(o, m) ==
    /\ said' = IF o = "sent" /\ joined # {} THEN Append(said, m) ELSE said
    /\ UNCHANGED <<inbox, registered, joined, topic>>

(***************************************************************************)
(* connect, called from run and from onDisconnect.  Every attempt makes a  *)
(* new Reactor, without handlers; a failed one leaves self.connection.     *)
(***************************************************************************)
AfterConnect == IF ircPc = "connect" THEN "setConnected" ELSE "dSetConnected"

ConnectSucceeds ==
    /\ ircPc \in {"connect", "dConnect"}
    /\ ircPc' = AfterConnect
    /\ attempt' = TRUE
    /\ sock' = "up" /\ handlers' = {}
    /\ inbox' = <<>> /\ registered' = FALSE /\ joined' = {}
    /\ UNCHANGED <<lines, toJoin, toRejoin, returnTo, newTopic, channelPrefixMap,
                   topic, said, ircBounds, sharedVars>>

ConnectFails ==
    /\ ircPc \in {"connect", "dConnect"}
    /\ ircPc' = AfterConnect
    /\ attempt' = FALSE
    /\ handlers' = {}
    /\ UNCHANGED <<lines, toJoin, toRejoin, returnTo, newTopic, channelPrefixMap,
                   sock, ircServer, ircBounds, sharedVars>>

(***************************************************************************)
(* run.                                                                    *)
(***************************************************************************)
Jump(there) ==
    /\ ircPc' = there
    /\ UNCHANGED <<ircLocals, channelPrefixMap, sock, ircServer, ircBounds>>

(* After a failed attempt, the next lines raise on self.connection = None   *)
(* or find getConnected false: both lead to the sleep.                      *)
SetConnected ==
    /\ ircPc = "setConnected"
    /\ threadLock = "free"
    /\ connected' = attempt
    /\ Jump(IF attempt THEN "register" ELSE "sleep")
    /\ UNCHANGED <<threadLock, msgQueue>>

Register ==
    /\ ircPc = "register"
    /\ handlers' = {"welcome", "disconnect", "topic"}
    /\ ircPc' = "check"
    /\ UNCHANGED <<attempt, lines, toJoin, toRejoin, returnTo, newTopic,
                   channelPrefixMap, sock, ircServer, ircBounds, sharedVars>>

CheckConnected ==
    /\ ircPc = "check"
    /\ threadLock = "free"
    /\ Jump(IF connected THEN "poll" ELSE "sleep")
    /\ UNCHANGED sharedVars

(* process_once with data: everything that has arrived is read at once. *)
PollData ==
    /\ ircPc = "poll"
    /\ sock \in {"up", "lost"}
    /\ inbox # <<>>
    /\ lines' = inbox /\ inbox' = <<>>
    /\ ircPc' = "lines"
    /\ UNCHANGED <<attempt, handlers, toJoin, toRejoin, returnTo, newTopic, channelPrefixMap,
                   sock, registered, joined, topic, said, ircBounds, sharedVars>>

(* A slip: the end of the stream runs no handler. *)
EndUnhandled ==
    /\ ircPc = "poll"
    /\ sock = "lost" /\ inbox = <<>>
    /\ sock' = "closed"
    /\ ircPc' = "drain"
    /\ UNCHANGED <<ircLocals, channelPrefixMap, ircServer, ircBounds, sharedVars>>

(* process_once reads the end of the stream. *)
PollReset ==
    /\ ircPc = "poll"
    /\ sock = "lost" /\ inbox = <<>>
    /\ sock' = "closed"
    /\ ircPc' = IF "disconnect" \in handlers THEN "dFlag" ELSE "drain"
    /\ returnTo' = "drain"
    /\ UNCHANGED <<attempt, handlers, lines, toJoin, toRejoin, newTopic,
                   channelPrefixMap, ircServer, ircBounds, sharedVars>>

(* process_once times out; with a closed connection it only sleeps. *)
PollTimeout ==
    /\ ircPc = "poll"
    /\ inbox = <<>> \/ sock = "closed"
    /\ Jump("drain")
    /\ UNCHANGED sharedVars

(* The message is taken from the queue before the attempt to send it. *)
Drain(o) ==
    /\ ircPc = "drain"
    /\ threadLock = "free"
    /\ msgQueue # <<>>
    /\ msgQueue' = Tail(msgQueue)
    /\ Transmit(o)
    /\ ServePrivmsg(o, Head(msgQueue))
    /\ threadLock' = IF Disconnects(o) THEN "irc" ELSE "free"
    /\ ircPc' = IF Disconnects(o) THEN "blocked" ELSE IF o = "raised" THEN "sleep" ELSE "check"
    /\ UNCHANGED <<ircLocals, channelPrefixMap, ircBounds, connected>>

(* A text that cannot be encoded raises before anything is written: the     *)
(* message is gone, the thread goes on.                                    *)
Unencodable ==
    /\ sock \in {"up", "lost"}
    /\ noise < MaxNoise
    /\ noise' = noise + 1

DrainUnencoded ==
    /\ ircPc = "drain"
    /\ threadLock = "free"
    /\ msgQueue # <<>>
    /\ Unencodable
    /\ msgQueue' = Tail(msgQueue)
    /\ ircPc' = "check"
    /\ UNCHANGED <<ircLocals, channelPrefixMap, sock, ircServer, drops, threadLock, connected>>

DrainEmpty ==
    /\ ircPc = "drain"
    /\ threadLock = "free"
    /\ msgQueue = <<>>
    /\ Jump("check")
    /\ UNCHANGED sharedVars

(* connected keeps its value through the sleep and the next connect. *)
Sleep ==
    /\ ircPc = "sleep"
    /\ Jump("connect")
    /\ UNCHANGED sharedVars

(***************************************************************************)
(* The lines process_once has read, one event at a time.                   *)
(***************************************************************************)
NextLine(e) == ircPc = "lines" /\ lines # <<>> /\ Head(lines).event = e

(* A slip: only the first channel is joined. *)
FirstChannelOnly ==
    /\ NextLine("welcome")
    /\ lines' = Tail(lines)
    /\ IF "welcome" \in handlers
         THEN ircPc' = "join" /\ toJoin' = <<Head(ChannelList)>>
         ELSE UNCHANGED <<ircPc, toJoin>>
    /\ UNCHANGED <<attempt, handlers, toRejoin, returnTo, newTopic,
                   channelPrefixMap, sock, ircServer, ircBounds, sharedVars>>

HandleWelcome ==
    /\ NextLine("welcome")
    /\ lines' = Tail(lines)
    /\ IF "welcome" \in handlers
         THEN ircPc' = "join" /\ toJoin' = ChannelList
         ELSE UNCHANGED <<ircPc, toJoin>>
    /\ UNCHANGED <<attempt, handlers, toRejoin, returnTo, newTopic,
                   channelPrefixMap, sock, ircServer, ircBounds, sharedVars>>

(* A slip: a topic that already has a prefix is left alone. *)
PrefixedTopicSkipped ==
    /\ NextLine("topic")
    /\ lines' = Tail(lines)
    /\ LET ch == Head(lines).channel IN
         IF "topic" \in handlers /\ channelPrefixMap[ch] # NoTopic /\ topic[ch] = OtherTopic
           THEN ircPc' = "setTopic" /\ newTopic' = <<ch, channelPrefixMap[ch]>>
           ELSE UNCHANGED <<ircPc, newTopic>>
    /\ UNCHANGED <<attempt, handlers, toJoin, toRejoin, returnTo,
                   channelPrefixMap, sock, ircServer, ircBounds, sharedVars>>

(* onTopic reads the request; what it will send and delete is decided here. *)
HandleTopic ==
    /\ NextLine("topic")
    /\ lines' = Tail(lines)
    /\ LET ch == Head(lines).channel IN
         IF "topic" \in handlers /\ channelPrefixMap[ch] # NoTopic
           THEN ircPc' = "setTopic" /\ newTopic' = <<ch, channelPrefixMap[ch]>>
           ELSE UNCHANGED <<ircPc, newTopic>>
    /\ UNCHANGED <<attempt, handlers, toJoin, toRejoin, returnTo,
                   channelPrefixMap, sock, ircServer, ircBounds, sharedVars>>

(* UnicodeDecodeError ends process_once: the lines read with it are lost. *)
HandleGarbled ==
    /\ NextLine("garbled")
    /\ lines' = <<>>
    /\ ircPc' = "check"
    /\ UNCHANGED <<attempt, handlers, toJoin, toRejoin, returnTo, newTopic,
                   channelPrefixMap, sock, ircServer, ircBounds, sharedVars>>

LinesDone ==
    /\ ircPc = "lines" /\ lines = <<>>
    /\ Jump("drain")
    /\ UNCHANGED sharedVars

(* An exception leaves process_once and the inner loop. *)
Unwind ==
    /\ ircPc' = "sleep"
    /\ lines' = <<>> /\ toJoin' = <<>> /\ newTopic' = <<>>

(***************************************************************************)
(* onConnect: joins, on the connection the event came from.  After a reset *)
(* that connection stays closed, whatever onDisconnect has achieved.       *)
(***************************************************************************)
Join(o) ==
    /\ ircPc = "join"
    /\ toJoin # <<>>
    /\ Transmit(o)
    /\ ServeJoin(o, Head(toJoin))
    /\ IF o = "raised"
         THEN Unwind /\ UNCHANGED returnTo
         ELSE /\ toJoin' = Tail(toJoin)
              /\ ircPc' = IF Disconnects(o) THEN "dFlag" ELSE "join"
              /\ returnTo' = IF Disconnects(o) THEN "staleJoin" ELSE returnTo
              /\ UNCHANGED <<lines, newTopic>>
    /\ UNCHANGED <<attempt, handlers, toRejoin, channelPrefixMap, ircBounds, sharedVars>>

JoinOnStale ==
    /\ ircPc = "staleJoin"
    /\ toJoin # <<>>
    /\ Unwind
    /\ UNCHANGED <<attempt, handlers, toRejoin, returnTo,
                   channelPrefixMap, sock, ircServer, ircBounds, sharedVars>>

JoinDone ==
    /\ ircPc \in {"join", "staleJoin"}
    /\ toJoin = <<>>
    /\ Jump("lines")
    /\ UNCHANGED sharedVars

(***************************************************************************)
(* onDisconnect, in this thread.                                           *)
(***************************************************************************)
(* A slip: the lock is acquired and not released. *)
LockKept ==
    /\ ircPc = "dFlag"
    /\ threadLock = "free"
    /\ threadLock' = "irc"
    /\ connected' = FALSE
    /\ Jump("dConnect")
    /\ UNCHANGED msgQueue

FlagDisconnect ==
    /\ ircPc = "dFlag"
    /\ threadLock = "free"
    /\ connected' = FALSE
    /\ Jump("dConnect")
    /\ UNCHANGED <<threadLock, msgQueue>>

(* A slip: the result of the reconnect is not recorded. *)
ReconnectUnrecorded ==
    /\ ircPc = "dSetConnected"
    /\ threadLock = "free"
    /\ ircPc' = IF attempt THEN "dJoin" ELSE returnTo
    /\ toRejoin' = IF attempt THEN ChannelList ELSE <<>>
    /\ UNCHANGED <<attempt, handlers, lines, toJoin, returnTo, newTopic,
                   channelPrefixMap, sock, ircServer, ircBounds, sharedVars>>

FlagReconnect ==
    /\ ircPc = "dSetConnected"
    /\ threadLock = "free"
    /\ connected' = attempt
    /\ ircPc' = IF attempt THEN "dJoin" ELSE returnTo
    /\ toRejoin' = IF attempt THEN ChannelList ELSE <<>>
    /\ UNCHANGED <<attempt, handlers, lines, toJoin, returnTo, newTopic,
                   channelPrefixMap, sock, ircServer, ircBounds, threadLock, msgQueue>>

(* No handler is registered yet: a reset here is silent, what follows it    *)
(* raises and is caught.                                                    *)
Rejoin(o) ==
    /\ ircPc = "dJoin"
    /\ toRejoin # <<>>
    /\ Transmit(o)
    /\ ServeJoin(o, Head(toRejoin))
    /\ toRejoin' = IF o = "raised" THEN <<>> ELSE Tail(toRejoin)
    /\ UNCHANGED <<ircPc, attempt, handlers, lines, toJoin, returnTo, newTopic,
                   channelPrefixMap, ircBounds, sharedVars>>

(* Only the topic handlers are put on the new reactor. *)
Reregister ==
    /\ ircPc = "dJoin"
    /\ toRejoin = <<>>
    /\ handlers' = handlers \cup {"topic"}
    /\ ircPc' = returnTo
    /\ UNCHANGED <<attempt, lines, toJoin, toRejoin, returnTo, newTopic,
                   channelPrefixMap, sock, ircServer, ircBounds, sharedVars>>

(***************************************************************************)
(* onTopic, with a request: setTopic, then the request is removed.         *)
(***************************************************************************)
SetTopic(o) ==
    /\ ircPc = "setTopic"
    /\ threadLock = "free"
    /\ Transmit(o)
    /\ ServeTopicChange(o, newTopic[1], newTopic[2])
    /\ threadLock' = IF Disconnects(o) THEN "irc" ELSE "free"
    /\ IF o = "raised"
         THEN Unwind
         ELSE /\ ircPc' = IF Disconnects(o) THEN "blocked" ELSE "delRequest"
              /\ UNCHANGED <<lines, toJoin, newTopic>>
    /\ UNCHANGED <<attempt, handlers, toRejoin, returnTo, channelPrefixMap,
                   ircBounds, connected, msgQueue>>

(* UnicodeEncodeError ends process_once: the lines left are lost and the    *)
(* request stays in the map.                                               *)
SetTopicUnencoded ==
    /\ ircPc = "setTopic"
    /\ threadLock = "free"
    /\ Unencodable
    /\ lines' = <<>> /\ newTopic' = <<>>
    /\ ircPc' = "check"
    /\ UNCHANGED <<attempt, handlers, toJoin, toRejoin, returnTo,
                   channelPrefixMap, sock, ircServer, drops, sharedVars>>

(* A slip: the old topic is put in the map instead of removing the request. *)
OldTopicKept ==
    /\ ircPc = "delRequest"
    /\ channelPrefixMap' = [channelPrefixMap EXCEPT ![newTopic[1]] = topic[newTopic[1]]]
    /\ newTopic' = <<>>
    /\ ircPc' = "lines"
    /\ UNCHANGED <<attempt, handlers, lines, toJoin, toRejoin, returnTo,
                   sock, ircServer, ircBounds, sharedVars>>

(* A slip: the whole map is emptied. *)
AllRequestsRemoved ==
    /\ ircPc = "delRequest"
    /\ channelPrefixMap' = [ch \in Channels |-> NoTopic]
    /\ newTopic' = <<>>
    /\ ircPc' = "lines"
    /\ UNCHANGED <<attempt, handlers, lines, toJoin, toRejoin, returnTo,
                   sock, ircServer, ircBounds, sharedVars>>

DelRequest ==
    /\ ircPc = "delRequest"
    /\ channelPrefixMap' = [channelPrefixMap EXCEPT ![newTopic[1]] = NoTopic]
    /\ newTopic' = <<>>
    /\ ircPc' = "lines"
    /\ UNCHANGED <<attempt, handlers, lines, toJoin, toRejoin, returnTo,
                   sock, ircServer, ircBounds, sharedVars>>

(***************************************************************************)
(* The server and the network.                                             *)
(***************************************************************************)
Welcome ==
    /\ sock = "up" /\ ~registered
    /\ registered' = TRUE
    /\ inbox' = Append(inbox, Line("welcome", NoTopic))
    /\ UNCHANGED <<ircPc, ircLocals, channelPrefixMap, sock, joined, topic, said,
                   ircBounds, sharedVars>>

DropConnection ==
    /\ sock = "up"
    /\ drops < MaxDrops
    /\ drops' = drops + 1
    /\ sock' = "lost"
    /\ registered' = FALSE /\ joined' = {}
    /\ inbox' \in {inbox, <<>>}
    /\ UNCHANGED <<ircPc, ircLocals, channelPrefixMap, topic, said, noise, sharedVars>>

(* Also before the welcome: a server greets whoever connects.              *)
GarbledLine ==
    /\ sock = "up"
    /\ noise < MaxNoise
    /\ noise' = noise + 1
    /\ inbox' = Append(inbox, Line("garbled", NoTopic))
    /\ UNCHANGED <<ircPc, ircLocals, channelPrefixMap, sock, registered, joined,
                   topic, said, drops, sharedVars>>

IrcStep ==
    \/ ConnectSucceeds \/ ConnectFails \/ SetConnected \/ Register \/ CheckConnected
    \/ PollData \/ PollReset \/ PollTimeout \/ DrainEmpty \/ Sleep
    \/ HandleWelcome \/ HandleTopic \/ HandleGarbled \/ LinesDone
    \/ JoinOnStale \/ JoinDone \/ FlagDisconnect \/ FlagReconnect \/ Reregister
    \/ DelRequest \/ DrainUnencoded \/ SetTopicUnencoded
    \/ \E o \in Outcomes : Drain(o) \/ Join(o) \/ Rejoin(o) \/ SetTopic(o)

Network == Welcome \/ DropConnection \/ GarbledLine

(* Every variable has a value of its kind. *)
IrcTypeOK ==
    /\ ircPc \in {"connect", "setConnected", "register", "check", "poll", "lines",
                  "drain", "sleep", "join", "staleJoin", "dFlag", "dConnect",
                  "dSetConnected", "dJoin", "setTopic", "delRequest", "blocked"}
    /\ threadLock \in {"free", "irc", "switch"}
    /\ connected \in BOOLEAN /\ attempt \in BOOLEAN /\ registered \in BOOLEAN
    /\ handlers \subseteq {"welcome", "disconnect", "topic"}
    /\ toJoin \in Seq(Channels) /\ toRejoin \in Seq(Channels)
    /\ returnTo \in {"drain", "staleJoin"}
    /\ newTopic \in {<<>>} \cup (Channels \X Status)
    /\ channelPrefixMap \in [Channels -> Status \cup {NoTopic}]
    /\ sock \in {"none", "up", "lost", "closed"}
    /\ joined \subseteq Channels
    /\ topic \in [Channels -> Status \cup {NoTopic, OtherTopic}]
==============================================================================
