---------------------------- MODULE BrmdoorDaemon ----------------------------
(***************************************************************************)
(* The daemon: the scanner in the main thread, IrcThread and               *)
(* OpenSwitchThread beside it, sharing threadLock, the connected flag, the *)
(* message queue, the connection and channelPrefixMap.                     *)
(*                                                                         *)
(* What the scanner does without touching anything shared is left to       *)
(* DoorScanner: its loop while there is no card to read, cards leaving the *)
(* field, changes of the database, and interrupts, kills and restarts,     *)
(* which end all threads at once.                                          *)
(***************************************************************************)
EXTENDS DoorScanner, OpenSwitch

daemonVars == <<scannerVars, ircVars, switchVars, sharedVars>>

DaemonInit == ScannerInit /\ IrcInit /\ SwitchInit /\ SharedInit

Visit ==
    \/ Start \/ ScanUID \/ Deliberate \/ SendIrcMessage \/ PutMessage
    \/ Unlock \/ Relock \/ DenyWait

Arrive == \E c \in Card : PlaceCard(c)

Scanner == (Visit \/ Arrive) /\ UNCHANGED <<ircVars, switchVars>>

Irc == UseIRC /\ (IrcStep \/ Network) /\ UNCHANGED <<scannerVars, switchVars>>

Switch == (SwitchStep \/ Flip) /\ UNCHANGED scannerVars

DaemonNext == Scanner \/ Irc \/ Switch

DaemonSpec == DaemonInit /\ [][DaemonNext]_daemonVars

(* Each thread runs, but for the read of an NDEF, which may never return.   *)
(* The connection's end is read and the server registers the bot.  Nothing  *)
(* is assumed of threadLock.                                               *)
DaemonFairness ==
    /\ WF_daemonVars(spc # "ndefRead" /\ Visit /\ UNCHANGED <<ircVars, switchVars>>)
    /\ WF_daemonVars(UseIRC /\ IrcStep /\ UNCHANGED <<scannerVars, switchVars>>)
    /\ WF_daemonVars(SwitchStep /\ UNCHANGED scannerVars)
    /\ SF_daemonVars(UseIRC /\ PollReset /\ UNCHANGED <<scannerVars, switchVars>>)
    /\ WF_daemonVars(UseIRC /\ Welcome /\ UNCHANGED <<scannerVars, switchVars>>)

FairDaemonSpec == DaemonSpec /\ DaemonFairness

(***************************************************************************)
(* Safety.                                                                 *)
(***************************************************************************)
(* Every variable has a value of its kind. *)
DaemonTypeOK == ScannerTypeOK /\ IrcTypeOK /\ SwitchTypeOK

(* NFCScanner.sendIrcMessage to IrcThread.run: what the channels are told  *)
(* is in the order of the visits, each at most once, across lost links,    *)
(* reconnects and exceptions between taking a message and sending it.      *)
AnnouncedInOrder ==
    \A i, j \in 1..Len(said) : i < j => said[i].visit < said[j].visit

(* The same as a refinement: the threads keep the promise of Announcements *)
(* with the queue as the set of its messages, so that what is told is also *)
(* what was decided in the visit it is told of.                            *)
Told == INSTANCE Announcements WITH
    visit <- visits,
    stand <- IF ~InVisit THEN "over" ELSE IF verdict = "none" THEN "open" ELSE verdict,
    waiting <- Range(msgQueue),
    heard <- said

KeepsAnnouncing == Told!AnnounceSpec

(* IrcThread.connect: no attempt is made while a live connection exists;   *)
(* the bot does not come to the server twice.                              *)
NoLiveConnectionAbandoned ==
    ircPc \in {"sleep", "connect", "dConnect"} => sock # "up"

(* IrcThread.setConnected: a live connection is flagged as such, or the    *)
(* thread that made it is about to flag it: the flag is never stuck at     *)
(* false beside a usable connection.                                       *)
LiveConnectionFlagged ==
    sock = "up" /\ ~connected => ircPc \in {"setConnected", "dSetConnected"}

(* OpenSwitchThread.run: while no upload has failed, the web shows the     *)
(* status of which the thread has taken note as soon as it reads again.    *)
PublishedWhenDealtWith ==
    UseUpload /\ uploadFails = 0 /\ swPc \in {"checkIrc", "read"} => published = lastStatus.text

(* OpenSwitchThread.run, getTopic and IrcThread.onTopic: as long as every    *)
(* line can be read and every text be sent, a request in a channel with a   *)
(* topic is never left with nobody to carry it out, across lost connections, *)
(* replies to a JOIN and requests overwritten while they are served: its    *)
(* query is still to be sent, or an answer is on its way, or onTopic is at  *)
(* work on the channel.                                                    *)
RequestAwaited ==
    noise = 0 => \A ch \in joined :
        channelPrefixMap[ch] # NoTopic /\ topic[ch] # NoTopic =>
            \/ swPc = "getTopic" /\ Head(asking) = ch
            \/ Line("topic", ch) \in Range(inbox) \cup Range(lines)
            \/ newTopic # <<>> /\ newTopic[1] = ch

(* onConnect and the UnicodeDecodeError clause of run: on a connection whose *)
(* reactor has the handler, a bot the server has registered is in each      *)
(* channel or still has it to join; or it is in none of them, and the       *)
(* welcome is on its way, or may have been read with a line that cannot be  *)
(* decoded, which takes it along.  It is never left in a part of them.      *)
JoinsAwaited ==
    registered /\ "welcome" \in handlers =>
        \/ Channels \subseteq joined \cup Range(toJoin)
        \/ /\ joined = {}
           /\ Line("welcome", NoTopic) \in Range(inbox) \cup Range(lines) \/ noise > 0

(* OpenSwitchThread.run, channelPrefixMap, IrcThread.onTopic: the statuses  *)
(* a channel's topic shows come in the order in which the switch had them:  *)
(* a request left behind by a lost link, met by the reply to a later JOIN   *)
(* or overwritten while it is served never puts an older status over a      *)
(* newer one.                                                              *)
TopicsForward ==
    [][\A ch \in Channels :
         topic[ch] \in Status /\ topic'[ch] \in Status => topic[ch].no <= topic'[ch].no]_daemonVars

(***************************************************************************)
(* Liveness.                                                               *)
(***************************************************************************)
(* README.md:4-5, "you basically swipe your card, and if it's in database, *)
(* the door unlocks": a scanned card whose UID is listed opens the door,   *)
(* whatever the IRC thread is doing.                                       *)
CardOpensDoor ==
    (spc = "uidQuery" /\ ByUid(db, uid)) ~> (pin = 1)

(* IrcThread.onDisconnect: the loss of a connection whose reactor has the   *)
(* handler leads to another attempt, as long as the loss is found by reading. *)
HandledLossReconnects ==
    (sock = "lost" /\ "disconnect" \in handlers) ~> (ircPc \in {"connect", "dConnect"})

(* README.md:212-215 on a lost connection that is noticed when a message    *)
(* is sent: the message is lost, "but the reconnect will kick in".          *)
ReconnectKicksIn ==
    (sock = "closed") ~> (ircPc \in {"connect", "dConnect"})

(* IrcThread.onDisconnect, "Disconnect handler that attempts reconnect":    *)
(* every loss of the connection leads to another attempt.                   *)
LossReconnects ==
    (sock = "lost") ~> (ircPc \in {"connect", "dConnect"})

(* onConnect: once the server has registered the bot, it is in all its     *)
(* channels, unless the connection goes or a line cannot be decoded.       *)
WelcomeJoinsAll ==
    (registered /\ "welcome" \in handlers) ~> (joined = Channels \/ sock # "up" \/ noise > 0)

(* onTopic is about to delete a request that is not the one it carried out. *)
Overtaken(ch) ==
    /\ ircPc = "delRequest" /\ newTopic[1] = ch
    /\ channelPrefixMap[ch] # newTopic[2]

(* OpenSwitchThread.run and IrcThread.onTopic: a status asked for in a       *)
(* channel with a topic is shown there, it or a newer one, whichever comes  *)
(* first: the request, the reply to its query or to a JOIN, another request. *)
(* The one way of losing it, on a connection that stays up and with texts   *)
(* the codecs take, is that onTopic deletes it with the older request that  *)
(* it has just carried out (run request_race).                             *)
RequestServed ==
    \A ch \in Channels, n \in 0..MaxFlips :
        (channelPrefixMap[ch] # NoTopic /\ channelPrefixMap[ch].no = n /\ topic[ch] # NoTopic)
            ~> \/ topic[ch] \in Status /\ topic[ch].no >= n
               \/ Overtaken(ch)
               \/ noise > 0

(* SpaceAPIUploader and OpenSwitchThread.run: while no upload has failed,   *)
(* the web ends up showing what the switch says.                           *)
WebFollowsSwitch ==
    UseOpenSwitch /\ UseUpload => <>[](uploadFails > 0 \/ published = switchFile.text)

(* onTopic's comments: "Check if there was request to change topic and     *)
(* update it", "remove request": a request is removed when the topic shows  *)
(* the status that it asks for.                                            *)
OnlyServedRequestRemoved ==
    [][\A ch \in Channels :
         channelPrefixMap[ch] # NoTopic /\ channelPrefixMap'[ch] = NoTopic
             => topic[ch] = channelPrefixMap[ch]]_daemonVars
==============================================================================
