----------------------------- MODULE OpenSwitch -----------------------------
(***************************************************************************)
(* class OpenSwitchThread of brmdoor_nfc_daemon.py: the thread that polls  *)
(* the OPEN/CLOSED switch, publishes a changed status by SFTP (class       *)
(* SpaceAPIUploader) and asks IrcThread to change the channels' topics,    *)
(* through the global channelPrefixMap and a topic query.                  *)
(***************************************************************************)
EXTENDS IrcThread

CONSTANTS UseOpenSwitch,    \* config.useOpenSwitch
          UseUpload,        \* config.useStatusUpload
          MaxFlips,         \* bound: changes of the switch
          MaxUploadFails    \* bound: uploads that fail

ASSUME SwitchAssumption ==
    /\ UseOpenSwitch \in BOOLEAN /\ UseUpload \in BOOLEAN
    /\ MaxFlips \in Nat /\ MaxUploadFails \in Nat

(* lastStatus before the first read: None, which equals no status. *)
NoStatus == [text |-> "none", no |-> 0]

VARIABLES swPc,        \* "read", "upload", "checkIrc", "request", "getTopic", "blocked"
          switchFile,  \* what the switch says; its number counts the changes
          lastStatus,  \* local of run
          asking,      \* channels left in the loop over the channels
          published,   \* on the web: the text of a status, "none" or "partial"
          uploadFails  \* counter of the bound

switchVars == <<swPc, switchFile, lastStatus, asking, published, uploadFails>>

SwitchInit ==
    /\ swPc = "read"
    /\ switchFile \in [text : {OpenText, ClosedText}, no : {0}]
    /\ lastStatus = NoStatus
    /\ asking = <<>>
    /\ published = "none"
    /\ uploadFails = 0

AfterUpload == IF UseIRC THEN "checkIrc" ELSE "read"

(* A slip: the status found at the start is not dealt with. *)
FirstStatusIgnored ==
    /\ UseOpenSwitch
    /\ swPc = "read"
    /\ switchFile.text # lastStatus.text
    /\ lastStatus' = switchFile
    /\ swPc' = IF lastStatus = NoStatus THEN "read" ELSE IF UseUpload THEN "upload" ELSE AfterUpload
    /\ UNCHANGED <<switchFile, asking, published, uploadFails, ircVars, sharedVars>>

(* An unreadable file or an unchanged status only leads to the next wait.  *)
(* The status counts as seen from here on, whatever becomes of it.         *)
ReadSwitch ==
    /\ UseOpenSwitch
    /\ swPc = "read"
    /\ switchFile.text # lastStatus.text
    /\ lastStatus' = switchFile
    /\ swPc' = IF UseUpload THEN "upload" ELSE AfterUpload
    /\ UNCHANGED <<switchFile, asking, published, uploadFails, ircVars, sharedVars>>

Upload ==
    /\ swPc = "upload"
    /\ published' = lastStatus.text
    /\ swPc' = AfterUpload
    /\ UNCHANGED <<switchFile, lastStatus, asking, uploadFails, ircVars, sharedVars>>

(* Logged and not retried; it may have failed inside sftp.put. *)
UploadFails ==
    /\ swPc = "upload"
    /\ uploadFails < MaxUploadFails
    /\ uploadFails' = uploadFails + 1
    /\ published' \in {published, "partial"}
    /\ swPc' = AfterUpload
    /\ UNCHANGED <<switchFile, lastStatus, asking, ircVars, sharedVars>>

(* The flag is read here without threadLock. *)
CheckIrc ==
    /\ swPc = "checkIrc"
    /\ swPc' = IF connected THEN "request" ELSE "read"
    /\ asking' = IF connected THEN ChannelList ELSE <<>>
    /\ UNCHANGED <<switchFile, lastStatus, published, uploadFails, ircVars, sharedVars>>

Request ==
    /\ swPc = "request"
    /\ asking # <<>>
    /\ channelPrefixMap' = [channelPrefixMap EXCEPT ![Head(asking)] = lastStatus]
    /\ swPc' = "getTopic"
    /\ UNCHANGED <<switchFile, lastStatus, asking, published, uploadFails,
                   ircPc, ircLocals, sock, ircServer, ircBounds, sharedVars>>

RequestsDone ==
    /\ swPc = "request"
    /\ asking = <<>>
    /\ swPc' = "read"
    /\ UNCHANGED <<switchFile, lastStatus, asking, published, uploadFails,
                   ircVars, sharedVars>>

(* A slip: the thread changes the topic itself. *)
SetTopicDirectly(o) ==
    /\ swPc = "getTopic"
    /\ threadLock = "free"
    /\ Transmit(o)
    /\ ServeTopicChange(o, Head(asking), lastStatus)
    /\ swPc' = IF o = "raised" THEN "read" ELSE "request"
    /\ asking' = IF o = "raised" THEN <<>> ELSE Tail(asking)
    /\ UNCHANGED <<switchFile, lastStatus, published, uploadFails,
                   ircPc, ircLocals, channelPrefixMap, ircBounds, sharedVars>>

(* An exception leaves the loop over the channels. *)
GetTopic(o) ==
    /\ swPc = "getTopic"
    /\ threadLock = "free"
    /\ Transmit(o)
    /\ ServeTopicQuery(o, Head(asking))
    /\ threadLock' = IF Disconnects(o) THEN "switch" ELSE "free"
    /\ swPc' = IF Disconnects(o) THEN "blocked" ELSE IF o = "raised" THEN "read" ELSE "request"
    /\ asking' = IF o = "raised" THEN <<>> ELSE Tail(asking)
    /\ UNCHANGED <<switchFile, lastStatus, published, uploadFails,
                   ircPc, ircLocals, channelPrefixMap, ircBounds, connected, msgQueue>>

SwitchStep ==
    \/ ReadSwitch \/ Upload \/ UploadFails \/ CheckIrc \/ Request \/ RequestsDone
    \/ \E o \in Outcomes : GetTopic(o)

(* Somebody turns the switch. *)
Flip ==
    /\ switchFile.no < MaxFlips
    /\ switchFile' = [text |-> IF switchFile.text = OpenText THEN ClosedText ELSE OpenText,
                      no |-> switchFile.no + 1]
    /\ UNCHANGED <<swPc, lastStatus, asking, published, uploadFails, ircVars, sharedVars>>

(* Every variable has a value of its kind. *)
SwitchTypeOK ==
    /\ swPc \in {"read", "upload", "checkIrc", "request", "getTopic", "blocked"}
    /\ switchFile \in Status
    /\ lastStatus \in Status \cup {NoStatus}
    /\ asking \in Seq(Channels)
    /\ swPc = "getTopic" => asking # <<>>
    /\ published \in {OpenText, ClosedText, "none", "partial"}
    /\ uploadFails \in Nat
==============================================================================
