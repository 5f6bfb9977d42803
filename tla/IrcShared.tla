------------------------------ MODULE IrcShared ------------------------------
(***************************************************************************)
(* The state the daemon's threads share through the IrcThread object of    *)
(* brmdoor_nfc_daemon.py: the non-reentrant threadLock, the flag it        *)
(* guards, and the unbounded Queue.Queue of messages for the channels.     *)
(***************************************************************************)
EXTENDS Sequences

CONSTANT UseIRC     \* config.useIRC: without it there is no IrcThread object

VARIABLES threadLock,  \* "free", or the name of the thread that holds it
          connected,   \* IrcThread.connected, written under threadLock
          msgQueue     \* messages put by the scanner and not yet taken

sharedVars == <<threadLock, connected, msgQueue>>

SharedInit ==
    /\ threadLock = "free"
    /\ connected = FALSE
    /\ msgQueue = <<>>
==============================================================================
