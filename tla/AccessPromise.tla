---------------------------- MODULE AccessPromise ----------------------------
(***************************************************************************)
(* What the door promises, whatever threads, readers and messages do: one  *)
(* visit at a time; the door opens at most once in a visit, for a visitor  *)
(* entitled by a database that was in force during that visit; a card is   *)
(* turned away only when some such database did not list its UID.          *)
(***************************************************************************)
EXTENDS Entitlement

CONSTANT DbVersions     \* the contents the database file may have

VARIABLES door,     \* "locked" or "open"
          phase,    \* "idle", "waiting", "admitted" or "denied"
          visitor,  \* the UID that was scanned, or NoCard
          db,       \* the content of the database file
          seen,     \* the contents in force since the scan
          shown     \* the cards in the field since the scan

promiseVars == <<door, phase, visitor, db, seen, shown>>

PromiseInit ==
    /\ door = "locked"
    /\ phase = "idle"
    /\ visitor = NoCard
    /\ db \in DbVersions
    /\ seen = {}
    /\ shown = {}

Present(c) ==
    /\ phase = "idle"
    /\ phase' = "waiting"
    /\ visitor' = c
    /\ seen' = {db}
    /\ shown' = {c}
    /\ UNCHANGED <<door, db>>

Commit(d) ==
    /\ db' = d
    /\ seen' = IF phase = "idle" THEN seen ELSE seen \cup {d}
    /\ UNCHANGED <<door, phase, visitor, shown>>

Show(c) ==
    /\ phase # "idle"
    /\ shown' = shown \cup {c}
    /\ UNCHANGED <<door, phase, visitor, db, seen>>

Open ==
    /\ phase = "waiting"
    /\ \E d \in seen : Entitles(d, visitor, shown)
    /\ phase' = "admitted"
    /\ door' = "open"
    /\ UNCHANGED <<visitor, db, seen, shown>>

Deny ==
    /\ phase = "waiting"
    /\ \E d \in seen : ~ByUid(d, visitor)
    /\ phase' = "denied"
    /\ UNCHANGED <<door, visitor, db, seen, shown>>

(* The visit is over; an admitted visitor's door is locked behind them,    *)
(* unless the process was interrupted or killed, which leaves it as it is. *)
Leave ==
    /\ phase # "idle"
    /\ phase' = "idle"
    /\ visitor' = NoCard
    /\ seen' = {}
    /\ shown' = {}
    /\ door' \in {door, "locked"}
    /\ UNCHANGED db

Secure ==
    /\ phase = "idle"
    /\ door' = "locked"
    /\ UNCHANGED <<phase, visitor, db, seen, shown>>

PromiseNext ==
    \/ \E c \in Card : Present(c) \/ Show(c)
    \/ \E d \in DbVersions : Commit(d)
    \/ Open
    \/ Deny
    \/ Leave
    \/ Secure

PromiseSpec == PromiseInit /\ [][PromiseNext]_promiseVars
==============================================================================
