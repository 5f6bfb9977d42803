---------------------------- MODULE Announcements ----------------------------
(***************************************************************************)
(* What the channels are promised, whatever becomes of the connection: of  *)
(* each visit they hear at most once, after it was decided, how it was     *)
(* decided, and of no visit after a later one.  Messages may be lost, or   *)
(* stay behind after the visit; none is made up, changed or repeated.      *)
(***************************************************************************)
EXTENDS Naturals, Sequences

VARIABLES visit,    \* the number of visits so far
          stand,    \* of the last one: "over", "open", "granted" or "denied"
          waiting,  \* the messages on their way, in no order
          heard     \* what the channels have heard

announceVars == <<visit, stand, waiting, heard>>

AnnounceInit ==
    /\ visit = 0
    /\ stand = "over"
    /\ waiting = {}
    /\ heard = <<>>

Begin ==
    /\ stand = "over"
    /\ visit' = visit + 1
    /\ stand' = "open"
    /\ UNCHANGED <<waiting, heard>>

Settle(v) ==
    /\ stand = "open"
    /\ stand' = v
    /\ UNCHANGED <<visit, waiting, heard>>

(* Once per visit, and how it was decided. *)
Tell ==
    /\ stand \in {"granted", "denied"}
    /\ \A m \in waiting : m.visit < visit
    /\ \A i \in 1..Len(heard) : heard[i].visit < visit
    /\ waiting' = waiting \cup {[visit |-> visit, text |-> stand]}
    /\ UNCHANGED <<visit, stand, heard>>

Finish ==
    /\ stand \in {"granted", "denied"}
    /\ stand' = "over"
    /\ UNCHANGED <<visit, waiting, heard>>

Lose(m) ==
    /\ waiting' = waiting \ {m}
    /\ UNCHANGED <<visit, stand, heard>>

(* After all that was heard before, and before all that is on its way.     *)
Hear(m) ==
    /\ \A i \in 1..Len(heard) : heard[i].visit < m.visit
    /\ waiting' = waiting \ {m}
    /\ \A l \in waiting' : m.visit < l.visit
    /\ heard' = Append(heard, m)
    /\ UNCHANGED <<visit, stand>>

AnnounceNext ==
    \/ Begin
    \/ \E v \in {"granted", "denied"} : Settle(v)
    \/ Tell
    \/ Finish
    \/ \E m \in waiting : Lose(m) \/ Hear(m)

AnnounceSpec == AnnounceInit /\ [][AnnounceNext]_announceVars
==============================================================================
