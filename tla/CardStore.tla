------------------------------ MODULE CardStore ------------------------------
(***************************************************************************)
(* What the card database promises to a daemon that reads it at any time,  *)
(* however many administrators run the tools, and wherever a tool dies: a  *)
(* list replaces a table whole or not at all, and an enrolment concerns    *)
(* one card and takes nothing from it.                                     *)
(***************************************************************************)
EXTENDS Entitlement

CONSTANTS Lists,            \* the lists of UIDs that are imported
          InitialContents   \* contents of a database made earlier

VARIABLES schema,   \* the tables that exist
          db        \* their committed content

Tables == {"uids", "hmac", "desfire"}

EmptyDb == [uids |-> {}, hmac |-> [c \in Card |-> NoKey], desfire |-> {}]

StoreInit ==
    \/ schema = {} /\ db = EmptyDb
    \/ schema = Tables /\ db \in InitialContents

MakeTable(table) ==
    /\ schema' = schema \cup {table}
    /\ UNCHANGED db

Replace(table, list) ==
    /\ table \in schema
    /\ db' = [db EXCEPT ![table] = list]
    /\ UNCHANGED schema

(* The first import, into tables it has made itself. *)
Merge(table, list) ==
    /\ table \in schema
    /\ db' = [db EXCEPT ![table] = @ \cup list]
    /\ UNCHANGED schema

Enrol(c) ==
    /\ db'.uids \in {db.uids, db.uids \cup {c}}
    /\ db'.desfire \in {db.desfire, db.desfire \cup {c}}
    /\ \/ db'.hmac = db.hmac
       \/ db.hmac[c] = NoKey /\ \E k \in Key : db'.hmac = [db.hmac EXCEPT ![c] = k]
    /\ UNCHANGED schema

StoreNext ==
    \/ \E table \in Tables : MakeTable(table)
    \/ \E table \in {"uids", "desfire"}, list \in Lists : Replace(table, list) \/ Merge(table, list)
    \/ \E c \in Card : Enrol(c)

StoreSpec == StoreInit /\ [][StoreNext]_<<schema, db>>
==============================================================================
