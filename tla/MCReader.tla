------------------------------ MODULE MCReader ------------------------------
(***************************************************************************)
(* A small instance of ReaderTools: two processes with any programs, two   *)
(* cards, and containers of up to two TLVs before the NDEF File Control    *)
(* TLV or the end, with lengths around the width.                          *)
(***************************************************************************)
EXTENDS ReaderTools

CONSTANTS p1, p2, a, b, none

MCPrograms ==
    {[p \in {p1, p2} |-> IF p = p1 THEN m[1] ELSE m[2]] :
        m \in {<<"write", "write">>, <<"write", "other">>, <<"write", "test">>, <<"test", "test">>,
              <<"test", "other">>, <<"other", "other">>}}

(* The size, two TLVs, and what every other octet is: 4 looks like the tag *)
(* that is searched for, 254 like a length that brings the offset back.         *)
MCContainer ==
    [size : {14, 15, 22}, first : {<<4, 6>>, <<5, 0>>, <<5, 6>>},
     second : {<<4, 6>>}, rest : {0, 4}]
    \cup [size : {22}, first : {<<5, 254>>}, second : {<<4, 6>>}, rest : {0}]
    \cup [size : {280}, first : {<<5, 238>>, <<5, 247>>},
          second : {<<4, 6>>, <<5, 3>>}, rest : {4, 254}]

MCSize == [c \in MCContainer |-> c.size]

MCOctets ==
    [c \in MCContainer |->
       LET second == 7 + c.first[2] + 2 IN
         [i \in 0..(c.size - 1) |->
            CASE i = 7 -> c.first[1]
              [] i = 8 -> c.first[2]
              [] i = second -> c.second[1]
              [] i = second + 1 -> c.second[2]
              [] OTHER -> c.rest]]

(* The offsets of the search in unbounded arithmetic. *)
MCStarts ==
    [c \in MCContainer |->
       LET path[i \in 7..(c.size + Width + 1)] ==
             <<i>> \o IF i + 7 < c.size /\ MCOctets[c][i] # 4
                       THEN path[i + MCOctets[c][i + 1] + 2] ELSE <<>>
       IN path[7]]
=============================================================================
