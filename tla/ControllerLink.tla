--------------------------- MODULE ControllerLink ---------------------------
(***************************************************************************)
(* One browser's controller sockets (bridge/server.mjs, connectController  *)
(* and writeController) and the bytes on them.                             *)
(*                                                                         *)
(* Bytes are cells: "06" is the acknowledgement byte, "f2" starts a status *)
(* record, "f3" an abnormal one, "x" is any other byte.  A record is two   *)
(* cells, the second of which may be a level of 6.  TCP keeps the order    *)
(* and splits anywhere.                                                    *)
(***************************************************************************)
EXTENDS Integers, Sequences, FiniteSets

CONSTANT
    SockCount   \* bound of the model: controller sockets at once

ASSUME LinkAssumption == SockCount \in Nat \ {0}

Socks == 1..SockCount
Cell == {"06", "f2", "f3", "x"}

VARIABLES
    current,  \* controllers: the browser's socket, or 0
    phase,    \* of each socket; a closed one stays in the map
    login,    \* the sockets that have been logged in, closed ones included
    last,     \* the kind of the last message written to the live socket
    down      \* cells the controller sent that are not yet received

linkVars == <<current, phase, login, last, down>>

LinkInit ==
    /\ current = 1
    /\ phase = [k \in Socks |-> IF k = 1 THEN "up" ELSE "closed"]
    /\ login = {1}
    /\ last = "none"
    /\ down = <<>>

Live(k) == phase[k] \in {"dialing", "up"}

\* No close event is pending: timers may fire, connections come up.
Settled == \A k \in Socks : phase[k] # "closing"

\* writeController: a message reaches the socket the browser has now, or
\* nobody.
Writes(kind) ==
    /\ last' = IF phase[current] = "up" THEN kind ELSE last
    /\ UNCHANGED <<current, phase, login, down>>

Destroyed == [k \in Socks |-> IF Live(k) THEN "closing" ELSE phase[k]]

\* connectController: the old socket goes, a new one is dialled.
Dial(k) ==
    /\ phase[k] = "closed" /\ k # current
    /\ phase' = [Destroyed EXCEPT ![k] = "dialing"]
    /\ current' = k
    /\ login' = login \ {k}
    /\ last' = "none" /\ down' = <<>>

\* The login is written at once, so the socket is up when it is connected.
Opens(k) ==
    /\ Settled /\ phase[k] = "dialing"
    /\ phase' = [phase EXCEPT ![k] = "up"]
    /\ login' = login \cup {k}
    /\ UNCHANGED <<current, last, down>>

\* Refused, timed out, reset, ended, or destroyed with a bad security code.
Fails(k) ==
    /\ Live(k)
    /\ phase' = [phase EXCEPT ![k] = "closing"]
    /\ last' = "none" /\ down' = <<>>
    /\ UNCHANGED <<current, login>>
=============================================================================
