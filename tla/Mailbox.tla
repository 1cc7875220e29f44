------------------------------ MODULE Mailbox ------------------------------
(***************************************************************************)
(* What the hub and its LoRa board promise a reader of the message log:    *)
(* messages the board accepted enter the log for the first time in the     *)
(* order they were accepted, and nothing else ever enters it.  A message   *)
(* may be missing; one already in the log may be handed over again (that   *)
(* is a stuttering step here).                                             *)
(***************************************************************************)
EXTENDS Naturals

VARIABLES
    accepted,   \* how many messages the board has accepted; message n is the n-th
    delivered   \* the messages that have entered the log

vars == <<accepted, delivered>>

(* The board greets the hub with one boot message. *)
Init == accepted = 1 /\ delivered = {}

(* A handler of the board accepts one message, or two (a notice that the
   radio failed followed by the reply to "/echo"). *)
Accept ==
    /\ \E n \in 1..2 : accepted' = accepted + n
    /\ UNCHANGED delivered

(* A message enters the log; every message before it in the log is older. *)
Deliver ==
    /\ \E m \in 1..accepted :
          /\ \A d \in delivered : d < m
          /\ delivered' = delivered \cup {m}
    /\ UNCHANGED accepted

Next == Accept \/ Deliver

Spec == Init /\ [][Next]_vars
=============================================================================
