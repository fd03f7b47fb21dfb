---------------------------- MODULE MCRendezvous ----------------------------
(***************************************************************************)
(* Rendezvous with a sender and a receiver, each with any of the options   *)
(* that negotiation tells apart.                                           *)
(***************************************************************************)
EXTENDS Rendezvous

CONSTANTS s1, r1, own, service

Roles == [p \in {s1, r1} |-> IF p = s1 THEN "sender" ELSE "receiver"]

Native == [client |-> "native", mode |-> "auto", protocol |-> "transfer", relay |-> NoRelay,
           local |-> FALSE, direct |-> TRUE, reuse |-> TRUE]

Relayed == [Native EXCEPT !.relay = own]
OneWay == [Relayed EXCEPT !.reuse = FALSE]
Indirect == [Native EXCEPT !.direct = FALSE]
Local == [Native EXCEPT !.local = TRUE]
Forced(mode) == [Native EXCEPT !.mode = mode]
Note == [Native EXCEPT !.protocol = "note"]
Browser == [Indirect EXCEPT !.client = "web"]

Pair(sender, receiver) == [p \in {s1, r1} |-> IF p = s1 THEN sender ELSE receiver]

SomeDeployments ==
    {Pair(Native, Native), Pair(OneWay, Relayed), Pair(Browser, Relayed), Pair(Note, Native),
     Pair(Forced("native"), [Forced("native") EXCEPT !.reuse = FALSE])} \X {NoRelay}
    \cup
    {Pair(Native, Native), Pair(Relayed, Indirect), Pair(Forced("webrtc"), Relayed),
     Pair(Local, Local), Pair(Local, Relayed)} \X {service}
=============================================================================
