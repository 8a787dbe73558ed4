---------------------------- MODULE MCReassembly ----------------------------
(* Two flights of messages with bodies of zero to three bytes. *)
EXTENDS Reassembly

Message(type, body) == <<type, Len(body)>> \o body

\* The last message of the first flight is of type 4 and empty, as ServerHelloDone.
TwoFlights == Message(1, <<1, 1>>) \o Message(2, <<2>>) \o Message(3, <<3, 3, 3>>)
              \o Message(4, <<>>) \o Message(5, <<5, 5, 5>>) \o Message(6, <<>>)
SixMessages == {0, 4, 7, 12, 14, 19, 21}
AfterFourAndSix == {14, 21}

\* Either SSLHandshake returns in the middle or the peer cuts messages, not both.
\* Type 2 stands for the certificate the application wants to be told of.
OneAtATime == {[signals |-> {}, breaks |-> {4}, cuts |-> "apart"],
               [signals |-> {2}, breaks |-> {4}, cuts |-> "whole"]}

BreakAndCut == {[signals |-> {2}, breaks |-> {4}, cuts |-> "apart"]}

CutAnywhere == {[signals |-> {}, breaks |-> {4}, cuts |-> "anywhere"]}
============================================================================
