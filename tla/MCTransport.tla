------------------------------ MODULE MCTransport ------------------------------
(* Small streams for Transport.                                            *)
EXTENDS Transport, Folds, FiniteSetsExt

(* Contents of a record of the data bytes from .. to - 1.                  *)
Length(type, n) == CASE type = "data" -> n [] type = "badLength" -> 0 [] OTHER -> AlertLength

(* The peer writes ws, a sequence of <<type, bytes of data>>; the transport *)
(* presents the records named by order.                                    *)
StreamOf(ws, order) ==
    LET Data(i) == IF ws[i][1] = "data" THEN ws[i][2] ELSE 0
        Size(i) == Length(ws[i][1], ws[i][2]) + Overhead
        Before(S, F(_)) == MapThenFoldSet(+, 0, F, LAMBDA T : CHOOSE t \in T : TRUE, S)
        Pos(s) == Before(1 .. s, Data)
        Start(i) == Before(1 .. i - 1, LAMBDA j : Header + Size(order[j]))
    IN  [top |-> Len(ws),
         pos |-> [s \in 0 .. Len(ws) |-> Pos(s)],
         recs |-> [i \in 1 .. Len(order) |->
                     [type |-> ws[order[i]][1], seq |-> order[i] - 1,
                      start |-> Start(i), size |-> Size(order[i])]]]

D(n) == <<"data", n>>
A(type) == <<type, 0>>

HonestStreams == {StreamOf(<<A("warning"), D(0), A("closeNotify")>>, <<1, 2, 3>>),
                  StreamOf(<<D(3), D(1)>>, <<1, 2>>)}

OtherStreams == {StreamOf(<<D(1), D(1)>>, <<1, 1>>),
                 StreamOf(<<D(1), D(1)>>, <<2>>),
                 StreamOf(<<A("fatal")>>, <<1>>),
                 StreamOf(<<A("badType")>>, <<1>>),
                 StreamOf(<<A("badLength")>>, <<1>>)}

MCStreams == HonestStreams \cup OtherStreams

===============================================================================
