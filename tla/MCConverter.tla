----------------------------- MODULE MCConverter -----------------------------
(* A few captures of one or two files, small ones for STORE_MULTITHREAD = 4: *)
(* 3, 4 and 7 packets are split well, 1 and 2 get chunk size 0, and 5 are    *)
(* split into 5 chunks.                                                     *)
EXTENDS Converter

P(ends) == [ends |-> ends, stamped |-> TRUE]
Unstamped == [ends |-> {"send"}, stamped |-> FALSE]

Opened(packets) == [opens |-> TRUE, packets |-> packets]
Broken == [opens |-> FALSE, packets |-> <<>>]

Send == P({"send"})
Recv == P({"recv"})
Both == P({"send", "recv"})
Other == P({})

MCCaptures == {
    <<>>,
    <<Opened(<<Send, Other, Both>>), Opened(<<>>)>>,
    <<Opened(<<Send, Other, Both>>), Opened(<<Recv, Other, Both, Send>>)>>,
    <<Opened(<<Both, Recv, Other, Send>>)>>,
    <<Opened(<<Both, Other, Other, Other, Both, Other, Send>>)>>,
    <<Opened(<<Send, Other, Other, Other, Send>>)>>,
    <<Opened(<<Send, Other, Other>>), Opened(<<Send>>)>>,
    <<Opened(<<Send, Recv, Other>>), Broken>>,
    <<Opened(<<Other, Unstamped, Other>>)>>}
=============================================================================
