---------------------------- MODULE MCMockServer ----------------------------
(* Instances of MockServer for TLC. *)
EXTENDS MockServer, TLC

\* A read and two writes that overlap it, one across the last register, and a
\* request of an unknown command.
MCSubmitted ==
    LET one == CHOOSE i \in Calls : TRUE
        Req(c, a, n, w) == [call |-> one, cmd |-> c, addr |-> a, count |-> n, words |-> w]
    IN  {Req("read", 0, 2, <<>>), Req("write", 0, 2, <<1, 1>>),
         Req("write", 1, 2, <<1, 0>>), Req("other", 0, 0, <<>>)}

=============================================================================
