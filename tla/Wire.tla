-------------------------------- MODULE Wire --------------------------------
(***************************************************************************)
(* The TCP connections between one client and one device, as the clients   *)
(* use them: net.Dial, Close, a Write of one request, a read of one reply. *)
(*                                                                         *)
(* A connection is "up" when both ends hold it, "cut" when the device has  *)
(* closed it and the client still holds its socket, and "down" when the    *)
(* client has closed it.  Requests that the client wrote before it closed  *)
(* may still be in the hands of the device, so they outlive the socket;    *)
(* replies are read from the socket and do not.                            *)
(*                                                                         *)
(* Connection identifiers are reused once nothing of the old connection    *)
(* is left.  Conns therefore bounds how many connections coexist with the  *)
(* requests abandoned on earlier ones, not how often a client may dial.    *)
(***************************************************************************)
EXTENDS Integers, Sequences, FiniteSets

CONSTANTS
    Conns,      \* Identifiers of TCP connections.
    NoConn      \* The nil connection of a client.

ASSUME NoConnAssumption == NoConn \notin Conns

VARIABLE link   \* link[k]: the state of connection k and what travels on it.

Down == [st |-> "down", req |-> <<>>, rep |-> <<>>]

Links(Request, Reply) ==
    [st : {"down", "up", "cut"}, req : Seq(Request), rep : Seq(Reply)]

\* Connection k may be handed out by a dial.
Free(k) == link[k] = Down

\* The client dials: connection k comes up.
Dialled(k) == [link EXCEPT ![k].st = "up"]

\* The client closes its socket; k may be NoConn, a close of nothing.
HungUp(k) ==
    IF k = NoConn THEN link
    ELSE [link EXCEPT ![k].st = "down", ![k].rep = <<>>]

\* The client writes request q on k.  On a cut connection the kernel may
\* still take the bytes, but nobody will read them.
Written(k, q) ==
    IF link[k].st = "up" THEN [link EXCEPT ![k].req = Append(@, q)] ELSE link

\* The client has read the first reply on k.
Consumed(k) == [link EXCEPT ![k].rep = Tail(@)]

\* The device takes the first request on k and gives the reply r, which is
\* lost when the client no longer holds the socket.
Answered(k, r) ==
    [link EXCEPT ![k].req = Tail(@),
                 ![k].rep = IF link[k].st = "up" THEN Append(@, r) ELSE @]

\* The device takes the first request on k and never answers it.
Ignored(k) == [link EXCEPT ![k].req = Tail(@)]

\* The device closes k: what it has not read yet is lost, replies already
\* sent may still be read.
Severed(k) == [link EXCEPT ![k].st = "cut", ![k].req = <<>>]

=============================================================================
