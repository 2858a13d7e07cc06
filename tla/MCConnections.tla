---------------------------- MODULE MCConnections ----------------------------
(***************************************************************************)
(* A web server and one connection at a time: in a behaviour either those  *)
(* of a cocgi task, with small requests, or one of mucgi, with a socket of *)
(* few bytes and responses that do and do not fit it.                      *)
(***************************************************************************)
EXTENDS CocgiConnection

CONSTANTS Responses, MucgiSendBuffer, MaxPieces, MucgiRequests

VARIABLES server, state_, reading, writing, outputBuffer_, revents, finSent, net, arrived,
          replied, peer, pieces, taken, reset

mucgiVars == <<state_, reading, writing, outputBuffer_, revents, finSent, net, arrived,
               replied, peer, pieces, taken, reset>>

Mucgi == INSTANCE TcpConnection
    WITH SendBuffer <- MucgiSendBuffer, MaxRequests <- MucgiRequests,
         answered <- replied, received <- taken

Pair(n, v) == [name |-> <<n>>, value |-> v]

\* A request with a parameter and a body, and requests with neither: one for
\* each way to use the flags, one of another role, one begun with too few bytes.
Post(flags) == [role |-> kFcgiResponder, flags |-> flags, length |-> kRecordHeader,
                params |-> <<Pair(1, <<>>)>>, stdin |-> <<8>>]
Get(flags)  == [Post(flags) EXCEPT !.params = <<>>, !.stdin = <<>>]

MCRequests == {Post(1), Get(0), Get(3), [Get(1) EXCEPT !.role = kFcgiResponder + 1],
               [Get(0) EXCEPT !.length = kRecordHeader - 1]}

BothInit == server \in {"cocgi", "mucgi"} /\ Init /\ Mucgi!Init

BothNext ==
    /\ UNCHANGED server
    /\ \/ server = "cocgi" /\ Next /\ UNCHANGED mucgiVars
       \/ server = "mucgi" /\ Mucgi!Next /\ UNCHANGED vars

\* The fairness of FairSpec and of Mucgi!FairSpec, each for its own server.
BothSpec ==
    /\ BothInit /\ [][BothNext]_<<server, vars, mucgiVars>>
    /\ WF_vars(server = "cocgi" /\ Reads)
    /\ WF_vars(server = "cocgi" /\ (doRequestWrites \/ doRequestFails))
    /\ WF_vars(server = "cocgi" /\ Closes)
    /\ WF_mucgiVars(server = "mucgi" /\ Mucgi!LoopStep)
    /\ WF_mucgiVars(server = "mucgi" /\ Mucgi!PeerReadsOn)
    /\ WF_mucgiVars(server = "mucgi" /\ Mucgi!PeerResets)

-----------------------------------------------------------------------------
(* Properties of mucgi's connection *)

\* mucgi's responses reach the web server whole and in order, written directly
\* or through the output buffer (sendInLoop, handleWrite).
StreamInOrder == Mucgi!StreamInOrder

\* Every complete request gets its whole response from mucgi, unless the web
\* server closes (onMessage, sendInLoop, handleWrite).
ResponseArrives == Mucgi!ResponseArrives

\* mucgi's shutdown waits for what is in the output buffer, and then happens.
ShutdownCompletes == Mucgi!ShutdownCompletes

\* mucgi gives up a connection whose peer has closed (handleRead, handleError).
PeerGoneIsNoticed == Mucgi!PeerGoneIsNoticed
==============================================================================
