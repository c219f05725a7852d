--------------------------- MODULE LoginHandshake ---------------------------
(***************************************************************************)
(* A client logs in: controlSessionDialer and the connector on its side,   *)
(* acceptConnection and handleConnection on the server's, and the wire     *)
(* protocol of pkg/proto/wire.                                             *)
(*                                                                         *)
(* The client writes everything it has to say before it reads: in version  *)
(* 2 the magic bytes, a ClientHello and the Login, in version 1 the Login. *)
(* Each side derives the cipher of the control connection by itself.  A    *)
(* connection may break, and a deadline may pass, at any step.             *)
(***************************************************************************)
EXTENDS Naturals, Sequences

CONSTANTS
  MaxConn,    \* bound: connections, one for each attempt
  Algorithms, \* supportedAEADAlgorithms
  Offers      \* the orders in which a client can prefer them

ASSUME HandshakeValues ==
  /\ MaxConn \in Nat
  /\ Offers \subseteq Seq(Algorithms) /\ <<>> \notin Offers

Conns == 1..MaxConn
NoID == 0
NoCipher == [protocol |-> "none", algorithm |-> "none", transcript |-> <<>>]

VARIABLES
  protocol,   \* Transport.WireProtocol of the client
  runID,      \* Service.runID
  issued,     \* run IDs the server has made up
  link,       \* the connection, or the one under the stream
  dialer,     \* where Dial is
  server,     \* where handleConnection, then the control, is
  toServer, toClient,   \* what is under way
  clientCipher, serverCipher,   \* of the control connection
  clientID, serverID            \* run ID of the session

loginVars == <<protocol, runID, issued, link, dialer, server, toServer, toClient,
               clientCipher, serverCipher, clientID, serverID>>

Magic == [type |-> "magic"]
ClientHello(c, offer) == [type |-> "ClientHello", algorithms |-> offer, random |-> c]
ServerHello(err, algorithm, random) ==
  [type |-> "ServerHello", error |-> err, algorithm |-> algorithm, random |-> random]
Login(id) == [type |-> "Login", id |-> id]
LoginResp(err, id) == [type |-> "LoginResp", error |-> err, id |-> id]

LoginInit ==
  /\ protocol \in {"v1", "v2"}
  /\ runID = NoID
  /\ issued = 0
  /\ link = [c \in Conns |-> "none"]
  /\ dialer = [c \in Conns |-> "none"]
  /\ server = [c \in Conns |-> "none"]
  /\ toServer = [c \in Conns |-> <<>>]
  /\ toClient = [c \in Conns |-> <<>>]
  /\ clientCipher = [c \in Conns |-> NoCipher]
  /\ serverCipher = [c \in Conns |-> NoCipher]
  /\ clientID = [c \in Conns |-> NoID]
  /\ serverID = [c \in Conns |-> NoID]

-----------------------------------------------------------------------------
(* The wire protocol.                                                      *)

\* SelectAEADAlgorithm: the client's first choice that the server supports.
Selectable(offer) == {i \in 1..Len(offer) : offer[i] \in Algorithms}
SelectAEADAlgorithm(offer) ==
  offer[CHOOSE i \in Selectable(offer) : \A j \in Selectable(offer) : i <= j]

\* HashCryptoTranscript of the two hellos as they were on the wire.
Cipher(clientHello, serverHello) ==
  [protocol |-> "v2", algorithm |-> serverHello.algorithm,
   transcript |-> <<clientHello, serverHello>>]

\* NewCryptoReadWriter derives everything from the key.
CipherV1 == [protocol |-> "v1", algorithm |-> "aes-cfb", transcript |-> <<>>]

\* ValidateServerHelloForClient
Acceptable(clientHello, serverHello) ==
  /\ serverHello.algorithm \in Algorithms
  /\ \E i \in 1..Len(clientHello.algorithms) : clientHello.algorithms[i] = serverHello.algorithm

-----------------------------------------------------------------------------
(* The client.                                                             *)

\* Open connects when streams are multiplexed (TCPMux), Connect when they are
\* not.
Open(c) ==
  /\ dialer[c] = "none"
  /\ dialer' = [dialer EXCEPT ![c] = "opened"]
  /\ \E tcpMux \in BOOLEAN : link' = [link EXCEPT ![c] = IF tcpMux THEN "up" ELSE @]
  /\ UNCHANGED <<protocol, runID, issued, server, toServer, toClient,
                 clientCipher, serverCipher, clientID, serverID>>

Connect(c) ==
  /\ dialer[c] = "opened" /\ link[c] # "down"
  /\ dialer' = [dialer EXCEPT ![c] = "connected"]
  /\ link' = [link EXCEPT ![c] = "up"]
  /\ UNCHANGED <<protocol, runID, issued, server, toServer, toClient,
                 clientCipher, serverCipher, clientID, serverID>>

\* exchangeLogin up to the first read.  What is written on a broken connection
\* may be lost in part.
SendLogin(c) ==
  /\ dialer[c] = "connected"
  /\ dialer' = [dialer EXCEPT ![c] = IF protocol = "v2" THEN "await hello" ELSE "await login"]
  /\ \E offer \in Offers :
       toServer' = [toServer EXCEPT ![c] =
         IF protocol = "v2" THEN <<Magic, ClientHello(c, offer), Login(runID)>>
         ELSE <<Login(runID)>>]
  /\ clientCipher' = [clientCipher EXCEPT ![c] =
       IF protocol = "v2" THEN [@ EXCEPT !.transcript = <<toServer'[c][2]>>] ELSE CipherV1]
  /\ UNCHANGED <<protocol, runID, issued, link, server, toClient, serverCipher,
                 clientID, serverID>>

Received(c, type) == toClient[c] # <<>> /\ Head(toClient[c]).type = type

ReadServerHello(c) ==
  /\ dialer[c] = "await hello" /\ Received(c, "ServerHello")
  /\ LET hello == Head(toClient[c])
         sent == clientCipher[c].transcript[1]
     IN /\ ~hello.error /\ Acceptable(sent, hello)
        /\ clientCipher' = [clientCipher EXCEPT ![c] = Cipher(sent, hello)]
  /\ dialer' = [dialer EXCEPT ![c] = "await login"]
  /\ toClient' = [toClient EXCEPT ![c] = Tail(@)]
  /\ UNCHANGED <<protocol, runID, issued, link, server, toServer, serverCipher,
                 clientID, serverID>>

\* The rest of Dial, and the run ID loginFunc keeps for the next attempt.
ReadLoginResp(c) ==
  /\ dialer[c] = "await login" /\ Received(c, "LoginResp")
  /\ ~Head(toClient[c]).error
  /\ dialer' = [dialer EXCEPT ![c] = "session"]
  /\ clientID' = [clientID EXCEPT ![c] = Head(toClient[c]).id]
  /\ runID' = Head(toClient[c]).id
  /\ toClient' = [toClient EXCEPT ![c] = Tail(@)]
  /\ UNCHANGED <<protocol, issued, link, server, toServer, clientCipher, serverCipher,
                 serverID>>

\* What Dial and closeSession close: the stream and what is under it.
CloseLink(c) == link' = [link EXCEPT ![c] = "down"]

MayFail_NoDeadline(c) == dialer[c] \in {"none", "opened", "connected"}
MayFail(c) == dialer[c] \notin {"failed", "session"}

\* A step of Dial fails, or its read deadline passes; what it opened is closed.
DialFails(c) ==
  /\ MayFail(c)
  /\ dialer' = [dialer EXCEPT ![c] = "failed"]
  /\ CloseLink(c)
  /\ toClient' = [toClient EXCEPT ![c] = <<>>]
  /\ clientCipher' = [clientCipher EXCEPT ![c] = NoCipher]
  /\ UNCHANGED <<protocol, runID, issued, server, toServer, serverCipher,
                 clientID, serverID>>

-----------------------------------------------------------------------------
(* The server.  It can read what was sent before the connection broke.     *)

Arrived(c, type) == toServer[c] # <<>> /\ Head(toServer[c]).type = type
Answer(c, m) ==
  toClient' = [toClient EXCEPT ![c] = IF dialer[c] = "failed" THEN @ ELSE Append(@, m)]
GoTo(c, step) == server' = [server EXCEPT ![c] = step]
Consume(c) == toServer' = [toServer EXCEPT ![c] = Tail(@)]

\* CheckMagic: seven bytes decide the version; they are put back if it is 1.
CheckMagic(c) ==
  /\ server[c] = "none" /\ toServer[c] # <<>>
  /\ IF Arrived(c, "magic") THEN GoTo(c, "hello") /\ Consume(c)
     ELSE GoTo(c, "login") /\ UNCHANGED toServer
  /\ serverCipher' = [serverCipher EXCEPT ![c] = IF Arrived(c, "magic") THEN @ ELSE CipherV1]
  /\ UNCHANGED <<protocol, runID, issued, link, dialer, toClient, clientCipher,
                 clientID, serverID>>

ServerCipher_BeforeRandom(hello, answer) == Cipher(hello, [answer EXCEPT !.random = 0])
ServerCipher(hello, answer) == Cipher(hello, answer)

HandleClientHello(c) ==
  /\ server[c] = "hello" /\ Arrived(c, "ClientHello")
  /\ LET hello == Head(toServer[c])
         answer == ServerHello(FALSE, SelectAEADAlgorithm(hello.algorithms), c)
     IN /\ Selectable(hello.algorithms) # {}
        /\ Answer(c, answer)
        /\ serverCipher' = [serverCipher EXCEPT ![c] = ServerCipher(hello, answer)]
  /\ GoTo(c, "login") /\ Consume(c)
  /\ UNCHANGED <<protocol, runID, issued, link, dialer, clientCipher, clientID, serverID>>

\* A hello the server cannot accept, or it could not make a random number: the
\* error goes to the client in a hello.
RefuseClientHello(c) ==
  /\ server[c] = "hello" /\ Arrived(c, "ClientHello")
  /\ Answer(c, ServerHello(TRUE, "none", 0))
  /\ GoTo(c, "closed") /\ Consume(c)
  /\ UNCHANGED <<protocol, runID, issued, link, dialer, clientCipher, serverCipher,
                 clientID, serverID>>

\* RegisterControl: a client without a run ID gets a new one, and a control
\* that has the run ID already is closed.
RegisterControl(c) ==
  /\ server[c] = "login" /\ Arrived(c, "Login")
  /\ LET asked == Head(toServer[c]).id
         id == IF asked = NoID THEN issued + 1 ELSE asked
     IN /\ issued' = IF asked = NoID THEN id ELSE issued
        /\ serverID' = [serverID EXCEPT ![c] = id]
        /\ server' = [d \in Conns |-> IF d = c THEN "respond"
                        ELSE IF serverID[d] = id THEN "closed" ELSE server[d]]
        /\ link' = [d \in Conns |-> IF d # c /\ serverID[d] = id THEN "down" ELSE link[d]]
  /\ Consume(c)
  /\ UNCHANGED <<protocol, runID, dialer, toClient, clientCipher, serverCipher, clientID>>

\* The token is wrong, the run ID malformed or the control replaced meanwhile.
RefuseLogin(c) ==
  /\ server[c] \in {"login", "respond"}
  /\ server[c] = "login" => Arrived(c, "Login")
  /\ Answer(c, LoginResp(TRUE, NoID))
  /\ GoTo(c, "closed")
  /\ toServer' = [toServer EXCEPT ![c] = <<>>]
  /\ UNCHANGED <<protocol, runID, issued, link, dialer, clientCipher, serverCipher,
                 clientID, serverID>>

\* completeLogin writes the answer in the clear and starts the control.
CompleteLogin(c) ==
  /\ server[c] = "respond"
  /\ Answer(c, LoginResp(FALSE, serverID[c]))
  /\ GoTo(c, "active")
  /\ UNCHANGED <<protocol, runID, issued, link, dialer, toServer, clientCipher,
                 serverCipher, clientID, serverID>>

\* A read or write fails or takes too long, or the control ends.
ServerCloses(c) ==
  /\ server[c] # "closed" /\ link[c] # "none"
  /\ GoTo(c, "closed") /\ CloseLink(c)
  /\ toServer' = [toServer EXCEPT ![c] = <<>>]
  /\ UNCHANGED <<protocol, runID, issued, dialer, toClient, clientCipher,
                 serverCipher, clientID, serverID>>

LoginServer(c) ==
  \/ CheckMagic(c) \/ HandleClientHello(c) \/ RefuseClientHello(c)
  \/ RegisterControl(c) \/ RefuseLogin(c) \/ CompleteLogin(c) \/ ServerCloses(c)

LoginClient(c) ==
  \/ Open(c) \/ Connect(c) \/ SendLogin(c)
  \/ ReadServerHello(c) \/ ReadLoginResp(c) \/ DialFails(c)

-----------------------------------------------------------------------------
(***************************************************************************)
(* When the client has a session, the server has registered it under the   *)
(* run ID the client will use from now on, and both ends have derived the  *)
(* same cipher, from the same hellos, before the first encrypted byte.  So *)
(* all sessions of a client belong to one run, however often it reconnects *)
(* and however late the server comes to the logins it has given up.        *)
(***************************************************************************)
EndsAgree ==
  \A c \in Conns : dialer[c] = "session" =>
    /\ server[c] \in {"active", "closed"}
    /\ serverID[c] = clientID[c] /\ clientID[c] # NoID
    /\ clientID[c] = runID
    /\ serverCipher[c] = clientCipher[c]
    /\ clientCipher[c].protocol = protocol

=============================================================================
