------------------------- MODULE ClientServiceProofs ------------------------
(***************************************************************************)
(* The configuration store, and the client service that starts from it:    *)
(* the safety of the login exchange and of reloads, for any number of      *)
(* connections and reloads, any entries, algorithms and preferences.  The  *)
(* first part is about one connection at a time, the second about svr.ctl  *)
(* and the configuration, the third about the store.                       *)
(***************************************************************************)
EXTENDS ClientService, ConfigStore, TLAPS

Requests == {Magic} \cup {ClientHello(c, o) : c \in Conns, o \in Offers} \cup {Login(i) : i \in Nat}
Replies == {ServerHello(e, a, r) : e \in BOOLEAN, a \in Algorithms \cup {"none"}, r \in Nat}
             \cup {LoginResp(e, i) : e \in BOOLEAN, i \in Nat}

\* What is under way.
Elems(s) == {s[i] : i \in 1..Len(s)}
Asked(c) == Elems(toServer[c])
Replied(c) == Elems(toClient[c])

LoginTypeOK ==
  /\ protocol \in {"v1", "v2"}
  /\ runID \in Nat /\ issued \in Nat
  /\ toServer \in [Conns -> Seq(Requests)]
  /\ toClient \in [Conns -> Seq(Replies)]
  /\ clientID \in [Conns -> Nat] /\ serverID \in [Conns -> Nat]
  /\ dialer = [c \in Conns |-> dialer[c]]
  /\ server = [c \in Conns |-> server[c]]
  /\ clientCipher = [c \in Conns |-> clientCipher[c]]
  /\ serverCipher = [c \in Conns |-> serverCipher[c]]

Early(c) == server[c] \in {"none", "hello"}
Late(c) == server[c] \in {"active", "closed"}

\* Before it has answered the hello, the server will see the one the client
\* remembers; in version 1 there is none.
AskedOK(c, m) ==
  /\ m.type = "magic" => protocol = "v2"
  /\ m.type = "ClientHello" =>
       /\ protocol = "v2"
       /\ Early(c) => /\ dialer[c] \in {"await hello", "failed"}
                      /\ dialer[c] = "await hello" => clientCipher[c].transcript[1] = m

\* A hello tells of the server's cipher, an answer to the login of its run ID.
RepliedOK(c, m) ==
  /\ m.type = "ServerHello" /\ m.error = FALSE =>
       /\ protocol = "v2" /\ ~Early(c)
       /\ dialer[c] \in {"await hello", "await login", "session"}
       /\ serverCipher[c] = Cipher(clientCipher[c].transcript[1], m)
  /\ m.type = "LoginResp" /\ m.error = FALSE =>
       /\ Late(c) /\ serverID[c] = m.id /\ m.id # NoID
       /\ protocol = "v1" => serverCipher[c] = CipherV1

\* What the client has read.
ReadOK(c) ==
  /\ dialer[c] \in {"none", "opened", "connected"} => clientCipher[c] = NoCipher
  /\ dialer[c] \in {"await login", "session"} =>
       IF protocol = "v2" THEN /\ ~Early(c) /\ clientCipher[c] = serverCipher[c]
                               /\ clientCipher[c].protocol = "v2"
       ELSE clientCipher[c] = CipherV1
  /\ dialer[c] = "session" =>
       /\ Late(c) /\ serverID[c] = clientID[c] /\ clientID[c] # NoID
       /\ protocol = "v1" => serverCipher[c] = CipherV1

ServerOK(c) ==
  /\ protocol = "v1" /\ server[c] \notin {"none", "closed"} =>
       server[c] # "hello" /\ serverCipher[c] = CipherV1
  /\ server[c] = "respond" => serverID[c] # NoID

ConnOK(c) ==
  /\ \A m \in Asked(c) : AskedOK(c, m)
  /\ \A m \in Replied(c) : RepliedOK(c, m)
  /\ ReadOK(c) /\ ServerOK(c)

LoginInv == LoginTypeOK /\ \A c \in Conns : ConnOK(c)

\* The control that is installed, the one that is coming and what they run.
ServiceTypeOK ==
  /\ attempt \in 0..MaxConn /\ ctl \in 0..attempt
  /\ entries \in Entries /\ cfg \in Entries /\ read \in Entries /\ target \in Entries
  /\ applied \in [Conns -> Entries]
  /\ done \in [Conns -> BOOLEAN]
  /\ overlap \in BOOLEAN

ControlOK ==
  /\ login \in {"dial", "run", "install"} => attempt \in Conns /\ ctl # attempt
  /\ phase = "up" /\ login \in {"check", "await", "wait"} => ctl = attempt /\ attempt \in Conns

ConfigOK ==
  /\ cfg = target
  /\ login \in {"run", "install"} /\ overlap = FALSE => read = target
  /\ login = "install" => done[attempt] = TRUE \/ applied[attempt] = read
  /\ phase = "up" /\ login \in {"check", "await", "wait"} /\ overlap = FALSE /\ reload = "idle"
       => done[ctl] = TRUE \/ applied[ctl] = target

ServiceInv == ServiceTypeOK /\ ControlOK /\ ConfigOK

-----------------------------------------------------------------------------
(* Queues and messages.                                                    *)

LEMMA ElemsAppend ==
  ASSUME NEW X, NEW s \in Seq(X), NEW m \in X
  PROVE  /\ Append(s, m) \in Seq(X)
         /\ \A x \in Elems(Append(s, m)) : x \in Elems(s) \/ x = m
<1>1. /\ Len(Append(s, m)) = Len(s) + 1 /\ Len(s) \in Nat
      /\ \A i \in 1..Len(s) : Append(s, m)[i] = s[i]
      /\ Append(s, m)[Len(s) + 1] = m
  OBVIOUS
<1>2. \A i \in 1..(Len(s) + 1) : i \in 1..Len(s) \/ i = Len(s) + 1
  BY <1>1
<1> QED
  BY <1>1, <1>2 DEF Elems

LEMMA ElemsTail ==
  ASSUME NEW X, NEW s \in Seq(X), s # <<>>
  PROVE  /\ Tail(s) \in Seq(X) /\ Head(s) \in X /\ Head(s) \in Elems(s)
         /\ \A x \in Elems(Tail(s)) : x \in Elems(s)
<1>1. /\ Len(s) \in Nat /\ Len(s) >= 1 /\ Head(s) = s[1] /\ Len(Tail(s)) = Len(s) - 1
      /\ \A i \in 1..(Len(s) - 1) : Tail(s)[i] = s[i + 1] /\ i + 1 \in 1..Len(s)
  OBVIOUS
<1> QED
  BY <1>1 DEF Elems

LEMMA ElemsEmpty == Elems(<<>>) = {}
BY DEF Elems

LEMMA ElemsShort ==
  ASSUME NEW a, NEW b, NEW d
  PROVE  /\ \A m \in Elems(<<a>>) : m = a
         /\ \A m \in Elems(<<a, b, d>>) : m \in {a, b, d}
BY DEF Elems

LEMMA RequestFacts ==
  /\ \A m \in Requests : m.type = "ClientHello" =>
       \E c \in Conns, o \in Offers : m = ClientHello(c, o) /\ m.algorithms = o
  /\ \A m \in Requests : m.type = "Login" => m.id \in Nat
  /\ Magic \in Requests /\ Magic.type = "magic"
  /\ \A i \in Nat : Login(i) \in Requests /\ Login(i).type = "Login"
  /\ \A c \in Conns, o \in Offers :
       ClientHello(c, o) \in Requests /\ ClientHello(c, o).type = "ClientHello"
<1>1. \A m \in Requests : \/ m = Magic
                          \/ \E c \in Conns, o \in Offers : m = ClientHello(c, o)
                          \/ \E i \in Nat : m = Login(i)
  BY DEF Requests
<1>2. /\ Magic.type = "magic"
      /\ \A i \in Nat : Login(i).type = "Login" /\ Login(i).id = i
      /\ \A c \in Conns, o \in Offers :
           ClientHello(c, o).type = "ClientHello" /\ ClientHello(c, o).algorithms = o
  BY DEF Magic, ClientHello, Login
<1>3. /\ Magic \in Requests
      /\ \A i \in Nat : Login(i) \in Requests
      /\ \A c \in Conns, o \in Offers : ClientHello(c, o) \in Requests
  BY DEF Requests
<1> QED
  BY <1>1, <1>2, <1>3

LEMMA ReplyFacts ==
  /\ \A m \in Replies : m.type = "LoginResp" => m.id \in Nat
  /\ \A m \in Replies : m.error \in BOOLEAN
  /\ \A e \in BOOLEAN, a \in Algorithms \cup {"none"}, r \in Nat :
       /\ ServerHello(e, a, r) \in Replies /\ ServerHello(e, a, r).type = "ServerHello"
       /\ ServerHello(e, a, r).error = e
  /\ \A e \in BOOLEAN, i \in Nat :
       /\ LoginResp(e, i) \in Replies /\ LoginResp(e, i).type = "LoginResp"
       /\ LoginResp(e, i).error = e /\ LoginResp(e, i).id = i
<1>1. \A m \in Replies :
        \/ \E e \in BOOLEAN, a \in Algorithms \cup {"none"}, r \in Nat : m = ServerHello(e, a, r)
        \/ \E e \in BOOLEAN, i \in Nat : m = LoginResp(e, i)
  BY DEF Replies
<1>2. /\ \A e \in BOOLEAN, a \in Algorithms \cup {"none"}, r \in Nat :
           ServerHello(e, a, r).type = "ServerHello" /\ ServerHello(e, a, r).error = e
      /\ \A e \in BOOLEAN, i \in Nat :
           /\ LoginResp(e, i).type = "LoginResp" /\ LoginResp(e, i).error = e
           /\ LoginResp(e, i).id = i
  BY DEF ServerHello, LoginResp
<1>3. /\ \A e \in BOOLEAN, a \in Algorithms \cup {"none"}, r \in Nat :
           ServerHello(e, a, r) \in Replies
      /\ \A e \in BOOLEAN, i \in Nat : LoginResp(e, i) \in Replies
  BY DEF Replies
<1>4. \A m \in Replies : m.type = "LoginResp" => m.id \in Nat
  BY <1>1, <1>2
<1>5. ASSUME NEW m \in Replies PROVE m.error \in BOOLEAN
  <2>1. CASE \E e \in BOOLEAN, i \in Nat : m = LoginResp(e, i)
    BY <1>2, <2>1
  <2>2. CASE \E e \in BOOLEAN, a \in Algorithms \cup {"none"}, r \in Nat : m = ServerHello(e, a, r)
    BY <1>2, <2>2
  <2> QED
    BY <1>1, <2>1, <2>2
<1> QED
  BY <1>2, <1>3, <1>4, <1>5

\* The server prefers what the client does.
LEMMA SelectFacts ==
  ASSUME NEW o \in Offers
  PROVE  SelectAEADAlgorithm(o) \in Algorithms
<1>1. /\ o \in Seq(Algorithms) /\ o # <<>>
  BY HandshakeValues DEF HandshakeValues
<1>2. Len(o) \in Nat /\ Len(o) >= 1 /\ \A i \in 1..Len(o) : o[i] \in Algorithms
  BY <1>1
<1>3. 1 \in Selectable(o) /\ \A j \in Selectable(o) : 1 <= j
  BY <1>2 DEF Selectable
<1>4. PICK i \in Selectable(o) :
        i = CHOOSE x \in Selectable(o) : \A j \in Selectable(o) : x <= j
  BY <1>3
<1> QED
  BY <1>4 DEF Selectable, SelectAEADAlgorithm

\* A connection that no step was about, unless its control was replaced.
LEMMA Untouched ==
  ASSUME NEW d \in Conns, ConnOK(d), UNCHANGED protocol,
         dialer'[d] = dialer[d], server'[d] = server[d] \/ server'[d] = "closed",
         toServer'[d] = toServer[d], toClient'[d] = toClient[d],
         clientCipher'[d] = clientCipher[d], serverCipher'[d] = serverCipher[d],
         clientID'[d] = clientID[d], serverID'[d] = serverID[d]
  PROVE  ConnOK(d)'
<1>1. Asked(d)' = Asked(d) /\ Replied(d)' = Replied(d)
  BY DEF Asked, Replied
<1>2. (Late(d) => Late(d)') /\ (Early(d)' => Early(d))
  BY DEF Late, Early
<1>3. \A m \in Asked(d)' : AskedOK(d, m)'
  BY <1>1, <1>2 DEF ConnOK, AskedOK
<1>4. \A m \in Replied(d)' : RepliedOK(d, m)'
  BY <1>1, <1>2 DEF ConnOK, RepliedOK
<1>5. ReadOK(d)'
  BY <1>2 DEF ConnOK, ReadOK
<1>6. ServerOK(d)'
  BY DEF ConnOK, ServerOK
<1> QED
  BY <1>3, <1>4, <1>5, <1>6 DEF ConnOK

-----------------------------------------------------------------------------
(* The client's steps.                                                     *)

LEMMA DialBegins ==
  ASSUME LoginInv, NEW c \in Conns, Open(c) \/ Connect(c)
  PROVE  LoginInv'
<1>1. /\ dialer[c] \in {"none", "opened"}
      /\ \E to \in {"opened", "connected"} : dialer' = [dialer EXCEPT ![c] = to]
      /\ UNCHANGED <<protocol, runID, issued, server, toServer, toClient, clientCipher,
                     serverCipher, clientID, serverID>>
  BY DEF Open, Connect
<1>2. /\ dialer'[c] \in {"opened", "connected"}
      /\ \A d \in Conns : d # c => dialer'[d] = dialer[d]
      /\ dialer' = [d \in Conns |-> dialer'[d]]
  BY <1>1 DEF LoginInv, LoginTypeOK
<1>3. LoginTypeOK'
  BY <1>1, <1>2 DEF LoginInv, LoginTypeOK
<1>4. ConnOK(c)'
  <2>1. ConnOK(c) /\ Asked(c)' = Asked(c) /\ Replied(c)' = Replied(c) /\ (Early(c)' <=> Early(c))
        /\ (Late(c)' <=> Late(c))
    BY <1>1 DEF LoginInv, Asked, Replied, Early, Late
  <2>2. \A m \in Asked(c)' : AskedOK(c, m)'
    BY <1>1, <1>2, <2>1 DEF ConnOK, AskedOK
  <2>3. \A m \in Replied(c)' : RepliedOK(c, m)'
    BY <1>1, <1>2, <2>1 DEF ConnOK, RepliedOK
  <2>4. ReadOK(c)' /\ ServerOK(c)'
    BY <1>1, <1>2, <2>1 DEF ConnOK, ReadOK, ServerOK
  <2> QED
    BY <2>2, <2>3, <2>4 DEF ConnOK
<1>5. \A d \in Conns : d # c => ConnOK(d)'
  BY <1>1, <1>2, Untouched DEF LoginInv
<1> QED
  BY <1>3, <1>4, <1>5 DEF LoginInv

LEMMA SendLoginInv ==
  ASSUME LoginInv, NEW c \in Conns, SendLogin(c)
  PROVE  LoginInv'
<1>1. PICK o \in Offers :
        toServer' = [toServer EXCEPT ![c] =
          IF protocol = "v2" THEN <<Magic, ClientHello(c, o), Login(runID)>> ELSE <<Login(runID)>>]
  BY DEF SendLogin
<1> DEFINE new == IF protocol = "v2" THEN <<Magic, ClientHello(c, o), Login(runID)>>
                  ELSE <<Login(runID)>>
<1>2. /\ dialer[c] = "connected"
      /\ dialer' = [dialer EXCEPT ![c] = IF protocol = "v2" THEN "await hello" ELSE "await login"]
      /\ UNCHANGED <<protocol, runID, issued, server, toClient, serverCipher, clientID, serverID>>
  BY DEF SendLogin
<1>3. /\ Magic \in Requests /\ ClientHello(c, o) \in Requests /\ Login(runID) \in Requests
      /\ Magic.type = "magic" /\ ClientHello(c, o).type = "ClientHello"
      /\ Login(runID).type = "Login"
  BY RequestFacts DEF LoginInv, LoginTypeOK
<1>4. /\ new \in Seq(Requests)
      /\ protocol = "v1" => \A m \in Elems(new) : m = Login(runID)
      /\ protocol = "v2" => /\ \A m \in Elems(new) : m \in {Magic, ClientHello(c, o), Login(runID)}
                            /\ new[2] = ClientHello(c, o)
  <2>1. CASE protocol = "v2"
    BY <1>3, <2>1 DEF Elems
  <2>2. CASE protocol = "v1"
    BY <1>3, <2>2 DEF Elems
  <2> QED
    BY <2>1, <2>2 DEF LoginInv, LoginTypeOK
<1> HIDE DEF new
<1>5. toServer'[c] = new /\ \A d \in Conns : d # c => toServer'[d] = toServer[d]
  BY <1>1 DEF LoginInv, LoginTypeOK, new
<1>6. /\ dialer'[c] = IF protocol = "v2" THEN "await hello" ELSE "await login"
      /\ \A d \in Conns : d # c => dialer'[d] = dialer[d]
      /\ dialer' = [d \in Conns |-> dialer'[d]]
  BY <1>2 DEF LoginInv, LoginTypeOK
<1>7. /\ protocol = "v1" => clientCipher'[c] = CipherV1
      /\ protocol = "v2" => clientCipher'[c].transcript[1] = ClientHello(c, o)
      /\ \A d \in Conns : d # c => clientCipher'[d] = clientCipher[d]
      /\ clientCipher' = [d \in Conns |-> clientCipher'[d]]
  <2>1. clientCipher' = [clientCipher EXCEPT ![c] =
          IF protocol = "v2" THEN [@ EXCEPT !.transcript = <<toServer'[c][2]>>] ELSE CipherV1]
    BY DEF SendLogin
  <2>2. clientCipher[c] = NoCipher
    BY <1>2 DEF LoginInv, ConnOK, ReadOK
  <2>3. protocol = "v2" => clientCipher'[c] = [NoCipher EXCEPT !.transcript = <<ClientHello(c, o)>>]
    BY <1>4, <1>5, <2>1, <2>2 DEF LoginInv, LoginTypeOK
  <2>4. protocol = "v2" => clientCipher'[c].transcript[1] = ClientHello(c, o)
    BY <2>3 DEF NoCipher
  <2>5. /\ protocol = "v1" => clientCipher'[c] = CipherV1
        /\ \A d \in Conns : d # c => clientCipher'[d] = clientCipher[d]
        /\ clientCipher' = [d \in Conns |-> clientCipher'[d]]
    BY <2>1 DEF LoginInv, LoginTypeOK
  <2> QED
    BY <2>4, <2>5
<1>8. LoginTypeOK'
  <2>1. toServer' \in [Conns -> Seq(Requests)]
    BY <1>1, <1>4 DEF LoginInv, LoginTypeOK, new
  <2> QED
    BY <1>2, <1>6, <1>7, <2>1 DEF LoginInv, LoginTypeOK
<1>9. ConnOK(c)'
  <2>1. /\ ConnOK(c) /\ Asked(c)' = Elems(new) /\ Replied(c)' = Replied(c)
        /\ (Early(c)' <=> Early(c)) /\ (Late(c)' <=> Late(c)) /\ protocol \in {"v1", "v2"}
    BY <1>2, <1>5 DEF LoginInv, LoginTypeOK, Asked, Replied, Early, Late
  <2>2. \A m \in Asked(c)' : AskedOK(c, m)'
    BY <1>2, <1>3, <1>4, <1>6, <1>7, <2>1 DEF AskedOK
  <2>3. \A m \in Replied(c)' : RepliedOK(c, m)'
    BY <1>2, <2>1 DEF ConnOK, RepliedOK
  <2>4. ReadOK(c)' /\ ServerOK(c)'
    BY <1>2, <1>6, <1>7, <2>1 DEF ConnOK, ReadOK, ServerOK
  <2> QED
    BY <2>2, <2>3, <2>4 DEF ConnOK
<1>10. \A d \in Conns : d # c => ConnOK(d)'
  BY <1>2, <1>5, <1>6, <1>7, Untouched DEF LoginInv
<1> QED
  BY <1>8, <1>9, <1>10 DEF LoginInv

LEMMA ReadServerHelloInv ==
  ASSUME LoginInv, NEW c \in Conns, ReadServerHello(c)
  PROVE  LoginInv'
<1> DEFINE hello == Head(toClient[c])
           sent == clientCipher[c].transcript[1]
<1>1. /\ dialer[c] = "await hello" /\ toClient[c] # <<>>
      /\ hello.type = "ServerHello" /\ ~hello.error
      /\ clientCipher' = [clientCipher EXCEPT ![c] = Cipher(sent, hello)]
      /\ dialer' = [dialer EXCEPT ![c] = "await login"]
      /\ toClient' = [toClient EXCEPT ![c] = Tail(@)]
      /\ UNCHANGED <<protocol, runID, issued, server, toServer, serverCipher, clientID, serverID>>
  BY DEF ReadServerHello, Received
<1>2. /\ hello \in Replies /\ hello \in Elems(toClient[c])
      /\ Tail(toClient[c]) \in Seq(Replies)
      /\ \A m \in Elems(Tail(toClient[c])) : m \in Elems(toClient[c])
  BY <1>1, ElemsTail DEF LoginInv, LoginTypeOK
<1>3. hello.error = FALSE
  BY <1>1, <1>2, ReplyFacts
<1>4. /\ protocol = "v2" /\ ~Early(c) /\ serverCipher[c] = Cipher(sent, hello)
  <2>1. RepliedOK(c, hello)
    BY <1>2 DEF LoginInv, ConnOK, Replied
  <2> QED
    BY <1>1, <1>3, <2>1 DEF RepliedOK
<1> HIDE DEF hello
<1>5. Cipher(sent, hello).protocol = "v2" /\ Cipher(sent, hello).transcript[1] = sent
  BY DEF Cipher
<1>6. /\ clientCipher'[c] = Cipher(sent, hello) /\ dialer'[c] = "await login"
      /\ toClient'[c] = Tail(toClient[c])
      /\ \A d \in Conns : d # c => /\ clientCipher'[d] = clientCipher[d] /\ dialer'[d] = dialer[d]
                                   /\ toClient'[d] = toClient[d]
      /\ clientCipher' = [d \in Conns |-> clientCipher'[d]]
      /\ dialer' = [d \in Conns |-> dialer'[d]]
  BY <1>1 DEF LoginInv, LoginTypeOK
<1>7. LoginTypeOK'
  <2>1. toClient' \in [Conns -> Seq(Replies)]
    BY <1>1, <1>2 DEF LoginInv, LoginTypeOK
  <2> QED
    BY <1>1, <1>6, <2>1 DEF LoginInv, LoginTypeOK
<1>8. ConnOK(c)'
  <2>1. /\ ConnOK(c) /\ Asked(c)' = Asked(c) /\ \A m \in Replied(c)' : m \in Replied(c)
        /\ (Early(c)' <=> Early(c)) /\ (Late(c)' <=> Late(c))
    BY <1>1, <1>2, <1>6 DEF LoginInv, Asked, Replied, Early, Late
  <2>2. \A m \in Asked(c)' : AskedOK(c, m)'
    BY <1>1, <1>4, <2>1 DEF ConnOK, AskedOK
  <2>3. ASSUME NEW m \in Replied(c)' PROVE RepliedOK(c, m)'
    <3>1. RepliedOK(c, m)
      BY <2>1 DEF ConnOK
    <3>2. clientCipher'[c].transcript[1] = clientCipher[c].transcript[1]
      BY <1>5, <1>6
    <3> QED
      BY <1>1, <1>6, <2>1, <3>1, <3>2 DEF RepliedOK
  <2>4. ReadOK(c)' /\ ServerOK(c)'
    BY <1>1, <1>4, <1>5, <1>6, <2>1 DEF ConnOK, ReadOK, ServerOK
  <2> QED
    BY <2>2, <2>3, <2>4 DEF ConnOK
<1>9. \A d \in Conns : d # c => ConnOK(d)'
  BY <1>1, <1>6, Untouched DEF LoginInv
<1> QED
  BY <1>7, <1>8, <1>9 DEF LoginInv

LEMMA ReadLoginRespInv ==
  ASSUME LoginInv, NEW c \in Conns, ReadLoginResp(c)
  PROVE  LoginInv'
<1> DEFINE resp == Head(toClient[c])
<1>1. /\ dialer[c] = "await login" /\ toClient[c] # <<>> /\ resp.type = "LoginResp" /\ ~resp.error
      /\ clientID' = [clientID EXCEPT ![c] = resp.id] /\ runID' = resp.id
      /\ dialer' = [dialer EXCEPT ![c] = "session"]
      /\ toClient' = [toClient EXCEPT ![c] = Tail(@)]
      /\ UNCHANGED <<protocol, issued, server, toServer, clientCipher, serverCipher, serverID>>
  BY DEF ReadLoginResp, Received
<1>2. /\ resp \in Replies /\ resp \in Elems(toClient[c])
      /\ Tail(toClient[c]) \in Seq(Replies)
      /\ \A m \in Elems(Tail(toClient[c])) : m \in Elems(toClient[c])
  BY <1>1, ElemsTail DEF LoginInv, LoginTypeOK
<1>3. resp.error = FALSE /\ resp.id \in Nat
  BY <1>1, <1>2, ReplyFacts
<1>4. /\ Late(c) /\ serverID[c] = resp.id /\ resp.id # NoID
      /\ protocol = "v1" => serverCipher[c] = CipherV1
  <2>1. RepliedOK(c, resp)
    BY <1>2 DEF LoginInv, ConnOK, Replied
  <2> QED
    BY <1>1, <1>3, <2>1 DEF RepliedOK
<1> HIDE DEF resp
<1>5. /\ clientID'[c] = resp.id /\ dialer'[c] = "session" /\ toClient'[c] = Tail(toClient[c])
      /\ \A d \in Conns : d # c => /\ clientID'[d] = clientID[d] /\ dialer'[d] = dialer[d]
                                   /\ toClient'[d] = toClient[d]
      /\ dialer' = [d \in Conns |-> dialer'[d]]
  BY <1>1 DEF LoginInv, LoginTypeOK
<1>6. LoginTypeOK'
  <2>1. toClient' \in [Conns -> Seq(Replies)] /\ clientID' \in [Conns -> Nat] /\ runID' \in Nat
    BY <1>1, <1>2, <1>3 DEF LoginInv, LoginTypeOK
  <2> QED
    BY <1>1, <1>5, <2>1 DEF LoginInv, LoginTypeOK
<1>7. ConnOK(c)'
  <2>1. /\ ConnOK(c) /\ Asked(c)' = Asked(c) /\ \A m \in Replied(c)' : m \in Replied(c)
        /\ (Early(c)' <=> Early(c)) /\ (Late(c)' <=> Late(c)) /\ (Late(c) => ~Early(c))
    BY <1>1, <1>2, <1>5 DEF LoginInv, Asked, Replied, Early, Late
  <2>2. \A m \in Asked(c)' : AskedOK(c, m)'
    BY <1>1, <1>4, <2>1 DEF ConnOK, AskedOK
  <2>3. \A m \in Replied(c)' : RepliedOK(c, m)'
    BY <1>1, <1>5, <2>1 DEF ConnOK, RepliedOK
  <2>4. ReadOK(c)' /\ ServerOK(c)'
    BY <1>1, <1>4, <1>5, <2>1 DEF ConnOK, ReadOK, ServerOK
  <2> QED
    BY <2>2, <2>3, <2>4 DEF ConnOK
<1>8. \A d \in Conns : d # c => ConnOK(d)'
  BY <1>1, <1>5, Untouched DEF LoginInv
<1> QED
  BY <1>6, <1>7, <1>8 DEF LoginInv

LEMMA DialFailsInv ==
  ASSUME LoginInv, NEW c \in Conns, DialFails(c)
  PROVE  LoginInv'
<1>1. /\ dialer[c] \notin {"failed", "session"} /\ dialer' = [dialer EXCEPT ![c] = "failed"]
      /\ toClient' = [toClient EXCEPT ![c] = <<>>]
      /\ clientCipher' = [clientCipher EXCEPT ![c] = NoCipher]
      /\ UNCHANGED <<protocol, runID, issued, server, toServer, serverCipher, clientID, serverID>>
  BY DEF DialFails, MayFail
<1>2. /\ dialer'[c] = "failed" /\ toClient'[c] = <<>> /\ clientCipher'[c] = NoCipher
      /\ \A d \in Conns : d # c => /\ dialer'[d] = dialer[d] /\ toClient'[d] = toClient[d]
                                   /\ clientCipher'[d] = clientCipher[d]
      /\ dialer' = [d \in Conns |-> dialer'[d]]
      /\ clientCipher' = [d \in Conns |-> clientCipher'[d]]
  BY <1>1 DEF LoginInv, LoginTypeOK
<1>3. LoginTypeOK'
  <2>1. toClient' \in [Conns -> Seq(Replies)]
    BY <1>1 DEF LoginInv, LoginTypeOK
  <2> QED
    BY <1>1, <1>2, <2>1 DEF LoginInv, LoginTypeOK
<1>4. ConnOK(c)'
  <2>1. ConnOK(c) /\ Asked(c)' = Asked(c) /\ Replied(c)' = {} /\ (Early(c)' <=> Early(c))
    BY <1>1, <1>2, ElemsEmpty DEF LoginInv, Asked, Replied, Early
  <2>2. \A m \in Asked(c)' : AskedOK(c, m)'
    BY <1>1, <1>2, <2>1 DEF ConnOK, AskedOK
  <2>3. ReadOK(c)' /\ ServerOK(c)'
    BY <1>1, <1>2, <2>1 DEF ConnOK, ReadOK, ServerOK
  <2> QED
    BY <2>1, <2>2, <2>3 DEF ConnOK
<1>5. \A d \in Conns : d # c => ConnOK(d)'
  BY <1>1, <1>2, Untouched DEF LoginInv
<1> QED
  BY <1>3, <1>4, <1>5 DEF LoginInv

-----------------------------------------------------------------------------
(* The server's steps.                                                     *)

LEMMA CheckMagicInv ==
  ASSUME LoginInv, NEW c \in Conns, CheckMagic(c)
  PROVE  LoginInv'
<1>1. /\ server[c] = "none" /\ toServer[c] # <<>>
      /\ UNCHANGED <<protocol, runID, issued, dialer, toClient, clientCipher, clientID, serverID>>
  BY DEF CheckMagic
<1>2. /\ Head(toServer[c]) \in Elems(toServer[c]) /\ Tail(toServer[c]) \in Seq(Requests)
      /\ \A m \in Elems(Tail(toServer[c])) : m \in Elems(toServer[c])
  BY <1>1, ElemsTail DEF LoginInv, LoginTypeOK
<1>3. /\ Early(c) /\ ConnOK(c) /\ AskedOK(c, Head(toServer[c])) /\ protocol \in {"v1", "v2"}
      /\ ~Late(c)
  BY <1>1, <1>2 DEF LoginInv, LoginTypeOK, ConnOK, Asked, Early, Late
<1>4. /\ toServer' \in [Conns -> Seq(Requests)]
      /\ \A d \in Conns : /\ d # c => toServer'[d] = toServer[d]
                          /\ \A m \in Elems(toServer'[d]) : m \in Elems(toServer[d])
  <2>1. toServer' = [toServer EXCEPT ![c] = Tail(@)] \/ toServer' = toServer
    BY DEF CheckMagic, Consume
  <2> QED
    BY <1>2, <2>1 DEF LoginInv, LoginTypeOK
<1>5. /\ \A d \in Conns : d # c => serverCipher'[d] = serverCipher[d] /\ server'[d] = server[d]
      /\ serverCipher' = [d \in Conns |-> serverCipher'[d]]
      /\ server' = [d \in Conns |-> server'[d]]
      /\ \/ server'[c] = "hello" /\ protocol = "v2"
         \/ server'[c] = "login" /\ serverCipher'[c] = CipherV1
  <2>1. CASE Arrived(c, "magic")
    <3>1. /\ server' = [server EXCEPT ![c] = "hello"] /\ protocol = "v2"
          /\ serverCipher' = [serverCipher EXCEPT ![c] = @]
      BY <1>3, <2>1 DEF CheckMagic, GoTo, Arrived, AskedOK
    <3> QED
      BY <3>1 DEF LoginInv, LoginTypeOK
  <2>2. CASE ~Arrived(c, "magic")
    <3>1. /\ server' = [server EXCEPT ![c] = "login"]
          /\ serverCipher' = [serverCipher EXCEPT ![c] = CipherV1]
      BY <2>2 DEF CheckMagic, GoTo
    <3> QED
      BY <3>1 DEF LoginInv, LoginTypeOK
  <2> QED
    BY <2>1, <2>2
<1>6. LoginTypeOK'
  BY <1>1, <1>4, <1>5 DEF LoginInv, LoginTypeOK
<1>7. ConnOK(c)'
  <2>1. /\ \A m \in Asked(c)' : m \in Asked(c)
        /\ Replied(c)' = Replied(c)
    BY <1>1, <1>4 DEF Asked, Replied
  <2>2. \A m \in Asked(c)' : AskedOK(c, m)'
    BY <1>1, <1>3, <2>1 DEF ConnOK, AskedOK
  <2>3. \A m \in Replied(c)' : RepliedOK(c, m)'
    BY <1>1, <1>3, <2>1 DEF ConnOK, RepliedOK
  <2>4. ReadOK(c)'
    BY <1>1, <1>3 DEF ConnOK, ReadOK
  <2>5. ServerOK(c)'
    BY <1>1, <1>5 DEF ServerOK
  <2> QED
    BY <2>2, <2>3, <2>4, <2>5 DEF ConnOK
<1>8. \A d \in Conns : d # c => ConnOK(d)'
  BY <1>1, <1>4, <1>5, Untouched DEF LoginInv
<1> QED
  BY <1>6, <1>7, <1>8 DEF LoginInv

\* An answer goes behind the others, unless nobody reads it any more.
LEMMA AnswerFacts ==
  ASSUME LoginInv, NEW c \in Conns, NEW a \in Replies, Answer(c, a)
  PROVE  /\ toClient' \in [Conns -> Seq(Replies)]
         /\ \A d \in Conns : d # c => toClient'[d] = toClient[d]
         /\ \A m \in Replied(c)' : m \in Replied(c) \/ (m = a /\ dialer[c] # "failed")
<1>1. /\ toClient[c] \in Seq(Replies)
      /\ toClient' = [toClient EXCEPT ![c] = IF dialer[c] = "failed" THEN @ ELSE Append(@, a)]
  BY DEF Answer, LoginInv, LoginTypeOK
<1>2. /\ Append(toClient[c], a) \in Seq(Replies)
      /\ \A m \in Elems(Append(toClient[c], a)) : m \in Elems(toClient[c]) \/ m = a
  BY <1>1, ElemsAppend
<1>3. toClient'[c] = IF dialer[c] = "failed" THEN toClient[c] ELSE Append(toClient[c], a)
  BY <1>1 DEF LoginInv, LoginTypeOK
<1>4. \A m \in Replied(c)' : m \in Replied(c) \/ (m = a /\ dialer[c] # "failed")
  BY <1>2, <1>3 DEF Replied
<1> QED
  BY <1>1, <1>2, <1>4 DEF LoginInv, LoginTypeOK

LEMMA HandleClientHelloInv ==
  ASSUME LoginInv, NEW c \in Conns, HandleClientHello(c)
  PROVE  LoginInv'
<1> DEFINE hello == Head(toServer[c])
           answer == ServerHello(FALSE, SelectAEADAlgorithm(hello.algorithms), c)
<1>1. /\ server[c] = "hello" /\ toServer[c] # <<>> /\ hello.type = "ClientHello"
      /\ Answer(c, answer)
      /\ serverCipher' = [serverCipher EXCEPT ![c] = Cipher(hello, answer)]
      /\ server' = [server EXCEPT ![c] = "login"]
      /\ toServer' = [toServer EXCEPT ![c] = Tail(@)]
      /\ UNCHANGED <<protocol, runID, issued, dialer, clientCipher, clientID, serverID>>
  BY DEF HandleClientHello, Arrived, GoTo, Consume, ServerCipher
<1>2. /\ hello \in Requests /\ hello \in Elems(toServer[c]) /\ Tail(toServer[c]) \in Seq(Requests)
      /\ \A m \in Elems(Tail(toServer[c])) : m \in Elems(toServer[c])
  BY <1>1, ElemsTail DEF LoginInv, LoginTypeOK
<1>3. /\ Early(c) /\ ConnOK(c) /\ ~Late(c) /\ protocol = "v2"
      /\ dialer[c] \in {"await hello", "failed"}
      /\ dialer[c] = "await hello" => clientCipher[c].transcript[1] = hello
  <2>1. Early(c) /\ ConnOK(c) /\ ~Late(c) /\ AskedOK(c, hello)
    BY <1>1, <1>2 DEF LoginInv, ConnOK, Asked, Early, Late
  <2> QED
    BY <1>1, <2>1 DEF AskedOK
<1>4. answer \in Replies /\ answer.type = "ServerHello"
  <2>1. PICK o \in Offers : hello.algorithms = o
    BY <1>1, <1>2, RequestFacts
  <2>2. SelectAEADAlgorithm(hello.algorithms) \in Algorithms /\ c \in Nat
    BY <2>1, SelectFacts DEF Conns
  <2>3. PICK a \in Algorithms \cup {"none"} : answer = ServerHello(FALSE, a, c)
    BY <2>2
  <2> HIDE DEF answer
  <2> QED
    BY <2>2, <2>3, ReplyFacts
<1> HIDE DEF hello, answer
<1>5. /\ toClient' \in [Conns -> Seq(Replies)]
      /\ \A d \in Conns : d # c => toClient'[d] = toClient[d]
      /\ \A m \in Replied(c)' : m \in Replied(c) \/ (m = answer /\ dialer[c] # "failed")
  BY <1>1, <1>4, AnswerFacts
<1>6. /\ server'[c] = "login" /\ serverCipher'[c] = Cipher(hello, answer)
      /\ toServer'[c] = Tail(toServer[c])
      /\ \A d \in Conns : d # c => /\ server'[d] = server[d] /\ serverCipher'[d] = serverCipher[d]
                                   /\ toServer'[d] = toServer[d]
      /\ server' = [d \in Conns |-> server'[d]]
      /\ serverCipher' = [d \in Conns |-> serverCipher'[d]]
      /\ toServer' \in [Conns -> Seq(Requests)]
  BY <1>1, <1>2 DEF LoginInv, LoginTypeOK
<1>7. LoginTypeOK'
  BY <1>1, <1>5, <1>6 DEF LoginInv, LoginTypeOK
<1>8. ConnOK(c)'
  <2>1. (\A m \in Asked(c)' : m \in Asked(c)) /\ ~Early(c)' /\ ~Late(c)'
    BY <1>2, <1>6 DEF Asked, Early, Late
  <2>2. \A m \in Asked(c)' : AskedOK(c, m)'
    BY <1>1, <1>3, <2>1 DEF ConnOK, AskedOK
  <2>3. ASSUME NEW m \in Replied(c)' PROVE RepliedOK(c, m)'
    <3>1. CASE m \in Replied(c)
      <4>1. RepliedOK(c, m)
        BY <1>3, <3>1 DEF ConnOK
      <4> QED
        BY <1>3, <4>1 DEF RepliedOK
    <3>2. CASE m = answer /\ dialer[c] # "failed"
      BY <1>1, <1>3, <1>4, <1>6, <2>1, <3>2 DEF RepliedOK
    <3> QED
      BY <1>5, <3>1, <3>2
  <2>4. ReadOK(c)' /\ ServerOK(c)'
    BY <1>1, <1>3, <1>6 DEF ConnOK, ReadOK, ServerOK
  <2> QED
    BY <2>2, <2>3, <2>4 DEF ConnOK
<1>9. \A d \in Conns : d # c => ConnOK(d)'
  BY <1>1, <1>5, <1>6, Untouched DEF LoginInv
<1> QED
  BY <1>7, <1>8, <1>9 DEF LoginInv

\* An error, or the end of the connection.
LEMMA RefusedInv ==
  ASSUME LoginInv, NEW c \in Conns, server' = [server EXCEPT ![c] = "closed"],
         \/ toServer' = [toServer EXCEPT ![c] = <<>>]
         \/ toServer[c] # <<>> /\ toServer' = [toServer EXCEPT ![c] = Tail(@)],
         \/ UNCHANGED toClient
         \/ Answer(c, ServerHello(TRUE, "none", 0))
         \/ Answer(c, LoginResp(TRUE, NoID)),
         UNCHANGED <<protocol, runID, issued, dialer, clientCipher, serverCipher, clientID,
                     serverID>>
  PROVE  LoginInv'
<1>1. /\ toServer' \in [Conns -> Seq(Requests)]
      /\ \A d \in Conns : d # c => toServer'[d] = toServer[d]
      /\ \A m \in Asked(c)' : m \in Asked(c)
  <2>1. CASE toServer' = [toServer EXCEPT ![c] = <<>>]
    <3>1. toServer'[c] = <<>> /\ Asked(c)' = {}
      BY <2>1, ElemsEmpty DEF LoginInv, LoginTypeOK, Asked
    <3> QED
      BY <2>1, <3>1 DEF LoginInv, LoginTypeOK
  <2>2. CASE toServer[c] # <<>> /\ toServer' = [toServer EXCEPT ![c] = Tail(@)]
    <3>1. /\ Tail(toServer[c]) \in Seq(Requests)
          /\ \A m \in Elems(Tail(toServer[c])) : m \in Elems(toServer[c])
      BY <2>2, ElemsTail DEF LoginInv, LoginTypeOK
    <3> QED
      BY <2>2, <3>1 DEF LoginInv, LoginTypeOK, Asked
  <2> QED
    BY <2>1, <2>2
<1>2. /\ toClient' \in [Conns -> Seq(Replies)]
      /\ \A d \in Conns : d # c => toClient'[d] = toClient[d]
      /\ \A m \in Replied(c)' : m \in Replied(c) \/ m.error = TRUE
  <2>1. /\ ServerHello(TRUE, "none", 0) \in Replies /\ ServerHello(TRUE, "none", 0).error = TRUE
        /\ LoginResp(TRUE, NoID) \in Replies /\ LoginResp(TRUE, NoID).error = TRUE
    BY ReplyFacts DEF NoID
  <2>2. CASE UNCHANGED toClient
    BY <2>2 DEF LoginInv, LoginTypeOK, Replied
  <2>3. CASE Answer(c, ServerHello(TRUE, "none", 0))
    BY <2>1, <2>3, AnswerFacts
  <2>4. CASE Answer(c, LoginResp(TRUE, NoID))
    BY <2>1, <2>4, AnswerFacts
  <2> QED
    BY <2>2, <2>3, <2>4
<1>3. /\ server'[c] = "closed" /\ \A d \in Conns : d # c => server'[d] = server[d]
      /\ server' = [d \in Conns |-> server'[d]]
  BY DEF LoginInv, LoginTypeOK
<1>4. LoginTypeOK'
  BY <1>1, <1>2, <1>3 DEF LoginInv, LoginTypeOK
<1>5. ConnOK(c)'
  <2>1. ConnOK(c) /\ ~Early(c)' /\ Late(c)'
    BY <1>3 DEF LoginInv, Early, Late
  <2>2. \A m \in Asked(c)' : AskedOK(c, m)'
    BY <1>1, <2>1 DEF ConnOK, AskedOK
  <2>3. ASSUME NEW m \in Replied(c)' PROVE RepliedOK(c, m)'
    <3>1. CASE m \in Replied(c)
      BY <2>1, <3>1 DEF ConnOK, RepliedOK
    <3>2. CASE m.error = TRUE
      BY <3>2 DEF RepliedOK
    <3> QED
      BY <1>2, <3>1, <3>2
  <2>4. ReadOK(c)' /\ ServerOK(c)'
    BY <1>3, <2>1 DEF ConnOK, ReadOK, ServerOK
  <2> QED
    BY <2>2, <2>3, <2>4 DEF ConnOK
<1>6. \A d \in Conns : d # c => ConnOK(d)'
  BY <1>1, <1>2, <1>3, Untouched DEF LoginInv
<1> QED
  BY <1>4, <1>5, <1>6 DEF LoginInv

LEMMA RegisterControlInv ==
  ASSUME LoginInv, NEW c \in Conns, RegisterControl(c)
  PROVE  LoginInv'
<1> DEFINE asked == Head(toServer[c]).id
           id == IF asked = NoID THEN issued + 1 ELSE asked
<1>1. /\ server[c] = "login" /\ toServer[c] # <<>> /\ Head(toServer[c]).type = "Login"
      /\ issued' = IF asked = NoID THEN id ELSE issued
      /\ serverID' = [serverID EXCEPT ![c] = id]
      /\ server' = [d \in Conns |-> IF d = c THEN "respond"
                      ELSE IF serverID[d] = id THEN "closed" ELSE server[d]]
      /\ toServer' = [toServer EXCEPT ![c] = Tail(@)]
      /\ UNCHANGED <<protocol, runID, dialer, toClient, clientCipher, serverCipher, clientID>>
  BY DEF RegisterControl, Arrived, Consume
<1>2. /\ Head(toServer[c]) \in Requests /\ Tail(toServer[c]) \in Seq(Requests)
      /\ \A m \in Elems(Tail(toServer[c])) : m \in Elems(toServer[c])
  BY <1>1, ElemsTail DEF LoginInv, LoginTypeOK
<1>3. asked \in Nat /\ issued \in Nat
  BY <1>1, <1>2, RequestFacts DEF LoginInv, LoginTypeOK
<1>4. id \in Nat /\ id # NoID /\ issued' \in Nat
  BY <1>1, <1>3 DEF NoID
<1> HIDE DEF id
<1>5. /\ server'[c] = "respond" /\ serverID'[c] = id /\ toServer'[c] = Tail(toServer[c])
      /\ \A d \in Conns : d # c => /\ server'[d] = server[d] \/ server'[d] = "closed"
                                   /\ serverID'[d] = serverID[d] /\ toServer'[d] = toServer[d]
      /\ server' = [d \in Conns |-> server'[d]]
      /\ serverID' \in [Conns -> Nat] /\ toServer' \in [Conns -> Seq(Requests)]
  BY <1>1, <1>2, <1>4 DEF LoginInv, LoginTypeOK
<1>6. LoginTypeOK'
  BY <1>1, <1>4, <1>5 DEF LoginInv, LoginTypeOK
<1>7. ConnOK(c)'
  <2>1. /\ ConnOK(c) /\ (\A m \in Asked(c)' : m \in Asked(c)) /\ Replied(c)' = Replied(c)
        /\ ~Early(c)' /\ ~Late(c)
    BY <1>1, <1>2, <1>5 DEF LoginInv, Asked, Replied, Early, Late
  <2>2. \A m \in Asked(c)' : AskedOK(c, m)'
    BY <1>1, <2>1 DEF ConnOK, AskedOK
  <2>3. \A m \in Replied(c)' : RepliedOK(c, m)'
    BY <1>1, <2>1 DEF ConnOK, RepliedOK
  <2>4. ReadOK(c)' /\ ServerOK(c)'
    BY <1>1, <1>4, <1>5, <2>1 DEF ConnOK, ReadOK, ServerOK
  <2> QED
    BY <2>2, <2>3, <2>4 DEF ConnOK
<1>8. \A d \in Conns : d # c => ConnOK(d)'
  BY <1>1, <1>5, Untouched DEF LoginInv
<1> QED
  BY <1>6, <1>7, <1>8 DEF LoginInv

LEMMA CompleteLoginInv ==
  ASSUME LoginInv, NEW c \in Conns, CompleteLogin(c)
  PROVE  LoginInv'
<1> DEFINE answer == LoginResp(FALSE, serverID[c])
<1>1. /\ server[c] = "respond" /\ Answer(c, answer) /\ server' = [server EXCEPT ![c] = "active"]
      /\ UNCHANGED <<protocol, runID, issued, dialer, toServer, clientCipher, serverCipher,
                     clientID, serverID>>
  BY DEF CompleteLogin, GoTo
<1>2. /\ ConnOK(c) /\ protocol \in {"v1", "v2"} /\ serverID[c] \in Nat /\ serverID[c] # NoID
      /\ protocol = "v1" => serverCipher[c] = CipherV1
  BY <1>1 DEF LoginInv, LoginTypeOK, ConnOK, ServerOK
<1>3. answer \in Replies /\ answer.type = "LoginResp" /\ answer.id = serverID[c]
  BY <1>2, ReplyFacts
<1> HIDE DEF answer
<1>4. /\ toClient' \in [Conns -> Seq(Replies)]
      /\ \A d \in Conns : d # c => toClient'[d] = toClient[d]
      /\ \A m \in Replied(c)' : m \in Replied(c) \/ m = answer
  BY <1>1, <1>3, AnswerFacts
<1>5. /\ server'[c] = "active" /\ \A d \in Conns : d # c => server'[d] = server[d]
      /\ server' = [d \in Conns |-> server'[d]]
  BY <1>1 DEF LoginInv, LoginTypeOK
<1>6. LoginTypeOK'
  BY <1>1, <1>4, <1>5 DEF LoginInv, LoginTypeOK
<1>7. ConnOK(c)'
  <2>1. Asked(c)' = Asked(c) /\ ~Early(c)' /\ Late(c)'
    BY <1>1, <1>5 DEF Asked, Early, Late
  <2>2. \A m \in Asked(c)' : AskedOK(c, m)'
    BY <1>1, <1>2, <2>1 DEF ConnOK, AskedOK
  <2>3. ASSUME NEW m \in Replied(c)' PROVE RepliedOK(c, m)'
    <3>1. CASE m \in Replied(c)
      BY <1>1, <1>2, <2>1, <3>1 DEF ConnOK, RepliedOK
    <3>2. CASE m = answer
      BY <1>1, <1>2, <1>3, <2>1, <3>2 DEF RepliedOK
    <3> QED
      BY <1>4, <3>1, <3>2
  <2>4. ReadOK(c)' /\ ServerOK(c)'
    BY <1>1, <1>2, <1>5, <2>1 DEF ConnOK, ReadOK, ServerOK
  <2> QED
    BY <2>2, <2>3, <2>4 DEF ConnOK
<1>8. \A d \in Conns : d # c => ConnOK(d)'
  BY <1>1, <1>4, <1>5, Untouched DEF LoginInv
<1> QED
  BY <1>6, <1>7, <1>8 DEF LoginInv

LEMMA LoginServerInv ==
  ASSUME LoginInv, NEW c \in Conns, LoginServer(c)
  PROVE  LoginInv'
<1>1. CASE RefuseClientHello(c)
  BY <1>1, RefusedInv DEF RefuseClientHello, Arrived, GoTo, Consume
<1>2. CASE RefuseLogin(c)
  BY <1>2, RefusedInv DEF RefuseLogin, GoTo
<1>3. CASE ServerCloses(c)
  BY <1>3, RefusedInv DEF ServerCloses, GoTo
<1> QED
  BY <1>1, <1>2, <1>3, CheckMagicInv, HandleClientHelloInv, RegisterControlInv, CompleteLoginInv
  DEF LoginServer

LEMMA LoginClientInv ==
  ASSUME LoginInv, NEW c \in Conns, LoginClient(c)
  PROVE  LoginInv'
BY DialBegins, SendLoginInv, ReadServerHelloInv, ReadLoginRespInv, DialFailsInv DEF LoginClient

\* Everything else leaves the exchange alone; closing a connection is no more
\* than that.
LEMMA LoginFrame ==
  ASSUME LoginInv, UNCHANGED <<protocol, runID, issued, dialer, server, toServer, toClient,
                               clientCipher, serverCipher, clientID, serverID>>
  PROVE  LoginInv'
<1>1. LoginTypeOK'
  BY DEF LoginInv, LoginTypeOK
<1> QED
  BY <1>1, Untouched DEF LoginInv

-----------------------------------------------------------------------------
(* The service.                                                            *)

LEMMA SourceFacts ==
  ASSUME entries \in Entries, NEW main \in Entries, NEW list
  PROVE  FromSources(main, list) \in Entries
BY ConfigValues DEF ConfigValues, FromSources, Filter, Load, Entries

LEMMA ConnFacts ==
  /\ MaxConn \in Nat /\ Nil = 0 /\ Nil \notin Conns
  /\ \A i \in 0..MaxConn : i # 0 => i \in Conns
BY HandshakeValues DEF HandshakeValues, Nil, Conns

LEMMA EmptyFacts == Empty \in Entries
BY DEF Empty, Entries

\* A step of the goroutine that logs in, between two reads of svr.ctl.
LEMMA LoopFrame ==
  ASSUME ServiceInv, UNCHANGED <<entries, cfg, target, overlap, ctl, attempt, applied, done, reload,
                                 read>>,
         phase' = phase \/ phase' # "up",
         \/ login' \notin {"dial", "run", "install", "check", "await", "wait"}
         \/ login' = login
         \/ login \in {"check", "await", "wait"} /\ login' \in {"check", "await", "wait"}
         \/ phase' # "up" /\ login' = "check"
  PROVE  ServiceInv'
<1>1. ServiceTypeOK'
  BY DEF ServiceInv, ServiceTypeOK
<1>2. ControlOK'
  BY DEF ServiceInv, ControlOK
<1>3. ConfigOK'
  BY DEF ServiceInv, ConfigOK
<1> QED
  BY <1>1, <1>2, <1>3 DEF ServiceInv

LEMMA LoginLoopInv ==
  ASSUME ServiceInv, LoginLoop
  PROVE  ServiceInv'
<1>1. CASE Attempt
  <2>1. /\ attempt < MaxConn /\ attempt' = attempt + 1 /\ login' = "dial"
        /\ UNCHANGED <<entries, cfg, target, overlap, phase, ctl, read, applied, done, reload>>
    BY <1>1 DEF Attempt, LoginStep, configVars
  <2>2. /\ attempt' \in 0..MaxConn /\ ctl' \in 0..attempt' /\ attempt' \in Conns /\ ctl' # attempt'
    BY <2>1, ConnFacts DEF ServiceInv, ServiceTypeOK, Conns
  <2> QED
    BY <2>1, <2>2 DEF ServiceInv, ServiceTypeOK, ControlOK, ConfigOK
<1>2. CASE ReadCfg
  <2>1. /\ login = "dial" /\ login' = "run" /\ read' = cfg /\ overlap' = FALSE
        /\ UNCHANGED <<entries, cfg, target, phase, ctl, attempt, applied, done, reload>>
    BY <1>2 DEF ReadCfg, LoginStep
  <2> QED
    BY <2>1 DEF ServiceInv, ServiceTypeOK, ControlOK, ConfigOK
<1>3. CASE RunControl
  <2>1. /\ login = "run" /\ login' = "install" /\ applied' = [applied EXCEPT ![attempt] = read]
        /\ UNCHANGED <<entries, cfg, target, overlap, phase, ctl, attempt, read, done, reload>>
    BY <1>3 DEF RunControl, LoginStep, configVars
  <2>2. attempt \in Conns /\ applied'[attempt] = read /\ applied' \in [Conns -> Entries]
    BY <2>1 DEF ServiceInv, ServiceTypeOK, ControlOK
  <2>3. ServiceTypeOK' /\ ControlOK'
    BY <2>1, <2>2 DEF ServiceInv, ServiceTypeOK, ControlOK
  <2>4. ConfigOK'
    BY <2>1, <2>2 DEF ServiceInv, ConfigOK
  <2> QED
    BY <2>3, <2>4 DEF ServiceInv
<1>4. CASE Install
  <2>1. /\ login = "install" /\ login' \in {"await", "check"} /\ ctl' = attempt
        /\ UNCHANGED <<entries, cfg, target, overlap, phase, attempt, read, done, reload>>
        /\ applied' = IF ctl # Nil THEN [applied EXCEPT ![ctl] = Empty] ELSE applied
    BY <1>4 DEF Install, LoginStep, CloseControl, configVars
  <2>2. attempt \in Conns /\ ctl # attempt /\ attempt \in 0..MaxConn /\ attempt \in Nat
    BY <2>1, ConnFacts DEF ServiceInv, ServiceTypeOK, ControlOK
  <2>3. applied'[attempt] = applied[attempt] /\ applied' \in [Conns -> Entries]
    BY <2>1, <2>2, EmptyFacts DEF ServiceInv, ServiceTypeOK
  <2>4. ServiceTypeOK' /\ ControlOK'
    BY <2>1, <2>2, <2>3 DEF ServiceInv, ServiceTypeOK, ControlOK
  <2>5. ConfigOK'
    BY <2>1, <2>2, <2>3 DEF ServiceInv, ConfigOK
  <2> QED
    BY <2>4, <2>5 DEF ServiceInv
<1>5. CASE DialFailed
  BY <1>5, LoopFrame DEF DialFailed, LoginStep, configVars
<1>6. CASE LoopReturns
  BY <1>6, LoopFrame DEF LoopReturns, LoginStep, configVars
<1>7. CASE CheckControl \/ AwaitControl \/ AwaitNil \/ ControlDone
  BY <1>7, LoopFrame DEF CheckControl, AwaitControl, AwaitNil, ControlDone, LoginStep, configVars
<1> QED
  BY <1>1, <1>2, <1>3, <1>4, <1>5, <1>6, <1>7 DEF LoginLoop

LEMMA WorkerDoneInv ==
  ASSUME ServiceInv, NEW c \in Conns, WorkerDone(c)
  PROVE  ServiceInv'
<1>1. /\ done' = [done EXCEPT ![c] = TRUE] /\ applied' = [applied EXCEPT ![c] = Empty]
      /\ UNCHANGED <<entries, cfg, target, overlap, phase, ctl, attempt, login, read, reload>>
  BY DEF WorkerDone, configVars
<1>2. \A d \in Conns : d # c => done'[d] = done[d] /\ applied'[d] = applied[d]
  BY <1>1 DEF ServiceInv, ServiceTypeOK
<1>3. done'[c] = TRUE /\ done' \in [Conns -> BOOLEAN] /\ applied' \in [Conns -> Entries]
  BY <1>1, EmptyFacts DEF ServiceInv, ServiceTypeOK
<1>4. ServiceTypeOK' /\ ControlOK'
  BY <1>1, <1>3 DEF ServiceInv, ServiceTypeOK, ControlOK
<1>5. ConfigOK'
  <2>1. login = "install" => attempt \in Conns
    BY DEF ServiceInv, ControlOK
  <2>2. phase = "up" /\ login \in {"check", "await", "wait"} => ctl \in Conns
    BY DEF ServiceInv, ControlOK
  <2> QED
    BY <1>1, <1>2, <1>3, <2>1, <2>2 DEF ServiceInv, ConfigOK
<1> QED
  BY <1>4, <1>5 DEF ServiceInv

LEMMA ReloadInv ==
  ASSUME ServiceInv,
         \/ \E main \in Entries, list \in Starts : ReloadSet(main, list)
         \/ ReloadControl \/ ReloadApply
  PROVE  ServiceInv'
<1>1. ASSUME NEW main \in Entries, NEW list \in Starts, ReloadSet(main, list) PROVE ServiceInv'
  <2>1. /\ cfg' = FromSources(main, list) /\ target' = cfg'
        /\ overlap' = (login \in {"run", "install"}) /\ reload' = "ctl"
        /\ UNCHANGED <<entries, phase, ctl, attempt, login, read, applied, done>>
    BY <1>1 DEF ReloadSet
  <2>2. cfg' \in Entries
    BY <2>1, SourceFacts DEF ServiceInv, ServiceTypeOK
  <2>3. ServiceTypeOK' /\ ControlOK'
    BY <2>1, <2>2 DEF ServiceInv, ServiceTypeOK, ControlOK
  <2>4. ConfigOK'
    BY <2>1 DEF ServiceInv, ConfigOK
  <2> QED
    BY <2>3, <2>4 DEF ServiceInv
<1>2. CASE ReloadControl
  <2>1. /\ reload = "ctl" /\ reload' = IF ctl = Nil THEN "idle" ELSE "apply"
        /\ UNCHANGED <<entries, cfg, target, overlap, phase, ctl, attempt, login, read, applied,
                       done>>
    BY <1>2 DEF ReloadControl, configVars
  <2>2. ServiceTypeOK' /\ ControlOK'
    BY <2>1 DEF ServiceInv, ServiceTypeOK, ControlOK
  <2>3. ConfigOK'
    BY <2>1, ConnFacts DEF ServiceInv, ConfigOK, ControlOK
  <2> QED
    BY <2>2, <2>3 DEF ServiceInv
<1>3. CASE ReloadApply
  <2>1. /\ reload' = "idle" /\ phase' = IF ctl = Nil THEN "dead" ELSE phase
        /\ applied' = IF ctl = Nil THEN applied ELSE [applied EXCEPT ![ctl] = target]
        /\ UNCHANGED <<entries, cfg, target, overlap, ctl, attempt, login, read, done>>
    BY <1>3 DEF ReloadApply, configVars
  <2>2. ctl # Nil => ctl \in Conns
    BY ConnFacts DEF ServiceInv, ServiceTypeOK
  <2>3. /\ applied' \in [Conns -> Entries]
        /\ \A d \in Conns : applied'[d] = IF d = ctl THEN target ELSE applied[d]
    BY <2>1, <2>2, ConnFacts DEF ServiceInv, ServiceTypeOK
  <2>4. ServiceTypeOK' /\ ControlOK'
    BY <2>1, <2>3 DEF ServiceInv, ServiceTypeOK, ControlOK
  <2>5. ConfigOK'
    BY <2>1, <2>3 DEF ServiceInv, ConfigOK, ControlOK
  <2> QED
    BY <2>4, <2>5 DEF ServiceInv
<1> QED
  BY <1>1, <1>2, <1>3

\* Start, and what ends the service.
LEMMA RunInv ==
  ASSUME ServiceInv,
         \/ \E main, included \in Entries, list \in Starts : Start(main, included, list)
         \/ Cancel \/ StopSources \/ StopControl
  PROVE  ServiceInv'
<1>1. ASSUME NEW main \in Entries, NEW included \in Entries, NEW list \in Starts,
             Start(main, included, list)
      PROVE  ServiceInv'
  <2>1. /\ cfg' = FromSources(Merged(main, included), list) /\ target' = cfg'
        /\ login' = "pause"
        /\ UNCHANGED <<entries, ctl, attempt, read, applied, done, reload, overlap>>
    BY <1>1 DEF Start, Loaded
  <2>2. Merged(main, included) \in Entries
    BY DEF Merged, Entries
  <2>3. cfg' \in Entries
    BY <2>1, <2>2, SourceFacts DEF ServiceInv, ServiceTypeOK
  <2> QED
    BY <2>1, <2>3 DEF ServiceInv, ServiceTypeOK, ControlOK, ConfigOK
<1>2. CASE Cancel \/ StopSources
  <2>1. /\ phase' # "up" /\ login' = login
        /\ UNCHANGED <<entries, cfg, target, overlap, ctl, attempt, applied, done, reload, read>>
    BY <1>2 DEF Cancel, StopSources, configVars, ctlVars
  <2> QED
    BY <2>1, LoopFrame
<1>3. CASE StopControl
  <2>1. /\ phase' = "stopped" /\ ctl' = Nil
        /\ applied' = IF ctl # Nil THEN [applied EXCEPT ![ctl] = Empty] ELSE applied
        /\ UNCHANGED <<entries, cfg, target, overlap, attempt, login, done, reload, read>>
    BY <1>3 DEF StopControl, CloseControl, configVars, ctlVars
  <2>2. /\ applied' \in [Conns -> Entries]
        /\ \A d \in Conns : d # ctl => applied'[d] = applied[d]
    BY <2>1, EmptyFacts DEF ServiceInv, ServiceTypeOK
  <2>3. ServiceTypeOK' /\ ControlOK'
    BY <2>1, <2>2, ConnFacts DEF ServiceInv, ServiceTypeOK, ControlOK
  <2>4. ConfigOK'
    BY <2>1, <2>2 DEF ServiceInv, ConfigOK, ControlOK
  <2> QED
    BY <2>3, <2>4 DEF ServiceInv
<1> QED
  BY <1>1, <1>2, <1>3

-----------------------------------------------------------------------------
(* The theorems.                                                           *)

LEMMA ServiceInitInv == ASSUME ServiceInit PROVE LoginInv /\ ServiceInv
<1>1. LoginTypeOK
  BY DEF ServiceInit, LoginInit, LoginTypeOK, NoID
<1>2. ASSUME NEW c \in Conns PROVE ConnOK(c)
  <2>1. Asked(c) = {} /\ Replied(c) = {}
    BY ElemsEmpty DEF ServiceInit, LoginInit, Asked, Replied
  <2>2. ReadOK(c) /\ ServerOK(c)
    BY DEF ServiceInit, LoginInit, ReadOK, ServerOK
  <2> QED
    BY <2>1, <2>2 DEF ConnOK
<1>3. ServiceTypeOK
  <2>1. attempt \in 0..MaxConn /\ ctl \in 0..attempt
    BY ConnFacts DEF ServiceInit
  <2>2. applied \in [Conns -> Entries] /\ done \in [Conns -> BOOLEAN]
    BY EmptyFacts DEF ServiceInit
  <2> QED
    BY <2>1, <2>2, EmptyFacts DEF ServiceInit, ServiceTypeOK
<1>4. ControlOK /\ ConfigOK
  BY DEF ServiceInit, ControlOK, ConfigOK
<1> QED
  BY <1>1, <1>2, <1>3, <1>4 DEF LoginInv, ServiceInv

LEMMA ServiceStepInv ==
  ASSUME LoginInv, ServiceInv, [ServiceNext]_allVars
  PROVE  LoginInv' /\ ServiceInv'
<1>1. ASSUME UNCHANGED <<entries, serviceVars>> PROVE ServiceInv'
  <2>1. UNCHANGED <<entries, cfg, target, overlap, ctl, attempt, applied, done, reload, read, phase,
                    login>>
    BY <1>1 DEF serviceVars
  <2> QED
    BY <2>1, LoopFrame
<1>2. CASE LoginLoop
  <2>1. UNCHANGED <<protocol, runID, issued, dialer, server, toServer, toClient, clientCipher,
                    serverCipher, clientID, serverID>>
    BY <1>2 DEF LoginLoop, Attempt, DialFailed, ReadCfg, RunControl, Install, CloseControl,
                LoopReturns, CheckControl, AwaitControl, AwaitNil, ControlDone, loginVars
  <2> QED
    BY <1>2, <2>1, LoginLoopInv, LoginFrame
<1>3. CASE Dialing
  <2>1. attempt \in Conns /\ LoginClient(attempt) /\ UNCHANGED <<entries, serviceVars>>
    BY <1>3 DEF Dialing, ServiceInv, ControlOK
  <2> QED
    BY <1>1, <2>1, LoginClientInv
<1>4. CASE \E c \in Conns : ServerStep(c)
  BY <1>1, <1>4, LoginServerInv DEF ServerStep
<1>5. CASE \E c \in Conns : WorkerDone(c)
  <2>1. UNCHANGED loginVars
    BY <1>5 DEF WorkerDone
  <2> QED
    BY <1>5, <2>1, WorkerDoneInv, LoginFrame DEF loginVars
<1>6. CASE \/ \E main \in Entries, list \in Starts : ReloadSet(main, list)
           \/ ReloadControl \/ ReloadApply
  <2>1. UNCHANGED loginVars
    BY <1>6 DEF ReloadSet, ReloadControl, ReloadApply
  <2> QED
    BY <1>6, <2>1, ReloadInv, LoginFrame DEF loginVars
<1>7. CASE \/ \E main, included \in Entries, list \in Starts : Start(main, included, list)
           \/ Cancel \/ StopSources \/ StopControl
  <2>1. UNCHANGED <<protocol, runID, issued, dialer, server, toServer, toClient, clientCipher,
                    serverCipher, clientID, serverID>>
    BY <1>7 DEF Start, Cancel, StopSources, StopControl, CloseControl, loginVars
  <2> QED
    BY <1>7, <2>1, RunInv, LoginFrame
<1>8. CASE ChangeStore
  <2>1. /\ UNCHANGED <<loginVars, serviceVars>>
        /\ \E k \in Keys, v \in Cfgs \cup {NoCfg} : entries' = [entries EXCEPT ![k] = v]
    BY <1>8 DEF ChangeStore
  <2>2. entries' \in Entries
    BY <2>1 DEF ServiceInv, ServiceTypeOK, Entries
  <2>3. ServiceTypeOK' /\ ControlOK' /\ ConfigOK'
    BY <2>1, <2>2 DEF ServiceInv, ServiceTypeOK, ControlOK, ConfigOK, serviceVars
  <2> QED
    BY <2>1, <2>3, LoginFrame DEF loginVars, ServiceInv
<1>9. CASE UNCHANGED allVars
  BY <1>1, <1>9, LoginFrame DEF allVars, loginVars
<1> QED
  BY <1>2, <1>3, <1>4, <1>5, <1>6, <1>7, <1>8, <1>9 DEF ServiceNext

(***************************************************************************)
(* The inductive invariants of the exchange, for each connection, and of   *)
(* the service: loginFunc, the reloads and stop share svr.ctl and the      *)
(* configuration, and a control is installed once.                         *)
(***************************************************************************)
THEOREM ServiceInvariance == ServiceSpec => [](LoginInv /\ ServiceInv)
<1>1. ServiceInit => LoginInv /\ ServiceInv
  BY ServiceInitInv
<1>2. LoginInv /\ ServiceInv /\ [ServiceNext]_allVars => LoginInv' /\ ServiceInv'
  BY ServiceStepInv
<1> QED
  BY <1>1, <1>2, PTL DEF ServiceSpec

(***************************************************************************)
(* For any number of reloads and reconnections: a control that is up runs  *)
(* what the last reload computed, but for the window in loginFunc.         *)
(***************************************************************************)
THEOREM ReloadsAreApplied == ServiceSpec => []ReloadApplied
<1>1. ASSUME ServiceInv PROVE ReloadApplied
  <2>1. phase = "up" /\ login = "wait" => done[ctl] \in BOOLEAN
    BY <1>1 DEF ServiceInv, ServiceTypeOK, ControlOK
  <2> QED
    BY <1>1, <2>1 DEF ServiceInv, ServiceTypeOK, ConfigOK, ReloadApplied
<1> QED
  BY <1>1, ServiceInvariance, PTL

(***************************************************************************)
(* For any files, includes, stores and start lists: an enabled entry that  *)
(* is to be started is run, or overridden by the store.                    *)
(***************************************************************************)
THEOREM StartLosesNothing == ServiceSpec => StartKeepsEntries
<1>1. ASSUME NEW main \in Entries, NEW included \in Entries, NEW list \in Starts,
             Start(main, included, list), NEW k \in Keys, NEW e \in {main[k], included[k]},
             Enabled(e), list = {} \/ k \in list
      PROVE  cfg'[k] = e \/ Enabled(entries[k])
  <2>1. /\ main[k] = NoCfg \/ included[k] = NoCfg
        /\ cfg' = Filter(list, Load(Merged(main, included), entries))
    BY <1>1 DEF Start, Loaded, NoDuplicates, FromSources
  <2>2. Merged(main, included)[k] = e
    BY <1>1, <2>1 DEF Merged, Enabled
  <2> QED
    BY <1>1, <2>1, <2>2 DEF Filter, Load
<1>2. [ServiceNext]_allVars =>
        [\A main, included \in Entries, list \in Starts : Start(main, included, list) =>
           \A k \in Keys : \A e \in {main[k], included[k]} :
             Enabled(e) /\ (list = {} \/ k \in list) => cfg'[k] = e \/ Enabled(entries[k])]_allVars
  BY <1>1
<1> QED
  BY <1>2, PTL DEF ServiceSpec, StartKeepsEntries

-----------------------------------------------------------------------------
(* One run, and no session left open.                                      *)

Unsent == {"none", "opened", "connected"}
Awaiting == {"await hello", "await login"}

(***************************************************************************)
(* What one connection knows of the run: before the login is sent the      *)
(* server has nothing of it; while it is under way it asks for the run the *)
(* client is in, and is the attempt loopLoginUntilSuccess is at.           *)
(***************************************************************************)
RunAt(c) ==
  /\ dialer[c] \in Unsent => serverID[c] = NoID /\ toServer[c] = <<>>
  /\ dialer[c] \in Awaiting =>
       /\ \A m \in Asked(c) : m.type = "Login" => m.id = runID
       /\ serverID[c] # NoID /\ runID # NoID => serverID[c] = runID
  /\ dialer[c] = "session" => clientID[c] = runID
  /\ dialer[c] \in Awaiting \cup {"opened", "connected"} => c = attempt /\ login = "dial"

OneRunInv == \A c \in Conns : RunAt(c)

(***************************************************************************)
(* Which sessions are open, and that the control that is waited for is one *)
(* of the client's.                                                        *)
(***************************************************************************)
LeakInv ==
  /\ link \in [Conns -> {"none", "up", "down"}]
  /\ phase = "off" => login = "off"
  /\ login = "wait" => waiting \in Conns
  /\ NoSessionLeaks

LEMMA RunUntouched ==
  ASSUME NEW d \in Conns, RunAt(d), UNCHANGED <<runID, attempt, login>>,
         dialer'[d] = dialer[d], toServer'[d] = toServer[d], clientID'[d] = clientID[d],
         serverID'[d] = serverID[d]
  PROVE  RunAt(d)'
<1>1. Asked(d)' = Asked(d)
  BY DEF Asked
<1> QED
  BY <1>1 DEF RunAt

LEMMA RunClientStep ==
  ASSUME LoginInv, OneRunInv, NEW c \in Conns, c = attempt, login = "dial", LoginClient(c),
         UNCHANGED <<attempt, login>>
  PROVE  OneRunInv'
<1>1. RunAt(c) /\ ConnOK(c)
  BY DEF OneRunInv, LoginInv
<1>2. ASSUME ~ReadLoginResp(c) PROVE \A d \in Conns : d # c => RunAt(d)'
  <2>1. /\ UNCHANGED <<runID, clientID, serverID>>
        /\ \A d \in Conns : d # c => dialer'[d] = dialer[d] /\ toServer'[d] = toServer[d]
    BY <1>2 DEF LoginClient, Open, Connect, SendLogin, ReadServerHello, DialFails, LoginInv,
                LoginTypeOK
  <2> QED
    BY <2>1, RunUntouched DEF OneRunInv
<1>3. CASE Open(c) \/ Connect(c)
  <2>1. /\ dialer[c] \in Unsent /\ dialer'[c] \in {"opened", "connected"}
        /\ UNCHANGED <<serverID, toServer>>
    BY <1>3 DEF Open, Connect, LoginInv, LoginTypeOK, Unsent
  <2>2. RunAt(c)'
    BY <1>1, <2>1 DEF RunAt, Awaiting
  <2>3. ~ReadLoginResp(c)
    BY <2>1 DEF ReadLoginResp, Unsent
  <2> QED
    BY <1>2, <2>2, <2>3 DEF OneRunInv
<1>4. CASE SendLogin(c)
  <2>1. /\ dialer[c] = "connected" /\ dialer'[c] \in Awaiting /\ UNCHANGED <<runID, serverID>>
    BY <1>4 DEF SendLogin, LoginInv, LoginTypeOK, Awaiting
  <2>2. PICK o \in Offers :
          toServer'[c] = IF protocol = "v2" THEN <<Magic, ClientHello(c, o), Login(runID)>>
                         ELSE <<Login(runID)>>
    BY <1>4 DEF SendLogin, LoginInv, LoginTypeOK
  <2>3. /\ Magic.type # "Login" /\ ClientHello(c, o).type # "Login"
        /\ Login(runID).id = runID
    BY DEF Magic, ClientHello, Login
  <2>4. \A m \in Asked(c)' : m.type = "Login" => m.id = runID
    <3>1. \A m \in Asked(c)' : m \in {Magic, ClientHello(c, o), Login(runID)}
      BY <2>2, ElemsShort, Zenon DEF Asked
    <3> QED
      BY <2>3, <3>1
  <2>5. RunAt(c)'
    BY <1>1, <2>1, <2>4 DEF RunAt, Unsent, Awaiting
  <2>6. ~ReadLoginResp(c)
    BY <2>1 DEF ReadLoginResp
  <2> QED
    BY <1>2, <2>5, <2>6 DEF OneRunInv
<1>5. CASE ReadServerHello(c)
  <2>1. /\ dialer[c] = "await hello" /\ dialer'[c] = "await login"
        /\ UNCHANGED <<runID, serverID, toServer>>
    BY <1>5 DEF ReadServerHello, LoginInv, LoginTypeOK
  <2>2. RunAt(c)'
    BY <1>1, <2>1 DEF RunAt, Asked, Unsent, Awaiting
  <2>3. ~ReadLoginResp(c)
    BY <2>1 DEF ReadLoginResp
  <2> QED
    BY <1>2, <2>2, <2>3 DEF OneRunInv
<1>6. CASE ReadLoginResp(c)
  <2>1. /\ dialer[c] = "await login" /\ toClient[c] # <<>> /\ Head(toClient[c]).type = "LoginResp"
        /\ ~Head(toClient[c]).error
        /\ dialer' = [dialer EXCEPT ![c] = "session"]
        /\ clientID' = [clientID EXCEPT ![c] = Head(toClient[c]).id]
        /\ runID' = Head(toClient[c]).id
        /\ UNCHANGED <<toServer, serverID>>
    BY <1>6 DEF ReadLoginResp, Received
  <2>2. Head(toClient[c]) \in Replied(c) /\ Head(toClient[c]).error = FALSE
    BY <2>1, ElemsTail, ReplyFacts DEF Replied, LoginInv, LoginTypeOK
  <2>3. runID' = serverID[c] /\ serverID[c] # NoID
    BY <1>1, <2>1, <2>2 DEF ConnOK, RepliedOK
  <2>4. runID # NoID => runID' = runID
    BY <1>1, <2>1, <2>3 DEF RunAt, Awaiting
  <2>5. RunAt(c)'
    BY <2>1 DEF RunAt, Unsent, Awaiting, LoginInv, LoginTypeOK
  <2>6. ASSUME NEW d \in Conns, d # c PROVE RunAt(d)'
    <3>1. /\ dialer'[d] = dialer[d] /\ clientID'[d] = clientID[d] /\ RunAt(d)
      BY <2>1, <2>6 DEF LoginInv, LoginTypeOK, OneRunInv
    <3>2. dialer[d] \notin Awaiting \cup {"opened", "connected"}
      BY <2>6, <3>1 DEF RunAt
    <3>3. dialer[d] = "session" => clientID[d] # NoID
      BY DEF LoginInv, ConnOK, ReadOK
    <3> QED
      BY <2>1, <2>4, <3>1, <3>2, <3>3 DEF RunAt
  <2> QED
    BY <2>5, <2>6 DEF OneRunInv
<1>7. CASE DialFails(c)
  <2>1. dialer'[c] = "failed" /\ dialer[c] # "session" /\ UNCHANGED clientID
    BY <1>7 DEF DialFails, MayFail, LoginInv, LoginTypeOK
  <2>2. RunAt(c)'
    BY <2>1 DEF RunAt, Unsent, Awaiting
  <2>3. ~ReadLoginResp(c)
    BY <2>1, <1>7 DEF ReadLoginResp, DialFails, LoginInv, LoginTypeOK
  <2> QED
    BY <1>2, <2>2, <2>3 DEF OneRunInv
<1> QED
  BY <1>3, <1>4, <1>5, <1>6, <1>7 DEF LoginClient

LEMMA RunServerStep ==
  ASSUME LoginInv, OneRunInv, NEW c \in Conns, LoginServer(c), UNCHANGED <<attempt, login>>
  PROVE  OneRunInv'
<1>1. RunAt(c) /\ ConnOK(c) /\ toServer[c] \in Seq(Requests)
  BY DEF OneRunInv, LoginInv, LoginTypeOK
<1>2. /\ UNCHANGED <<runID, dialer, clientID>>
      /\ \A d \in Conns : d # c => toServer'[d] = toServer[d] /\ serverID'[d] = serverID[d]
  BY DEF LoginServer, CheckMagic, HandleClientHello, RefuseClientHello, RegisterControl,
         RefuseLogin, CompleteLogin, ServerCloses, GoTo, Consume, LoginInv, LoginTypeOK
<1>3. \A d \in Conns : d # c => RunAt(d)'
  BY <1>2, RunUntouched DEF OneRunInv
<1>4. \/ toServer'[c] = toServer[c] \/ toServer'[c] = <<>>
      \/ toServer[c] # <<>> /\ toServer'[c] = Tail(toServer[c])
  BY DEF LoginServer, CheckMagic, HandleClientHello, RefuseClientHello, RegisterControl,
         RefuseLogin, CompleteLogin, ServerCloses, Arrived, Consume, LoginInv, LoginTypeOK
<1>5. /\ \A m \in Asked(c)' : m \in Asked(c)
      /\ toServer[c] = <<>> => toServer'[c] = <<>>
  BY <1>1, <1>4, ElemsTail, ElemsEmpty DEF Asked
<1>6. CASE RegisterControl(c)
  <2> DEFINE asked == Head(toServer[c]).id
             id == IF asked = NoID THEN issued + 1 ELSE asked
  <2>1. /\ toServer[c] # <<>> /\ Head(toServer[c]).type = "Login"
        /\ serverID' = [serverID EXCEPT ![c] = id]
    BY <1>6 DEF RegisterControl, Arrived
  <2>2. Head(toServer[c]) \in Asked(c)
    BY <1>1, <2>1, ElemsTail DEF Asked
  <2>3. dialer[c] \in Awaiting /\ runID # NoID => id = runID
    BY <1>1, <2>1, <2>2 DEF RunAt
  <2> HIDE DEF id
  <2>4. serverID'[c] = id
    BY <2>1 DEF LoginInv, LoginTypeOK
  <2>5. RunAt(c)'
    BY <1>1, <1>2, <1>5, <2>1, <2>3, <2>4 DEF RunAt
  <2> QED
    BY <1>3, <2>5 DEF OneRunInv
<1>7. CASE ~RegisterControl(c)
  <2>1. UNCHANGED serverID
    BY <1>7 DEF LoginServer, CheckMagic, HandleClientHello, RefuseClientHello,
                RefuseLogin, CompleteLogin, ServerCloses
  <2>2. RunAt(c)'
    BY <1>1, <1>2, <1>5, <2>1 DEF RunAt
  <2> QED
    BY <1>3, <2>2 DEF OneRunInv
<1> QED
  BY <1>6, <1>7

\* The rest of the service leaves the exchange alone, and leaves "dial" only
\* when the attempt has ended.
LEMMA RunFrame ==
  ASSUME OneRunInv, UNCHANGED <<runID, dialer, toServer, clientID, serverID>>,
         \/ UNCHANGED <<attempt, login>>
         \/ login # "dial"
         \/ dialer[attempt] \in {"failed", "session"}
  PROVE  OneRunInv'
<1> SUFFICES ASSUME NEW c \in Conns PROVE RunAt(c)'
  BY DEF OneRunInv
<1>1. RunAt(c) /\ Asked(c)' = Asked(c)
  BY DEF OneRunInv, Asked
<1> QED
  BY <1>1 DEF RunAt, Awaiting

\* A step of the exchange opens the connection it dials and no other; the
\* server only closes some.
LEMMA LeakExchange ==
  ASSUME LoginInv, ServiceInv, LeakInv,
         Dialing \/ \E c \in Conns : ServerStep(c)
  PROVE  LeakInv'
<1>1. UNCHANGED <<ctl, attempt, login, waiting, phase>>
  BY DEF Dialing, ServerStep, serviceVars
<1>2. CASE Dialing
  <2>1. attempt \in Conns /\ login = "dial" /\ LoginClient(attempt)
    BY <1>2 DEF Dialing, ServiceInv, ControlOK
  <2>2. /\ link' \in [Conns -> {"none", "up", "down"}]
        /\ \A d \in Conns : d # attempt => link'[d] = link[d] /\ dialer'[d] = dialer[d]
    BY <2>1 DEF LoginClient, Open, Connect, SendLogin, ReadServerHello, ReadLoginResp, DialFails,
                CloseLink, LeakInv, LoginInv, LoginTypeOK
  <2> QED
    BY <1>1, <2>1, <2>2 DEF LeakInv, NoSessionLeaks
<1>3. CASE \E c \in Conns : ServerStep(c)
  <2>1. PICK c \in Conns : LoginServer(c)
    BY <1>3 DEF ServerStep
  <2>2. /\ UNCHANGED dialer
        /\ link' \in [Conns -> {"none", "up", "down"}]
        /\ \A d \in Conns : link'[d] = link[d] \/ link'[d] = "down"
    BY <2>1 DEF LoginServer, CheckMagic, HandleClientHello, RefuseClientHello, RegisterControl,
                RefuseLogin, CompleteLogin, ServerCloses, CloseLink, LeakInv
  <2> QED
    BY <1>1, <2>2 DEF LeakInv, NoSessionLeaks
<1> QED
  BY <1>2, <1>3

\* The control that is replaced, or that stop takes away, is closed.
LEMMA LeakClosed ==
  ASSUME ServiceInv, LeakInv, UNCHANGED dialer,
         ctl # Nil => link' = [link EXCEPT ![ctl] = "down"],
         ctl = Nil => UNCHANGED link
  PROVE  /\ link' \in [Conns -> {"none", "up", "down"}]
         /\ \A c \in Conns : c # ctl => link'[c] = link[c]
         /\ ctl # Nil => ctl \in Conns /\ link'[ctl] = "down"
<1>1. ctl \in Conns \cup {Nil}
  BY ConnFacts DEF ServiceInv, ServiceTypeOK, Conns
<1> QED
  BY <1>1 DEF LeakInv

LEMMA LeakLoop ==
  ASSUME ServiceInv, LeakInv, LoginLoop
  PROVE  LeakInv'
<1>1. ctl \in Conns \cup {Nil}
  BY ConnFacts DEF ServiceInv, ServiceTypeOK, Conns
<1>2. CASE Install
  <2>1. /\ login = "install" /\ login' # "wait" /\ ctl' = attempt /\ phase' # "off"
        /\ UNCHANGED dialer
        /\ ctl # Nil => link' = [link EXCEPT ![ctl] = "down"]
        /\ ctl = Nil => UNCHANGED link
    BY <1>2 DEF Install, LoginStep, CloseControl, CloseLink, loginVars
  <2>2. /\ link' \in [Conns -> {"none", "up", "down"}]
        /\ \A c \in Conns : c # ctl => link'[c] = link[c]
        /\ ctl # Nil => link'[ctl] = "down"
    BY <2>1, LeakClosed
  <2>3. \A c \in Conns : c # Nil
    BY ConnFacts
  <2> QED
    BY <1>1, <2>1, <2>2, <2>3 DEF LeakInv, NoSessionLeaks
<1>3. CASE Attempt \/ LoopReturns \/ CheckControl \/ AwaitNil \/ ControlDone
  <2>1. /\ login \in {"pause", "check", "await", "wait"} /\ login' # "wait" /\ phase' # "off"
        /\ UNCHANGED <<dialer, link, ctl>>
    BY <1>3 DEF Attempt, LoopReturns, CheckControl, AwaitNil, ControlDone, LoginStep, loginVars
  <2> QED
    BY <2>1 DEF LeakInv, NoSessionLeaks
<1>4. CASE AwaitControl
  <2>1. /\ login = "await" /\ waiting' = ctl /\ ctl # Nil /\ phase' # "off"
        /\ UNCHANGED <<dialer, link, ctl>>
    BY <1>4 DEF AwaitControl, LoginStep, loginVars
  <2> QED
    BY <1>1, <2>1 DEF LeakInv, NoSessionLeaks
<1>5. CASE DialFailed
  <2>1. /\ dialer[attempt] = "failed" /\ login' = "pause" /\ phase' # "off"
        /\ UNCHANGED <<dialer, link, ctl, attempt>>
    BY <1>5 DEF DialFailed, LoginStep, loginVars
  <2> QED
    BY <2>1 DEF LeakInv, NoSessionLeaks
<1>6. CASE ReadCfg \/ RunControl
  <2>1. /\ login' \in {"run", "install"} /\ phase' # "off"
        /\ login \in {"dial", "run"}
        /\ UNCHANGED <<dialer, link, ctl, attempt>>
    BY <1>6 DEF ReadCfg, RunControl, LoginStep, loginVars
  <2> QED
    BY <2>1 DEF LeakInv, NoSessionLeaks
<1> QED
  BY <1>2, <1>3, <1>4, <1>5, <1>6 DEF LoginLoop

LEMMA LeakRun ==
  ASSUME ServiceInv, LeakInv,
         \/ \E main, included \in Entries, list \in Starts : Start(main, included, list)
         \/ Cancel \/ StopSources \/ StopControl
  PROVE  LeakInv'
<1>1. CASE StopControl
  <2>1. /\ ctl' = Nil /\ phase' # "off"
        /\ UNCHANGED <<dialer, login, attempt, waiting>>
        /\ ctl # Nil => link' = [link EXCEPT ![ctl] = "down"]
        /\ ctl = Nil => UNCHANGED link
    BY <1>1 DEF StopControl, CloseControl, CloseLink, ctlVars, loginVars
  <2>2. /\ link' \in [Conns -> {"none", "up", "down"}]
        /\ \A c \in Conns : c # ctl => link'[c] = link[c]
        /\ ctl # Nil => ctl \in Conns /\ link'[ctl] = "down"
    BY <2>1, LeakClosed
  <2>3. \A c \in Conns : c # Nil
    BY ConnFacts
  <2> QED
    BY <2>1, <2>2, <2>3 DEF LeakInv, NoSessionLeaks
<1>2. CASE Cancel \/ StopSources
  <2>1. UNCHANGED <<dialer, link, ctl, login, attempt, waiting>> /\ phase' # "off"
    BY <1>2 DEF Cancel, StopSources, ctlVars, loginVars
  <2> QED
    BY <2>1 DEF LeakInv, NoSessionLeaks
<1>3. CASE \E main, included \in Entries, list \in Starts : Start(main, included, list)
  <2>1. /\ phase = "off" /\ phase' = "up" /\ login' = "pause"
        /\ UNCHANGED <<dialer, link, ctl, attempt>>
    BY <1>3 DEF Start, loginVars
  <2> QED
    BY <2>1 DEF LeakInv, NoSessionLeaks
<1> QED
  BY <1>1, <1>2, <1>3

LEMMA SessionsStep ==
  ASSUME LoginInv, ServiceInv, OneRunInv, LeakInv, [ServiceNext]_allVars
  PROVE  OneRunInv' /\ LeakInv'
<1>1. CASE Dialing
  <2>1. /\ attempt \in Conns /\ login = "dial" /\ LoginClient(attempt)
        /\ UNCHANGED <<attempt, login>>
    BY <1>1 DEF Dialing, ServiceInv, ControlOK, serviceVars
  <2> QED
    BY <1>1, <2>1, RunClientStep, LeakExchange
<1>2. CASE \E c \in Conns : ServerStep(c)
  <2>1. PICK c \in Conns : LoginServer(c) /\ UNCHANGED <<attempt, login>>
    BY <1>2 DEF ServerStep, serviceVars
  <2> QED
    BY <1>2, <2>1, RunServerStep, LeakExchange
<1>3. CASE LoginLoop
  <2>1. /\ UNCHANGED <<runID, dialer, toServer, clientID, serverID>>
        /\ \/ login # "dial"
           \/ dialer[attempt] \in {"failed", "session"}
    BY <1>3 DEF LoginLoop, Attempt, DialFailed, ReadCfg, RunControl, Install, CloseControl,
                LoopReturns, CheckControl, AwaitControl, AwaitNil, ControlDone, LoginStep, loginVars
  <2> QED
    BY <1>3, <2>1, RunFrame, LeakLoop
<1>4. CASE \/ \E main, included \in Entries, list \in Starts : Start(main, included, list)
           \/ Cancel \/ StopSources \/ StopControl
  <2>1. /\ UNCHANGED <<runID, dialer, toServer, clientID, serverID>>
        /\ UNCHANGED <<attempt, login>> \/ phase = "off"
    BY <1>4 DEF Start, Cancel, StopSources, StopControl, CloseControl, loginVars, ctlVars
  <2>2. phase = "off" => login # "dial"
    BY DEF LeakInv
  <2> QED
    BY <1>4, <2>1, <2>2, RunFrame, LeakRun
<1>5. CASE \/ \E c \in Conns : WorkerDone(c)
           \/ \E main \in Entries, list \in Starts : ReloadSet(main, list)
           \/ ReloadControl \/ ReloadApply \/ ChangeStore \/ UNCHANGED allVars
  <2>1. /\ UNCHANGED <<runID, dialer, toServer, clientID, serverID, link, ctl, attempt,
                       login, waiting>>
        /\ phase' = "off" => phase = "off"
    BY <1>5 DEF WorkerDone, ReloadSet, ReloadControl, ReloadApply, ChangeStore, loginVars,
                serviceVars, allVars
  <2>2. LeakInv'
    BY <2>1 DEF LeakInv, NoSessionLeaks
  <2> QED
    BY <2>1, <2>2, RunFrame
<1> QED
  BY <1>1, <1>2, <1>3, <1>4, <1>5 DEF ServiceNext

LEMMA SessionsInvariance == ServiceSpec => [](OneRunInv /\ LeakInv)
<1>1. ServiceInit => OneRunInv /\ LeakInv
  <2> SUFFICES ASSUME ServiceInit PROVE OneRunInv /\ LeakInv
    OBVIOUS
  <2>1. \A c \in Conns : RunAt(c)
    BY DEF ServiceInit, LoginInit, RunAt, Unsent, Awaiting
  <2>2. LeakInv
    BY DEF ServiceInit, LoginInit, LeakInv, NoSessionLeaks
  <2> QED
    BY <2>1, <2>2 DEF OneRunInv
<1>2. LoginInv /\ ServiceInv /\ OneRunInv /\ LeakInv /\ [ServiceNext]_allVars
        => OneRunInv' /\ LeakInv'
  BY SessionsStep
<1> QED
  BY <1>1, <1>2, ServiceInvariance, PTL DEF ServiceSpec

(***************************************************************************)
(* For any number of attempts, orders of preference and losses: a client   *)
(* with a session has the run ID and the cipher of the server's control,   *)
(* and the run is the one of all its other sessions.                       *)
(***************************************************************************)
THEOREM EndsAlwaysAgree == ServiceSpec => []EndsAgree
<1>1. ASSUME LoginInv, OneRunInv PROVE EndsAgree
  <2> SUFFICES ASSUME NEW c \in Conns, dialer[c] = "session"
               PROVE  /\ server[c] \in {"active", "closed"}
                      /\ serverID[c] = clientID[c] /\ clientID[c] # NoID
                      /\ clientID[c] = runID
                      /\ serverCipher[c] = clientCipher[c]
                      /\ clientCipher[c].protocol = protocol
    BY DEF EndsAgree
  <2>1. ReadOK(c) /\ protocol \in {"v1", "v2"} /\ CipherV1.protocol = "v1"
    BY <1>1 DEF LoginInv, ConnOK, LoginTypeOK, CipherV1
  <2>2. clientID[c] = runID
    BY <1>1 DEF OneRunInv, RunAt
  <2> QED
    BY <2>1, <2>2 DEF ReadOK, Late
<1> QED
  BY <1>1, ServiceInvariance, SessionsInvariance, PTL

(***************************************************************************)
(* For any number of attempts and reloads, and wherever stop falls: a      *)
(* session whose connection is up is svr.ctl's or about to become it.      *)
(***************************************************************************)
THEOREM NoSessionIsLeaked == ServiceSpec => []NoSessionLeaks
<1>1. LeakInv => NoSessionLeaks
  BY DEF LeakInv
<1> QED
  BY <1>1, SessionsInvariance, PTL

-----------------------------------------------------------------------------
(* The unlocked reads of svr.ctl.                                          *)

Serving == {"up", "cancelled", "stopping"}

(***************************************************************************)
(* Once a control has been installed, which is when the first login is     *)
(* over, svr.ctl is set until stop takes it away; and stop waits for the   *)
(* reload that is running, and lets no other begin.                        *)
(***************************************************************************)
NilInv ==
  /\ first \in BOOLEAN /\ phase \in Serving \cup {"off", "stopped", "dead"}
  /\ login \in {"check", "await", "wait"} => first = FALSE
  /\ phase \in Serving /\ first = FALSE => ctl # Nil
  /\ phase = "off" => first = TRUE
  /\ reload # "idle" => phase \in {"up", "cancelled", "dead"}
  /\ reload = "apply" /\ phase # "dead" => ctl # Nil

LEMMA NilLoop ==
  ASSUME ServiceInv, NilInv, LoginLoop
  PROVE  NilInv'
<1>1. CASE Install
  <2>1. /\ login = "install" /\ phase \notin {"off", "dead"} /\ login' \in {"await", "check"}
        /\ ctl' = attempt /\ first' = FALSE /\ UNCHANGED <<phase, reload>>
    BY <1>1 DEF Install, LoginStep
  <2>2. attempt # Nil
    BY <2>1, ConnFacts DEF ServiceInv, ControlOK
  <2> QED
    BY <2>1, <2>2 DEF NilInv
<1>2. CASE DialFailed
  <2>1. /\ login' = "pause" /\ UNCHANGED <<ctl, first, reload>> /\ phase # "off"
        /\ phase' = phase \/ (first /\ phase' = "cancelled")
    BY <1>2 DEF DialFailed, LoginStep
  <2>2. first = FALSE => phase' = phase
    BY <2>1
  <2>3. reload # "idle" => phase' \in {"up", "cancelled", "dead"}
    BY <2>1 DEF NilInv
  <2>4. phase # "dead"
    BY <1>2 DEF DialFailed, LoginStep
  <2> QED
    BY <2>1, <2>2, <2>3, <2>4 DEF NilInv, Serving
<1>3. CASE AwaitNil
  <2>1. /\ login' = "end" /\ phase' = "dead" /\ UNCHANGED <<ctl, first, reload>>
    BY <1>3 DEF AwaitNil, LoginStep
  <2> QED
    BY <2>1 DEF NilInv, Serving
<1>4. CASE Attempt \/ ReadCfg \/ RunControl \/ LoopReturns \/ CheckControl \/ AwaitControl
           \/ ControlDone
  <2>1. /\ UNCHANGED <<ctl, first, reload, phase>> /\ phase # "off"
        /\ \/ login' \notin {"check", "await", "wait"} \/ login \in {"check", "await"}
           \/ login' = "check" /\ first # TRUE
    BY <1>4 DEF Attempt, ReadCfg, RunControl, LoopReturns, CheckControl, AwaitControl, ControlDone,
                LoginStep
  <2>2. first \in BOOLEAN
    BY DEF NilInv
  <2> QED
    BY <2>1, <2>2 DEF NilInv
<1> QED
  BY <1>1, <1>2, <1>3, <1>4 DEF LoginLoop

LEMMA NilRun ==
  ASSUME NilInv,
         \/ \E main, included \in Entries, list \in Starts : Start(main, included, list)
         \/ Cancel \/ StopSources \/ StopControl
  PROVE  NilInv'
<1>1. CASE \E main, included \in Entries, list \in Starts : Start(main, included, list)
  <2>1. /\ phase = "off" /\ phase' = "up" /\ login' = "pause" /\ first' = TRUE
        /\ UNCHANGED <<ctl, reload>>
    BY <1>1 DEF Start
  <2> QED
    BY <2>1 DEF NilInv, Serving
<1>2. CASE Cancel
  <2>1. phase = "up" /\ phase' = "cancelled" /\ UNCHANGED <<ctl, reload, login, first>>
    BY <1>2 DEF Cancel, ctlVars
  <2> QED
    BY <2>1 DEF NilInv, Serving
<1>3. CASE StopSources
  <2>1. /\ phase = "cancelled" /\ phase' = "stopping" /\ reload = "idle"
        /\ UNCHANGED <<ctl, reload, login, first>>
    BY <1>3 DEF StopSources, ctlVars
  <2> QED
    BY <2>1 DEF NilInv, Serving
<1>4. CASE StopControl
  <2>1. phase = "stopping" /\ phase' = "stopped" /\ UNCHANGED <<reload, login, first>>
    BY <1>4 DEF StopControl, ctlVars
  <2> QED
    BY <2>1 DEF NilInv, Serving
<1> QED
  BY <1>1, <1>2, <1>3, <1>4

LEMMA NilReload ==
  ASSUME NilInv,
         \/ \E main \in Entries, list \in Starts : ReloadSet(main, list)
         \/ ReloadControl \/ ReloadApply
  PROVE  NilInv'
<1>1. CASE \E main \in Entries, list \in Starts : ReloadSet(main, list)
  <2>1. phase \in {"up", "cancelled"} /\ reload' = "ctl" /\ UNCHANGED <<phase, ctl, login, first>>
    BY <1>1 DEF ReloadSet
  <2> QED
    BY <2>1 DEF NilInv
<1>2. CASE ReloadControl
  <2>1. /\ reload = "ctl" /\ reload' = IF ctl = Nil THEN "idle" ELSE "apply"
        /\ UNCHANGED <<phase, ctl, login, first>>
    BY <1>2 DEF ReloadControl
  <2> QED
    BY <2>1 DEF NilInv
<1>3. CASE ReloadApply
  <2>1. /\ reload = "apply" /\ reload' = "idle" /\ phase # "dead"
        /\ phase' = IF ctl = Nil THEN "dead" ELSE phase
        /\ UNCHANGED <<ctl, login, first>>
    BY <1>3 DEF ReloadApply
  <2> QED
    BY <2>1 DEF NilInv
<1> QED
  BY <1>1, <1>2, <1>3

(***************************************************************************)
(* For any number of attempts and reloads, and wherever stop falls: the    *)
(* reload that reads svr.ctl again without the lock finds a control, and   *)
(* keepControllerWorking finds nil only once stop is over.                 *)
(***************************************************************************)
THEOREM ControlIsThere == ServiceSpec => []ControlNotNil
<1>1. ServiceInit => NilInv
  BY DEF ServiceInit, NilInv, Serving
<1>2. ServiceInv /\ NilInv /\ [ServiceNext]_allVars => NilInv'
  <2> SUFFICES ASSUME ServiceInv, NilInv, [ServiceNext]_allVars PROVE NilInv'
    OBVIOUS
  <2>1. CASE \/ Dialing \/ ChangeStore \/ UNCHANGED allVars
             \/ \E c \in Conns : WorkerDone(c) \/ ServerStep(c)
    <3>1. UNCHANGED <<phase, ctl, login, first, reload>>
      BY <2>1 DEF Dialing, ChangeStore, WorkerDone, ServerStep, serviceVars, allVars
    <3> QED
      BY <3>1 DEF NilInv
  <2> QED
    BY <2>1, NilLoop, NilRun, NilReload DEF ServiceNext
<1>3. NilInv => ControlNotNil
  BY DEF NilInv, ControlNotNil, Serving
<1> QED
  BY <1>1, <1>2, <1>3, ServiceInvariance, PTL DEF ServiceSpec

-----------------------------------------------------------------------------
(* The store.                                                              *)

\* An entry that was there is changed or removed, or one is added.
OneChange(before, after) ==
  \E k \in Keys, v \in Cfgs \cup {NoCfg} :
    /\ before[k] # NoCfg \/ v # NoCfg
    /\ after = [before EXCEPT ![k] = v]

(***************************************************************************)
(* While a change is saved, memory is one entry away from what was there,  *)
(* the temporary file has what memory has once it is written, and all of   *)
(* it is on disk before it is renamed.                                     *)
(***************************************************************************)
SaveInv ==
  /\ saving # "idle" => OneChange(old, mem)
  /\ saving = "sync" => tmp.data = mem
  /\ saving \in {"close", "rename"} => tmp = [data |-> mem, synced |-> TRUE]
  /\ file.synced

StoreInv == StoreTypeOK /\ StoreSurvives /\ SaveInv

LEMMA ConstantFacts ==
  /\ NoCfg \notin Cfgs
  /\ Torn \notin Entries
  /\ Empty \in Entries
BY ConfigValues, TornIsNoEntries DEF ConfigValues, TornIsNoEntries, Entries, Empty

LEMMA InitStoreInv == StoreInit => StoreInv
BY ConstantFacts
   DEF StoreInit, StoreInv, StoreTypeOK, StoreSurvives, SaveInv, Steps, Contents, Gone

\* Adding, changing and removing are single changes of what is in memory.
LEMMA ChangeStoreInv ==
  ASSUME StoreInv, NEW k \in Keys, NEW v \in Cfgs \cup {NoCfg},
         mem[k] # NoCfg \/ v # NoCfg, Change(k, v)
  PROVE  StoreInv'
<1>1. mem' = [mem EXCEPT ![k] = v] /\ old' = mem /\ saving' = "open"
  BY DEF Change
<1>2. UNCHANGED <<acked, tmp, file, disk>> /\ saving = "idle"
  BY DEF Change
<1>3. mem' \in Entries /\ old' \in Entries
  BY <1>1 DEF Entries, StoreInv, StoreTypeOK
<1>4. StoreTypeOK'
  BY <1>1, <1>2, <1>3 DEF StoreInv, StoreTypeOK, Steps
<1>5. StoreSurvives'
  BY <1>1, <1>2 DEF StoreInv, StoreSurvives
<1>6. OneChange(old, mem)'
  BY <1>1 DEF OneChange
<1>7. SaveInv'
  BY <1>1, <1>2, <1>6 DEF StoreInv, SaveInv
<1> QED BY <1>4, <1>5, <1>7 DEF StoreInv

LEMMA SaveStoreInv == StoreInv /\ SaveToFile => StoreInv'
<1> SUFFICES ASSUME StoreInv, SaveToFile PROVE StoreInv'
  OBVIOUS
<1>g. Gone \in Contents
  BY DEF Gone, Contents
<1>w. [data |-> mem, synced |-> FALSE] \in Contents
  BY DEF Contents, StoreInv, StoreTypeOK
<1>1. CASE OpenTmp
  BY <1>1, <1>g
     DEF OpenTmp, SaveStep, StoreInv, StoreTypeOK, StoreSurvives, SaveInv, OneChange, Steps
<1>2. CASE WriteTmp
  BY <1>2, <1>w
     DEF WriteTmp, SaveStep, StoreInv, StoreTypeOK, StoreSurvives, SaveInv, OneChange, Steps
<1>3. CASE SyncTmp
  <2>1. tmp' = [data |-> mem, synced |-> TRUE] /\ tmp' \in Contents
    BY <1>3 DEF SyncTmp, SaveStep, StoreInv, StoreTypeOK, SaveInv, Contents
  <2>2. saving = "sync" /\ saving' = "close" /\ UNCHANGED <<mem, old, acked, file, disk>>
    BY <1>3 DEF SyncTmp, SaveStep
  <2> QED
    BY <2>1, <2>2 DEF StoreInv, StoreTypeOK, StoreSurvives, SaveInv, OneChange, Steps
<1>4. CASE CloseTmp
  BY <1>4
     DEF CloseTmp, SaveStep, StoreInv, StoreTypeOK, StoreSurvives, SaveInv, OneChange, Steps
<1>5. CASE RenameTmp
  BY <1>5, <1>g
     DEF RenameTmp, StoreInv, StoreTypeOK, StoreSurvives, SaveInv, OneChange, Steps
<1>6. CASE Saved
  BY <1>6 DEF Saved, StoreInv, StoreTypeOK, StoreSurvives, SaveInv, OneChange, Steps
<1>7. CASE Rollback
  BY <1>7, <1>g DEF Rollback, StoreInv, StoreTypeOK, StoreSurvives, SaveInv, OneChange, Steps
<1> QED BY <1>1, <1>2, <1>3, <1>4, <1>5, <1>6, <1>7 DEF SaveToFile

\* Whatever complete content the store is opened with, it is in order again.
LEMMA ReopenStoreInv ==
  ASSUME NEW content \in Entries, Reopen(content), tmp' \in Contents,
         disk' \in Entries
  PROVE  StoreInv'
<1>1. [data |-> content, synced |-> TRUE] \in Contents
  BY DEF Contents
<1> QED
  BY <1>1, ConstantFacts
     DEF Reopen, StoreInv, StoreTypeOK, StoreSurvives, SaveInv, Steps

\* The file is complete, and so is what a power loss would leave.
LEMMA CompleteFiles == StoreInv => file.data \in Entries /\ disk \in Entries
BY DEF StoreInv, StoreTypeOK, StoreSurvives

LEMMA StepStoreInv == StoreInv /\ [StoreNext]_storeVars => StoreInv'
<1> SUFFICES ASSUME StoreInv, [StoreNext]_storeVars PROVE StoreInv'
  OBVIOUS
<1>1. CASE \E k \in Keys : RemoveEntry(k)
  BY <1>1, ChangeStoreInv DEF RemoveEntry
<1>2. CASE \E k \in Keys, v \in Cfgs : AddEntry(k, v)
  BY <1>2, ChangeStoreInv, ConstantFacts DEF AddEntry
<1>3. CASE \E k \in Keys, v \in Cfgs : UpdateEntry(k, v)
  BY <1>3, ChangeStoreInv, ConstantFacts DEF UpdateEntry
<1>4. CASE SaveToFile
  BY <1>4, SaveStoreInv
<1>5. CASE Flush
  BY <1>5, CompleteFiles, ConstantFacts
     DEF Flush, StoreInv, StoreTypeOK, StoreSurvives, SaveInv, OneChange
<1>6. CASE ReopenStore
  <2>1. tmp' \in Contents /\ disk' \in Entries
    BY <1>6, CompleteFiles DEF ReopenStore, StoreInv, StoreTypeOK
  <2> QED BY <1>6, <2>1, CompleteFiles, ReopenStoreInv DEF ReopenStore
<1>7. CASE PowerLoss
  <2>1. tmp' \in Contents /\ disk' \in Entries
    BY <1>7, CompleteFiles DEF PowerLoss, Gone, Contents
  <2> QED BY <1>7, <2>1, CompleteFiles, ReopenStoreInv DEF PowerLoss
<1>8. CASE UNCHANGED storeVars
  BY <1>8 DEF storeVars, StoreInv, StoreTypeOK, StoreSurvives, SaveInv, OneChange
<1> QED
  BY <1>1, <1>2, <1>3, <1>4, <1>5, <1>6, <1>7, <1>8 DEF StoreNext

THEOREM StoreInvariance == StoreSpec => []StoreInv
<1>1. StoreInit => StoreInv
  BY InitStoreInv
<1>2. StoreInv /\ [StoreNext]_storeVars => StoreInv'
  BY StepStoreInv
<1> QED BY <1>1, <1>2, PTL DEF StoreSpec

(***************************************************************************)
(* For any entries and any sequence of changes, failures and crashes, what *)
(* AddProxy and the like have acknowledged is what memory and file hold,   *)
(* and neither file is ever torn.                                          *)
(***************************************************************************)
THEOREM StoreKeepsAcknowledged == StoreSpec => []StoreSurvives
<1>1. StoreInv => StoreSurvives
  BY DEF StoreInv
<1> QED BY <1>1, StoreInvariance, PTL

-----------------------------------------------------------------------------
\* Only the rename changes the contents, by the change being saved.
LEMMA RenameCommits ==
  ASSUME StoreInv, RenameTmp
  PROVE  Map!MapNext
<1>1. file.data = old /\ OneChange(old, mem)
  BY DEF StoreInv, StoreSurvives, SaveInv, RenameTmp
<1>2. file'.data = mem /\ disk' = disk
  BY DEF StoreInv, SaveInv, RenameTmp
<1> QED BY <1>1, <1>2 DEF OneChange, Map!MapNext, Map!Commit

LEMMA SaveMaps ==
  ASSUME StoreInv, SaveToFile
  PROVE  [Map!MapNext]_(Map!mapVars)
<1>1. CASE RenameTmp
  BY <1>1, RenameCommits
<1>2. CASE ~RenameTmp
  BY <1>2
     DEF SaveToFile, OpenTmp, WriteTmp, SyncTmp, CloseTmp, SaveStep, Saved, Rollback, Map!mapVars
<1> QED BY <1>1, <1>2

LEMMA StepMaps ==
  ASSUME StoreInv, [StoreNext]_storeVars
  PROVE  [Map!MapNext]_(Map!mapVars)
<1>1. CASE \E k \in Keys : RemoveEntry(k) \/ \E v \in Cfgs : AddEntry(k, v) \/ UpdateEntry(k, v)
  BY <1>1 DEF RemoveEntry, AddEntry, UpdateEntry, Change, Map!mapVars
<1>2. CASE SaveToFile
  BY <1>2, SaveMaps
<1>3. CASE Flush
  BY <1>3 DEF Flush, StoreInv, SaveInv, Map!MapNext, Map!Settle
<1>4. CASE ReopenStore
  BY <1>4 DEF ReopenStore, Reopen, Map!mapVars
<1>5. CASE PowerLoss
  BY <1>5 DEF PowerLoss, Reopen, Map!MapNext, Map!Revert
<1>6. CASE UNCHANGED storeVars
  BY <1>6 DEF storeVars, Map!mapVars
<1> QED BY <1>1, <1>2, <1>3, <1>4, <1>5, <1>6 DEF StoreNext

(***************************************************************************)
(* The store implements the map of ConfigMap: the save of saveToFile, with *)
(* its rollback, looks like one atomic change at the rename.               *)
(***************************************************************************)
THEOREM StoreImplementsMap == StoreSpec => ImplementsMap
<1>1. StoreInit => Map!MapInit
  BY DEF StoreInit, Map!MapInit, Empty, Map!Empty
<1>2. StoreInv /\ [StoreNext]_storeVars => [Map!MapNext]_(Map!mapVars)
  BY StepMaps
<1> QED BY <1>1, <1>2, StoreInvariance, PTL DEF StoreSpec, ImplementsMap, Map!MapSpec

=============================================================================
