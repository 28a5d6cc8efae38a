-------------------------------- MODULE Ttcp --------------------------------
(***************************************************************************)
(* network/ttcp: the throughput test, written three times.  Any of the     *)
(* clients talks to any of the servers: number and length of the messages  *)
(* first, then each message, length in front, and a length back for it.    *)
(*                                                                         *)
(* A connection is a sequence of 32-bit numbers and of payloads in each    *)
(* direction.  A client may die at any time; of what it had sent the server *)
(* then still gets a part.                                                 *)
(***************************************************************************)
EXTENDS Integers, Sequences

CONSTANTS
  TtcpClients,
  MessageNumbers,   \* --number of each client is one of these; the Go client has it at 1000
  Lengths           \* --length of each client is one of these; the Go client has it at 1024

Languages == {"go", "rust", "python"}

ASSUME TtcpAssumption ==
  /\ \A c \in TtcpClients : MessageNumbers[c] \subseteq Int /\ Lengths[c] \subseteq Int

VARIABLES
  server,      \* which program serves
  serverUp,    \* it has not exited
  client,      \* client[c]: [language, number, length, at, sent]
  toServer, toClient,   \* the two directions of each connection
  session      \* session[c]: the server's side, see NoSession

ttcpVars == <<server, serverUp, client, toServer, toClient, session>>

\* The variables of the server's loop: recvLen is that of the Go server.
NoSession == [at |-> "none", number |-> 0, length |-> 0, recvLen |-> 0, received |-> 0]

TtcpTypeOK ==
  /\ server \in Languages /\ serverUp \in BOOLEAN
  /\ \A c \in TtcpClients :
       /\ client[c].at \in {"dial", "header", "send", "recv", "done", "dead"}
       /\ session[c].at \in {"none", "header", "length", "payload", "ack", "closed", "failed"}
       /\ session[c].received <= session[c].number \/ session[c].received = 0

\* The arguments, for which nobody asks whether they are negative; 1000 messages
\* of the Go client stand for 1 or more, its 1024 bytes for 0 or more.
ClientStarts(c) ==
  {k \in [language : Languages, number : MessageNumbers[c], length : Lengths[c],
          at : {"dial"}, sent : {0}] : k.language = "go" => k.number > 0 /\ k.length >= 0}

TtcpInit ==
  /\ server \in Languages /\ serverUp = TRUE
  /\ client \in {f \in [TtcpClients -> UNION {ClientStarts(c) : c \in TtcpClients}] :
                  \A c \in TtcpClients : f[c] \in ClientStarts(c)}
  /\ toServer = [c \in TtcpClients |-> <<>>] /\ toClient = [c \in TtcpClients |-> <<>>]
  /\ session = [c \in TtcpClients |-> NoSession]

-----------------------------------------------------------------------------
\* The client.
At(c, place) == client[c].at = place
GoTo(c, place) == client' = [client EXCEPT ![c].at = place]
\* What is on its way: a 32-bit number, or a payload.
Word(n) == <<n>>
Payload == <<>>
SendServer(c, sends) == toServer' = [toServer EXCEPT ![c] = @ \o sends]

\* The first number; the connection waits in the listen queue until accepted.
ClientDials(c) ==
  /\ At(c, "dial") /\ serverUp
  /\ GoTo(c, "header") /\ SendServer(c, <<Word(client[c].number)>>)
  /\ UNCHANGED <<server, serverUp, toClient, session>>

\* The second.  The Rust client then panics when it allocates a buffer of a
\* negative length; no message is sent if the number is not positive.
ClientSendsLength(c) ==
  /\ At(c, "header")
  /\ GoTo(c, IF client[c].language = "rust" /\ client[c].length < 0 THEN "dead"
             ELSE IF client[c].number > 0 THEN "send" ELSE "done")
  /\ SendServer(c, <<Word(client[c].length)>>)
  /\ UNCHANGED <<server, serverUp, toClient, session>>

\* After its last message the Go client does not wait for the answer.
ClientSends(c) ==
  /\ At(c, "send")
  /\ SendServer(c, <<Word(client[c].length), Payload>>)
  /\ client' = [client EXCEPT ![c].sent = @ + 1,
                  ![c].at = IF client[c].language = "go" /\ client[c].sent + 1 = client[c].number
                            THEN "done" ELSE "recv"]
  /\ UNCHANGED <<server, serverUp, toClient, session>>

\* The answer is another length: the Go client exits, the Rust client prints,
\* the Python client does not look.
ClientRefuses(c) == client[c].language = "go" /\ Head(toClient[c]) # client[c].length

ClientReceives(c) ==
  /\ At(c, "recv") /\ toClient[c] # <<>>
  /\ toClient' = [toClient EXCEPT ![c] = Tail(@)]
  /\ GoTo(c, IF ClientRefuses(c) THEN "dead"
             ELSE IF client[c].sent = client[c].number THEN "done" ELSE "send")
  /\ UNCHANGED <<server, serverUp, toServer, session>>

\* A Python server closes the connection of a handler that has failed, sooner or
\* later or never: the read of the answer ends in an exception.
ClientLosesServer(c) ==
  /\ At(c, "recv") /\ session[c].at = "failed"
  /\ GoTo(c, "dead")
  /\ UNCHANGED <<server, serverUp, toServer, toClient, session>>

\* The process is killed.
ClientDies(c) ==
  /\ client[c].at \in {"header", "send", "recv"}
  /\ GoTo(c, "dead")
  /\ \E k \in 0 .. Len(toServer[c]) : toServer' = [toServer EXCEPT ![c] = SubSeq(@, 1, k)]
  /\ UNCHANGED <<server, serverUp, toClient, session>>

-----------------------------------------------------------------------------
\* The server's side of a connection.
Serving(c, place) == serverUp /\ session[c].at = place
EndOfStream(c) == toServer[c] = <<>> /\ client[c].at \in {"done", "dead"}
Took(c) == toServer' = [toServer EXCEPT ![c] = Tail(@)]
ServerKeeps == UNCHANGED <<server, client, toClient>>
NextMessage(s) == IF s.received < s.number THEN "length" ELSE "closed"
Session(c, s) == session' = [session EXCEPT ![c] = s]

\* The Rust server accepts the next connection when it is done with the last.
ServerAccepts(c) ==
  /\ Serving(c, "none") /\ ~At(c, "dial")
  /\ server = "rust" => \A d \in TtcpClients : session[d].at \in {"none", "closed"}
  /\ Session(c, [NoSession EXCEPT !.at = "header"])
  /\ UNCHANGED <<serverUp, toServer>> /\ ServerKeeps

\* Two numbers, or what there is of them: the Go server ignores errors of Read,
\* but makes a buffer of that length.
NoSuchBuffer(c) == server = "go" /\ toServer[c][2][1] < 0

ServerReadsHeader(c) ==
  /\ Serving(c, "header") /\ Len(toServer[c]) >= 2 /\ ~NoSuchBuffer(c)
  /\ LET read == [NoSession EXCEPT !.number = toServer[c][1][1], !.length = toServer[c][2][1]]
     IN  Session(c, [read EXCEPT !.at = NextMessage(read)])
  /\ toServer' = [toServer EXCEPT ![c] = SubSeq(@, 3, Len(@))]
  /\ UNCHANGED serverUp /\ ServerKeeps

\* make panics, which ends the process.
GoPanics(c) ==
  /\ Serving(c, "header") /\ Len(toServer[c]) >= 2 /\ NoSuchBuffer(c)
  /\ Session(c, [session[c] EXCEPT !.at = "failed"]) /\ serverUp' = FALSE
  /\ UNCHANGED toServer /\ ServerKeeps

GoReadsPartOfHeader(c) ==
  /\ Serving(c, "header") /\ server = "go" /\ At(c, "dead") /\ Len(toServer[c]) < 2
  /\ LET read == IF toServer[c] = <<>> THEN NoSession ELSE [NoSession EXCEPT !.number = toServer[c][1][1]]
     IN  Session(c, [read EXCEPT !.at = NextMessage(read)])
  /\ toServer' = [toServer EXCEPT ![c] = <<>>]
  /\ UNCHANGED serverUp /\ ServerKeeps

\* recvLen, which keeps its value when there is nothing to read.  log.Fatal
\* ends the process, the sessions of the others too.
GoReadsLength(c) ==
  /\ Serving(c, "length") /\ server = "go" /\ (toServer[c] # <<>> \/ EndOfStream(c))
  /\ LET recvLen == IF EndOfStream(c) THEN session[c].recvLen ELSE Head(toServer[c])[1]
     IN  /\ Session(c, [session[c] EXCEPT !.recvLen = recvLen, !.at = "payload"])
         /\ serverUp' = (recvLen = session[c].length)
  /\ toServer' = [toServer EXCEPT ![c] = IF @ = <<>> THEN @ ELSE Tail(@)]
  /\ ServerKeeps

\* The others print a length that is not that of the session, and read as much.
ServerReadsLength(c) ==
  /\ Serving(c, "length") /\ server # "go" /\ toServer[c] # <<>>
  /\ Session(c, [session[c] EXCEPT !.recvLen = Head(toServer[c])[1], !.at = "payload"])
  /\ Took(c) /\ UNCHANGED serverUp /\ ServerKeeps

\* An empty payload can be read from a stream that has ended.
ServerReadsPayload(c) ==
  /\ Serving(c, "payload") /\ session[c].recvLen >= 0
  /\ \/ toServer[c] # <<>>
     \/ EndOfStream(c) /\ (server = "go" \/ session[c].recvLen = 0)
  /\ Session(c, [session[c] EXCEPT !.at = "ack"])
  /\ toServer' = [toServer EXCEPT ![c] = IF @ = <<>> THEN @ ELSE Tail(@)]
  /\ UNCHANGED serverUp /\ ServerKeeps

\* The length of the session (Go) or of the message goes back; to a client that
\* is gone it may go nowhere.
ServerAnswers(c) ==
  /\ Serving(c, "ack")
  /\ toClient' = [toClient EXCEPT ![c] =
                    Append(@, IF server = "go" THEN session[c].length ELSE session[c].recvLen)]
  /\ LET s == [session[c] EXCEPT !.received = @ + 1]
     IN  Session(c, [s EXCEPT !.at = NextMessage(s)])
  /\ UNCHANGED <<server, serverUp, client, toServer>>

\* Mutant of Unwrap: the process outlives a panic in its main task.
UnwrapNot(c) == serverUp' = serverUp

\* unwrap panics in the task of main, as does vec! of a negative length; an
\* exception in Python's handler (readexactly refuses one too) ends that one
\* connection.
Unwrap(c) == serverUp' = (server # "rust")

ServerFails(c) ==
  /\ serverUp /\ server # "go"
  /\ \/ session[c].at = "header" /\ Len(toServer[c]) < 2 /\ At(c, "dead")
     \/ session[c].at = "length" /\ EndOfStream(c)
     \/ session[c].at = "payload" /\ EndOfStream(c) /\ session[c].recvLen # 0
     \/ session[c].at = "payload" /\ session[c].recvLen < 0
     \/ session[c].at = "ack" /\ At(c, "dead")
  /\ Session(c, [session[c] EXCEPT !.at = "failed"])
  /\ Unwrap(c) /\ UNCHANGED toServer /\ ServerKeeps

ClientStep(c) == ClientDials(c) \/ ClientSendsLength(c) \/ ClientSends(c) \/ ClientReceives(c)
ServerStep(c) ==
  \/ ServerAccepts(c) \/ ServerReadsHeader(c) \/ GoReadsPartOfHeader(c) \/ GoPanics(c)
  \/ GoReadsLength(c) \/ ServerReadsLength(c) \/ ServerReadsPayload(c) \/ ServerAnswers(c) \/ ServerFails(c)

TtcpNext == \E c \in TtcpClients : ClientStep(c) \/ ClientDies(c) \/ ClientLosesServer(c) \/ ServerStep(c)

\* Processes, goroutines and tasks are scheduled, TCP delivers.
TtcpFairness == \A c \in TtcpClients : WF_ttcpVars(ClientStep(c)) /\ WF_ttcpVars(ServerStep(c))

TtcpSpec == TtcpInit /\ [][TtcpNext]_ttcpVars /\ TtcpFairness

-----------------------------------------------------------------------------
(***************************************************************************)
(* Properties.                                                             *)
(***************************************************************************)

\* No client gives up on an answer; what the server counts as received of a
\* client that lives is what it has sent.
TtcpCounts ==
  \A c \in TtcpClients :
    /\ client[c].at = "recv" /\ toClient[c] # <<>> => Head(toClient[c]) = client[c].length
    /\ ~At(c, "dead") => session[c].received <= client[c].sent
    /\ At(c, "done") /\ session[c].at = "closed" => session[c].received = client[c].sent

\* What ends a server: the Rust server the death of any client that it serves,
\* the Go server one between the header and the first message, and both a
\* client, alive or not, that asks for a negative length; the Python server
\* nothing.
TtcpSurvives ==
  ~serverUp => \E c \in TtcpClients :
    \/ client[c].length < 0 /\ session[c].at = "failed" /\ server # "python"
    \/ /\ At(c, "dead")
       /\ \/ server = "rust" /\ session[c].at = "failed"
          \/ server = "go" /\ session[c].received = 0 /\ session[c].length # 0

\* A client that is not killed gets to its end if the server stays up, whatever
\* becomes of the other clients, and is served completely, unless its length is
\* negative and the session has failed over it.
TtcpEnds ==
  \A c \in TtcpClients :
    <>(\/ ~serverUp \/ At(c, "dead")
       \/ At(c, "done") /\ session[c].at = "closed"
       \/ client[c].length < 0 /\ session[c].at = "failed")
=============================================================================
