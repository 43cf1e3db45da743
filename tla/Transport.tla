------------------------------- MODULE Transport -------------------------------
(***************************************************************************)
(* TransportService on a Linux socket: the connection thread that accepts  *)
(* one client at a time, reads its lines and answers them; the writer      *)
(* thread that takes lines off write_queue_ in batches; the metrics push   *)
(* thread; any thread that calls send_event; and the thread that stops the *)
(* service.  Shared fields are read and written without a lock where the   *)
(* code does so, one access per action, and client_connected_, a plain     *)
(* bool, is taken to be read and written in program order.                 *)
(*                                                                         *)
(* A client is one connection: a frontend that reconnects is another one.  *)
(* A line is cut in two pieces, so that a read can end in the middle of    *)
(* it.  Of a command only its kind is kept, of what the backend writes     *)
(* only which command of which client it answers.                          *)
(***************************************************************************)
EXTENDS Naturals, SequencesExt

CONSTANTS
  Client,      \* the connections that are made
  None,        \* no client
  Caller,      \* threads that call send_event
  Offered,     \* the kinds of lines that are sent
  MaxLines,    \* bound on the lines a client sends
  MaxUnsolicited \* bound on the events and metrics that are sent

\* The two commands that change what this module keeps.  "other" stands for the
\* rest, and for a line that does not parse, whose answer is an error without an
\* id.  Empty lines, which the loop skips, are left out.
Kind == {"subscribe", "unsubscribe", "other"}

ASSUME TransportAssumption ==
  /\ None \notin Client
  /\ Offered \subseteq Kind
  /\ MaxLines \in Nat
  /\ MaxUnsolicited \in Nat

VARIABLES
  running,     \* running_
  connected,   \* client_connected_
  subscribed,  \* metrics_subscribed_
  queue,       \* write_queue_
  handle,      \* server_.handle is not null
  listening,   \* its listen_fd is open
  accepted,    \* the client behind its client_fd, or None
  buffer,      \* read_buffer_
  conn,        \* connection thread: pc, the client it serves, the line it is on
  writer,      \* writer thread: pc, its batch
  pusher,      \* metrics push thread: pc, its copy of metrics_subscribed_, ...
  caller,      \* threads in send_event: pc, the client they found connected
  stopper,     \* pc of the thread that calls stop()
  link,        \* a client's connection as the backend's side of it stands
  alive,       \* the client's side of it is open
  sent,        \* the kinds of the lines a client has begun to send
  midline,     \* the client has sent the first piece of its last line only
  wire,        \* pieces sent and not read yet
  received,    \* lines a client has received
  unsolicited, \* events and metrics sent so far
  missed       \* history: the client whose descriptor was stored after stop()
               \* had closed the one it found

server == <<handle, listening, accepted, missed>>
flags == <<running, connected, subscribed>>
clients == <<link, alive, sent, midline, wire, received>>
net == <<server, clients>>
others == <<pusher, caller, stopper, unsolicited>>
vars == <<flags, queue, server, buffer, conn, writer, pusher, caller, stopper,
          clients, unsolicited>>

\* A piece of line n of a client; the last one carries the newline.
Piece == [line: Nat \ {0}, last: BOOLEAN]

\* What is written: an answer to line n of a client, or an event or metrics for
\* the client that was connected when the sender looked.
Line == [kind: {"answer"}, to: Client, line: Nat \ {0}]
        \cup [kind: {"event", "metrics"}, to: Client \cup {None}, line: {0}]
Answer(c, n) == [kind |-> "answer", to |-> c, line |-> n]
Unsolicited(k, c) == [kind |-> k, to |-> c, line |-> 0]
-----------------------------------------------------------------------------
(* The write queue.                                                        *)

\* The writer holds write_queue_mutex_ between testing the predicate of its
\* wait and blocking; every other holder is done in one action.
QueueFree == writer.pc # "blocking"

Woken == IF writer.pc = "waiting" THEN [writer EXCEPT !.pc = "lock"] ELSE writer

\* Seeded fault: the line is queued and the writer not notified.
Enqueue_Fault(l) ==
  /\ QueueFree
  /\ queue' = Append(queue, l)
  /\ UNCHANGED writer

\* The locked push of write_line, and notify_one.
Enqueue(l) ==
  /\ QueueFree
  /\ queue' = Append(queue, l)
  /\ writer' = Woken
-----------------------------------------------------------------------------
(* The clients.                                                            *)

Reachable(c) == alive[c] /\ link[c] \in {"waiting", "up"}

\* What no client action changes.
backend == <<flags, queue, server, buffer, conn, writer, pusher, caller, stopper>>

\* A connect() succeeds as soon as the listening socket queues it.
Dial(c) ==
  /\ link[c] = "off"
  /\ listening
  /\ link' = [link EXCEPT ![c] = "waiting"]
  /\ alive' = [alive EXCEPT ![c] = TRUE]
  /\ UNCHANGED <<backend, sent, midline, wire, received, unsolicited>>

BeginLine(c, k) ==
  /\ Reachable(c)
  /\ ~midline[c]
  /\ Len(sent[c]) < MaxLines
  /\ sent' = [sent EXCEPT ![c] = Append(@, k)]
  /\ midline' = [midline EXCEPT ![c] = TRUE]
  /\ wire' = [wire EXCEPT
       ![c] = Append(@, [line |-> Len(sent[c]) + 1, last |-> FALSE])]
  /\ UNCHANGED <<backend, link, alive, received, unsolicited>>

FinishLine(c) ==
  /\ Reachable(c)
  /\ midline[c]
  /\ midline' = [midline EXCEPT ![c] = FALSE]
  /\ wire' = [wire EXCEPT
       ![c] = Append(@, [line |-> Len(sent[c]), last |-> TRUE])]
  /\ UNCHANGED <<backend, link, alive, sent, received, unsolicited>>

\* The client closes its end or dies; what it sent can still be read.
Hangup(c) ==
  /\ Reachable(c)
  /\ alive' = [alive EXCEPT ![c] = FALSE]
  /\ UNCHANGED <<backend, link, sent, midline, wire, received, unsolicited>>
-----------------------------------------------------------------------------
(* The socket, as the Linux platform implements it.                        *)

\* pipe_read and pipe_write reach a client only through the handle.
ClientFd == IF handle THEN accepted ELSE None

Waiting == {c \in Client : link[c] = "waiting"}

\* Closing the client descriptor ends that connection; closing the listening
\* one resets the connections nobody accepted.
CloseLinks(cs) ==
  /\ link' = [c \in Client |-> IF c \in cs THEN "closed" ELSE link[c]]
  /\ wire' = [c \in Client |-> IF c \in cs THEN <<>> ELSE wire[c]]
  /\ UNCHANGED <<alive, sent, midline, received>>

\* Seeded fault: only the listening descriptor is closed.
close_server_Fault ==
  /\ handle' = FALSE
  /\ UNCHANGED <<accepted, missed>>
  /\ IF handle
     THEN listening' = FALSE /\ CloseLinks(Waiting)
     ELSE UNCHANGED <<listening, clients>>

\* close_server as the connection thread calls it, with pipe_disconnect before
\* it.  stop() may close the same descriptors at the same time; each is exchanged
\* for -1 and closed by the one who got it, so one action will do here.
close_server ==
  /\ handle' = FALSE
  /\ UNCHANGED missed
  /\ IF handle
     THEN /\ listening' = FALSE
          /\ accepted' = None
          /\ CloseLinks(Waiting \cup {c \in Client : c = accepted})
     ELSE UNCHANGED <<listening, accepted, clients>>
-----------------------------------------------------------------------------
(* The connection thread: connection_loop, read_line, dispatch.            *)

ConnGoto(pc) == conn' = [conn EXCEPT !.pc = pc]
ConnMove(from, to) == conn.pc = from /\ ConnGoto(to) /\ UNCHANGED others

ConnTop ==
  /\ ConnMove("top", IF running THEN "listen" ELSE "done")
  /\ UNCHANGED <<flags, queue, net, buffer, writer>>

\* A listen() that fails is tried again a second later, after another look at
\* running_: a socket that opens later, or the end of the loop.
Listen ==
  /\ ConnMove("listen", "accept")
  /\ handle' = TRUE
  /\ listening' = TRUE
  /\ accepted' = None
  /\ UNCHANGED <<flags, queue, missed, buffer, writer, clients>>

ListenFails ==
  /\ ConnMove("listen", "top")
  /\ ~running
  /\ UNCHANGED <<flags, queue, net, buffer, writer>>

\* accept() makes the connection; nobody but this thread knows of it yet ...
Accept(c) ==
  /\ conn.pc = "accept"
  /\ listening
  /\ link[c] = "waiting"
  /\ link' = [link EXCEPT ![c] = "up"]
  /\ conn' = [pc |-> "store", peer |-> c, line |-> 0]
  /\ UNCHANGED <<flags, queue, server, buffer, writer, alive, sent, midline, wire,
                 received, others>>

\* stop() has taken client_fd from this server, or is done with it.
StopWasHere == stopper \in {"close_listen", "close_handle"} \/ ~handle

\* ... until client_fd has the descriptor.  Its credentials may be refused.
StoreClient ==
  /\ \/ ConnMove("store", "accepted")
     \/ ConnMove("store", "close")
  /\ accepted' = conn.peer
  /\ missed' = IF StopWasHere THEN conn.peer ELSE missed
  /\ UNCHANGED <<flags, queue, handle, listening, buffer, writer, clients>>

\* One second without a client, or stop() closed the socket under the poll.
AcceptTimeout ==
  /\ ConnMove("accept", "close")
  /\ listening => Waiting = {}
  /\ UNCHANGED <<flags, queue, net, buffer, writer>>

\* A client that connected since the timeout is reset.  If stop() was here first
\* there is no handle, and the thread closes nothing.
CloseServer ==
  /\ conn.pc = "close"
  /\ close_server
  /\ conn' = [pc |-> "top", peer |-> None, line |-> 0]
  /\ UNCHANGED <<flags, queue, buffer, writer, others>>

\* The service may have been stopped while the thread waited for a client.
Accepted ==
  /\ ConnMove("accepted", IF running THEN "verify" ELSE "close")
  /\ UNCHANGED <<flags, queue, net, buffer, writer>>

\* verify_peer does not trust the client.
Refuse ==
  /\ ConnMove("verify", "close")
  /\ UNCHANGED <<flags, queue, net, buffer, writer>>

Admit ==
  /\ ConnMove("verify", "setup")
  /\ connected' = TRUE
  /\ buffer' = <<>>
  /\ UNCHANGED <<running, subscribed, queue, net, writer>>

ResetSubscription ==
  /\ ConnMove("setup", "loop")
  /\ subscribed' = FALSE
  /\ UNCHANGED <<running, connected, queue, net, buffer, writer>>

ReadLoop ==
  /\ ConnMove("loop", IF running /\ connected THEN "read" ELSE "leave")
  /\ UNCHANGED <<flags, queue, net, buffer, writer>>

HasLine(b) == \E i \in 1..Len(b) : b[i].last

\* The handlers that change what this module keeps; the others do not.
dispatch(kind) ==
  subscribed' = CASE kind = "subscribe" -> TRUE
                  [] kind = "unsubscribe" -> FALSE
                  [] OTHER -> subscribed

\* Seeded fault: the line is copied and stays in the buffer.
TakeLine_Fault(b) ==
  IF HasLine(b)
  THEN LET e == SelectInSeq(b, LAMBDA p : p.last)
       IN  /\ buffer' = SubSeq(b, e, Len(b))
           /\ conn' = [conn EXCEPT !.line = b[e].line, !.pc = "reply"]
           /\ dispatch(sent[conn.peer][b[e].line])
  ELSE buffer' = b /\ ConnGoto("loop") /\ UNCHANGED subscribed

\* read_line with b in the buffer: take the first line off it, if one is whole,
\* and dispatch it.  Half a line takes the thread back to the loop.
TakeLine(b) ==
  IF HasLine(b)
  THEN LET e == SelectInSeq(b, LAMBDA p : p.last)
       IN  /\ buffer' = SubSeq(b, e + 1, Len(b))
           /\ conn' = [conn EXCEPT !.line = b[e].line, !.pc = "reply"]
           /\ dispatch(sent[conn.peer][b[e].line])
  ELSE buffer' = b /\ ConnGoto("loop") /\ UNCHANGED subscribed

ReadBuffered ==
  /\ conn.pc = "read"
  /\ HasLine(buffer)
  /\ TakeLine(buffer)
  /\ UNCHANGED <<running, connected, queue, net, writer, others>>

\* pipe_read returns some of the bytes that are there.
ReadPipe ==
  /\ conn.pc = "read"
  /\ ~HasLine(buffer)
  /\ ClientFd # None
  /\ \E k \in 1..Len(wire[ClientFd]) :
       /\ TakeLine(buffer \o SubSeq(wire[ClientFd], 1, k))
       /\ wire' = [wire EXCEPT ![ClientFd] = SubSeq(@, k + 1, Len(@))]
  /\ UNCHANGED <<running, connected, queue, server, writer, link, alive, sent, midline,
                 received, others>>

\* Seeded fault: a failed read ends the loop only when the service stops.
ReadFails_Fault ==
  /\ ConnMove("read", IF running THEN "loop" ELSE "leave")
  /\ ~HasLine(buffer)
  /\ ClientFd # None => ~alive[ClientFd] /\ wire[ClientFd] = <<>>
  /\ UNCHANGED <<flags, queue, net, buffer, writer>>

\* pipe_read fails: the client has closed its end, or stop() ours.  With half a
\* line in the buffer the loop takes this for a partial read and tries again.
ReadFails ==
  /\ ConnMove("read", IF running /\ buffer # <<>> THEN "loop" ELSE "leave")
  /\ ~HasLine(buffer)
  /\ ClientFd # None => ~alive[ClientFd] /\ wire[ClientFd] = <<>>
  /\ UNCHANGED <<flags, queue, net, buffer, writer>>

\* send_response or send_error.  Only this thread clears client_connected_.
Reply ==
  /\ ConnMove("reply", "loop")
  /\ Enqueue(Answer(conn.peer, conn.line))
  /\ UNCHANGED <<flags, net, buffer>>

Leave ==
  /\ ConnMove("leave", "unsubscribe")
  /\ connected' = FALSE
  /\ UNCHANGED <<running, subscribed, queue, net, buffer, writer>>

\* Seeded fault: the subscription outlives the client.
LeaveSubscription_Fault ==
  /\ ConnMove("unsubscribe", "drain")
  /\ UNCHANGED <<flags, queue, net, buffer, writer>>

LeaveSubscription ==
  /\ ConnMove("unsubscribe", "drain")
  /\ subscribed' = FALSE
  /\ UNCHANGED <<running, connected, queue, net, buffer, writer>>

\* Seeded fault: the answers nobody wrote stay in the queue.
Drain_Fault ==
  /\ ConnMove("drain", "close")
  /\ QueueFree
  /\ UNCHANGED <<flags, queue, net, buffer, writer>>

Drain ==
  /\ ConnMove("drain", "close")
  /\ QueueFree
  /\ queue' = <<>>
  /\ UNCHANGED <<flags, net, buffer, writer>>

Connection ==
  \/ ConnTop \/ Listen \/ ListenFails
  \/ \E c \in Client : Accept(c)
  \/ StoreClient
  \/ AcceptTimeout \/ CloseServer
  \/ Accepted \/ Refuse \/ Admit \/ ResetSubscription
  \/ ReadLoop \/ ReadBuffered \/ ReadPipe \/ ReadFails
  \/ Reply
  \/ Leave \/ LeaveSubscription \/ Drain
-----------------------------------------------------------------------------
(* The writer thread: write_loop.                                          *)

WriterMove(from, to) ==
  /\ writer.pc = from
  /\ writer' = [writer EXCEPT !.pc = to]
  /\ UNCHANGED <<flags, queue, net, buffer, conn, others>>

WriterTop == WriterMove("top", IF running THEN "lock" ELSE "done")

\* The predicate of the wait is false, and the mutex still held ...
WriterWait == queue = <<>> /\ running /\ WriterMove("lock", "blocking")

\* ... until the thread blocks, waiting for a notification.
WriterBlock == WriterMove("blocking", "waiting")

SpuriousWakeup == WriterMove("waiting", "lock")

\* Seeded fault: woken by stop(), the writer does not look whether to end.
WriterTake_Fault ==
  /\ writer.pc = "lock"
  /\ queue # <<>> \/ ~running
  /\ queue' = <<>>
  /\ writer' = [pc |-> "gate", batch |-> queue]
  /\ UNCHANGED <<flags, net, buffer, conn, others>>

WriterTake ==
  /\ writer.pc = "lock"
  /\ queue # <<>> \/ ~running
  /\ queue' = <<>>
  /\ writer' = [pc |-> IF queue = <<>> THEN "done" ELSE "gate", batch |-> queue]
  /\ UNCHANGED <<flags, net, buffer, conn, others>>

WriterGate ==
  /\ writer.pc = "gate"
  /\ writer' = IF connected THEN [writer EXCEPT !.pc = "write"]
               ELSE [pc |-> "top", batch |-> <<>>]
  /\ UNCHANGED <<flags, queue, net, buffer, conn, others>>

\* pipe_write writes to whichever client the server has accepted by now; the
\* first line that fails ends the batch.
pipe_write ==
  /\ writer.pc = "write"
  /\ IF ClientFd # None /\ alive[ClientFd]
     THEN /\ received' = [received EXCEPT ![ClientFd] = Append(@, Head(writer.batch))]
          /\ writer' = [pc |-> IF Len(writer.batch) = 1 THEN "top" ELSE "write",
                        batch |-> Tail(writer.batch)]
     ELSE /\ writer' = [pc |-> "top", batch |-> <<>>]
          /\ UNCHANGED received
  /\ UNCHANGED <<flags, queue, server, buffer, conn, others, link, alive, sent,
                 midline, wire>>

Writer == WriterTop \/ WriterWait \/ WriterBlock \/ WriterTake \/ WriterGate
          \/ pipe_write
-----------------------------------------------------------------------------
(* The metrics push thread: metrics_push_loop.  Nothing is ever put in      *)
(* event_queue_, so its last part is left out.                             *)

PushRead ==
  /\ pusher.pc = "top"
  /\ pusher' = [pusher EXCEPT !.pc = IF running THEN "wait" ELSE "done",
                              !.subscribed = subscribed]
  /\ UNCHANGED <<flags, queue, net, buffer, conn, writer, caller, stopper, unsolicited>>

\* wait_for ends, by a notification or after the interval.
PushWake ==
  /\ pusher.pc = "wait"
  /\ pusher' = [pusher EXCEPT !.pc = IF running THEN "gate" ELSE "done"]
  /\ UNCHANGED <<flags, queue, net, buffer, conn, writer, caller, stopper, unsolicited>>

\* The subscription is the one read before the wait.
PushGate ==
  /\ pusher.pc = "gate"
  /\ IF pusher.subscribed /\ connected /\ unsolicited < MaxUnsolicited
     THEN /\ pusher' = [pusher EXCEPT !.pc = "push", !.to = accepted]
          /\ unsolicited' = unsolicited + 1
     ELSE /\ pusher' = [pusher EXCEPT !.pc = "top"]
          /\ UNCHANGED unsolicited
  /\ UNCHANGED <<flags, queue, net, buffer, conn, writer, caller, stopper>>

PushLine ==
  /\ pusher.pc = "push"
  /\ Enqueue(Unsolicited("metrics", pusher.to))
  /\ pusher' = [pusher EXCEPT !.pc = "top", !.to = None]
  /\ UNCHANGED <<flags, net, buffer, conn, caller, stopper, unsolicited>>

Pusher == PushRead \/ PushWake \/ PushGate \/ PushLine
-----------------------------------------------------------------------------
(* send_event, from the button, tray and power threads.                    *)

SendGate(t) ==
  /\ caller[t].pc = "idle"
  /\ connected
  /\ unsolicited < MaxUnsolicited
  /\ unsolicited' = unsolicited + 1
  /\ caller' = [caller EXCEPT ![t] = [pc |-> "push", to |-> accepted]]
  /\ UNCHANGED <<flags, queue, net, buffer, conn, writer, pusher, stopper>>

SendLine(t) ==
  /\ caller[t].pc = "push"
  /\ Enqueue(Unsolicited("event", caller[t].to))
  /\ caller' = [caller EXCEPT ![t] = [pc |-> "idle", to |-> None]]
  /\ UNCHANGED <<flags, net, buffer, conn, pusher, stopper, unsolicited>>
-----------------------------------------------------------------------------
(* stop(), once, from the thread that runs main().                         *)

StopFlag ==
  /\ stopper = "up"
  /\ running' = FALSE
  /\ stopper' = "notify"
  /\ UNCHANGED <<connected, subscribed, queue, net, buffer, conn, writer, pusher,
                 caller, unsolicited>>

\* Without write_queue_mutex_: a writer about to block misses it.
StopNotify ==
  /\ stopper = "notify"
  /\ writer' = Woken
  /\ stopper' = "close"
  /\ UNCHANGED <<flags, queue, net, buffer, conn, pusher, caller, unsolicited>>

StopMove(from, to) ==
  /\ stopper = from
  /\ stopper' = to
  /\ UNCHANGED <<flags, queue, buffer, conn, writer, pusher, caller, unsolicited>>

\* Seeded fault: stop() joins the threads and does not close the server first.
StopCloseClient_Fault ==
  /\ StopMove("close", "join")
  /\ UNCHANGED net

\* close_server, step by step: the client descriptor as it is now ...
StopCloseClient ==
  /\ StopMove("close", IF handle THEN "close_listen" ELSE "join")
  /\ UNCHANGED <<handle, listening, missed>>
  /\ IF handle
     THEN accepted' = None /\ CloseLinks({c \in Client : c = accepted})
     ELSE UNCHANGED <<accepted, clients>>

\* ... then the listening one, which wakes the thread out of its poll ...
StopCloseListen ==
  /\ StopMove("close_listen", "close_handle")
  /\ listening' = FALSE
  /\ UNCHANGED <<handle, accepted, missed>>
  /\ CloseLinks(Waiting)

\* ... and the handle, so that nobody finds the server any more.
StopCloseHandle ==
  /\ StopMove("close_handle", "join")
  /\ handle' = FALSE
  /\ UNCHANGED <<listening, accepted, missed, clients>>

StopJoin ==
  /\ stopper = "join"
  /\ conn.pc = "done" /\ pusher.pc = "done" /\ writer.pc = "done"
  /\ stopper' = "stopped"
  /\ UNCHANGED <<flags, queue, net, buffer, conn, writer, pusher, caller, unsolicited>>

StopClose == StopCloseClient \/ StopCloseListen \/ StopCloseHandle

Stop == StopFlag \/ StopNotify \/ StopClose \/ StopJoin

\* The service has stopped; what is left of the callers of send_event is idle.
Stopped ==
  /\ stopper = "stopped"
  /\ UNCHANGED vars
-----------------------------------------------------------------------------
Init ==
  /\ running = TRUE
  /\ connected = FALSE
  /\ subscribed = FALSE
  /\ queue = <<>>
  /\ handle = FALSE
  /\ listening = FALSE
  /\ accepted = None
  /\ buffer = <<>>
  /\ conn = [pc |-> "top", peer |-> None, line |-> 0]
  /\ writer = [pc |-> "top", batch |-> <<>>]
  /\ pusher = [pc |-> "top", subscribed |-> FALSE, to |-> None]
  /\ caller = [t \in Caller |-> [pc |-> "idle", to |-> None]]
  /\ stopper = "up"
  /\ link = [c \in Client |-> "off"]
  /\ alive = [c \in Client |-> FALSE]
  /\ sent = [c \in Client |-> <<>>]
  /\ midline = [c \in Client |-> FALSE]
  /\ wire = [c \in Client |-> <<>>]
  /\ received = [c \in Client |-> <<>>]
  /\ unsolicited = 0
  /\ missed = None

Clients ==
  \E c \in Client :
    \/ Dial(c)
    \/ \E k \in Offered : BeginLine(c, k)
    \/ FinishLine(c)
    \/ Hangup(c)

Next ==
  \/ Clients
  \/ Connection
  \/ Writer \/ SpuriousWakeup
  \/ Pusher
  \/ \E t \in Caller : SendGate(t) \/ SendLine(t)
  \/ Stop \/ Stopped

Spec == Init /\ [][Next]_vars

\* Every thread of the service runs when it can.  A thread that needs
\* write_queue_mutex_ gets it in the end if the writer keeps releasing it: strong
\* fairness for those.  Nothing obliges a client to connect, to finish a line or
\* to stay, the service to be stopped, an event to happen, or a condition
\* variable to wake up without a notification.
Fairness ==
  /\ SF_vars(Connection)
  /\ WF_vars(Writer)
  /\ SF_vars(Pusher)
  /\ \A t \in Caller : SF_vars(SendLine(t))
  /\ WF_vars(StopNotify \/ StopClose \/ StopJoin)

FairSpec == Spec /\ Fairness
-----------------------------------------------------------------------------
\* The connection thread is between admitting a client and its cleanup.
Serving(c) ==
  /\ conn.peer = c
  /\ conn.pc \in {"setup", "loop", "read", "reply", "leave",
                  "unsubscribe", "drain"}

\* Every variable has its type; the writer goes to the socket with a batch only.
TypeOK ==
  /\ running \in BOOLEAN /\ connected \in BOOLEAN /\ subscribed \in BOOLEAN
  /\ queue \in Seq(Line)
  /\ handle \in BOOLEAN /\ listening \in BOOLEAN
  /\ accepted \in Client \cup {None} /\ missed \in Client \cup {None}
  /\ buffer \in Seq(Piece)
  /\ conn \in [pc: {"top", "listen", "accept", "store", "accepted", "close", "verify",
                    "setup", "loop", "read", "reply", "leave", "unsubscribe", "drain",
                    "done"},
               peer: Client \cup {None},
               line: Nat]
  /\ writer \in [pc: {"top", "lock", "blocking", "waiting", "gate", "write", "done"},
                 batch: Seq(Line)]
  /\ writer.pc \in {"gate", "write"} <=> writer.batch # <<>>
  /\ pusher \in [pc: {"top", "wait", "gate", "push", "done"},
                 subscribed: BOOLEAN,
                 to: Client \cup {None}]
  /\ caller \in [Caller -> [pc: {"idle", "push"}, to: Client \cup {None}]]
  /\ stopper \in {"up", "notify", "close", "close_listen", "close_handle", "join",
                "stopped"}
  /\ link \in [Client -> {"off", "waiting", "up", "closed"}]
  /\ alive \in [Client -> BOOLEAN]
  /\ sent \in [Client -> Seq(Kind)]
  /\ midline \in [Client -> BOOLEAN]
  /\ wire \in [Client -> Seq(Piece)]
  /\ received \in [Client -> Seq(Line)]
  /\ unsolicited \in 0..MaxUnsolicited

\* The answers that wait in write_queue_ are for the client being served: none
\* survives the cleanup of the connection that asked for it, so a client that
\* connects later finds an empty or an events-only queue.
QueuedAnswersCurrent ==
  \A i \in 1..Len(queue) :
    queue[i].kind = "answer" => Serving(queue[i].to)

\* Where client c has received the answers to its own commands.
OwnAnswers(c) ==
  {i \in 1..Len(received[c]) : received[c][i].kind = "answer" /\ received[c][i].to = c}

Answered(c, n) == \E i \in OwnAnswers(c) : received[c][i].line = n

\* The lines that client c has sent in whole.
WholeLines(c) == IF midline[c] THEN Len(sent[c]) - 1 ELSE Len(sent[c])

\* Each client receives the answers to its own commands in the order it sent
\* them, each once, without a gap and only for lines it has sent in whole,
\* through the queue, the batches, stops and failed writes.
AnswersInOrder ==
  \A c \in Client :
    /\ \A i, j \in OwnAnswers(c) : i < j => received[c][i].line < received[c][j].line
    /\ \A i \in OwnAnswers(c) :
         /\ received[c][i].line \in 1..WholeLines(c)
         /\ \A n \in 1..received[c][i].line : Answered(c, n)

\* The last subscription command that was dispatched for the current client.
Wants(c) ==
  LET choices == {i \in 1..conn.line : sent[c][i] \in {"subscribe", "unsubscribe"}}
  IN  \E i \in choices : /\ sent[c][i] = "subscribe"
                         /\ \A j \in choices : j <= i

\* metrics_subscribed_ is set only while a client is served whose last word on
\* the matter was subscribe_metrics: no subscription leaks to the next client.
SubscriptionIsCurrent ==
  subscribed => \E c \in Client : Serving(c) /\ Wants(c)

\* An accepted connection is the one the server holds, or about to be, and is
\* closed before the thread listens again or ends, whichever way it left the loop
\* and wherever stop() closes the server under it.  The one exception: stop() looks
\* for a client between accept() and the store of its descriptor, and nobody
\* closes what is stored after that.
NoLeakedConnection ==
  \A c \in Client :
    link[c] = "up" =>
      \/ c = missed /\ ~running
      \/ /\ accepted = c \/ (conn.pc = "store" /\ conn.peer = c)
         /\ conn.pc \notin {"top", "listen", "accept", "done"}
-----------------------------------------------------------------------------
(* Liveness, under FairSpec.                                               *)

\* A whole line of a client the backend has accepted is answered, unless the
\* client hangs up, or the connection is closed, or missed by stop().
LineAnswered ==
  \A c \in Client : \A n \in 1..MaxLines :
    (link[c] = "up" /\ n <= WholeLines(c))
    ~> (Answered(c, n) \/ ~alive[c] \/ link[c] = "closed" \/ c = missed)

\* A client that hangs up between two lines is noticed and its connection closed,
\* unless stop() missed it.
HangupReleased ==
  \A c \in Client :
    (link[c] = "up" /\ ~alive[c] /\ ~midline[c]) ~> (link[c] = "closed" \/ c = missed)

\* stop() always gets as far as joining the writer: the connection thread and
\* the metrics thread end, in whatever they were blocked.
StopEndsConnection ==
  (stopper = "notify") ~> (conn.pc = "done" /\ pusher.pc = "done")
-----------------------------------------------------------------------------
(* What the sources say and the code does not do.                          *)

\* transport.cpp:330, "Drain pending writes": an answer reaches only the client
\* that sent the command.
AnswersStayHome ==
  \A c \in Client : \A i \in 1..Len(received[c]) :
    received[c][i].kind = "answer" => received[c][i].to = c

\* transport.h:68, "Stop transport server and join threads": stop() returns.
StopReturns == (stopper = "notify") ~> (stopper = "stopped")
=============================================================================
