------------------------------- MODULE Server -------------------------------
(***************************************************************************)
(* The network layer: Server (src/network/server.cpp) on top of the thread *)
(* pool Scheduler (src/infra/scheduler.cpp), with the SIGINT/SIGTERM       *)
(* handler of main.cpp.                                                    *)
(*                                                                         *)
(* The main thread runs the accept loop; each accepted socket becomes one  *)
(* task handle_client(sock) on the pool's FIFO queue; a worker runs that   *)
(* task until the session ends.  stop() is run by the signal handler on    *)
(* the main thread, between two of its steps.  When run() returns, the     *)
(* Server object is destroyed: ~Server calls stop() (a no-op by then),     *)
(* then the members are destroyed in reverse declaration order             *)
(* (server.hpp): client_mutex_ and client_sockets_ first, scheduler_ last, *)
(* whose destructor sets stop_, wakes the workers and joins them.          *)
(*                                                                         *)
(* A socket is named by the client it connects, so descriptor numbers are  *)
(* not modelled.  Handler::process is abstracted to its answer: goodbye    *)
(* for an exit from a client whose key is ADMIN (has_permission refuses    *)
(* exit to every other role, handler.cpp:74), some other response          *)
(* otherwise.  client_mutex_ sections (add_client, remove_client, stop's   *)
(* loop) do not block, so each is one step.                                *)
(***************************************************************************)
EXTENDS Naturals, Sequences, FiniteSets

CONSTANTS
  Workers,   \* the pool's threads
  Clients,   \* client connections, one per client
  Admins,    \* clients whose API key authenticates as ADMIN
  MaxReqs,   \* requests a client sends at most
  None

ASSUME Admins \subseteq Clients /\ MaxReqs \in Nat /\ None \notin Clients

Requests == {"op", "exit"}

VARIABLES
  \* Server
  running,      \* running_
  listening,    \* server_fd_ >= 0
  registry,     \* client_sockets_
  registryAlive,\* client_sockets_ and client_mutex_ not yet destroyed
  mainPc,       \* where the main thread is
  cur,          \* the socket the accept loop holds
  \* Scheduler
  tasks,        \* tasks_: the FIFO of handle_client(sock) tasks
  stopping,     \* stop_
  wpc,          \* per worker: where it is
  wconn,        \* per worker: the socket of the task it runs
  wreq,         \* per worker: the request it is processing
  \* Connections
  conn,         \* per client: "none", "backlog" (not yet accepted), "accepted"
  sock,         \* per client: server side socket "none", "open", "closed"
  inbox,        \* per client: requests sent and not yet received
  peerClosed,   \* per client: the client has closed its end
  sent,         \* per client: requests sent
  answered,     \* per client: responses delivered
  closes        \* per client: close() calls on its socket (history)

srvVars == <<running, listening, registry, registryAlive, mainPc, cur>>
poolVars == <<tasks, stopping, wpc, wconn, wreq>>
netVars == <<conn, sock, inbox, peerClosed, sent, answered, closes>>
vars == <<srvVars, poolVars, netVars>>

\* main() has installed signal_handler for SIGINT and SIGTERM; g_server is
\* still null.  The pool's workers start waiting as soon as the Server
\* (and its Scheduler) is constructed.
Init ==
  /\ running = FALSE /\ listening = FALSE
  /\ mainPc = "boot"
  /\ registry = {} /\ registryAlive = TRUE
  /\ cur = None
  /\ tasks = <<>> /\ stopping = FALSE
  /\ wpc = [w \in Workers |-> "wait"]
  /\ wconn = [w \in Workers |-> None]
  /\ wreq = [w \in Workers |-> None]
  /\ conn = [c \in Clients |-> "none"]
  /\ sock = [c \in Clients |-> "none"]
  /\ inbox = [c \in Clients |-> <<>>]
  /\ peerClosed = [c \in Clients |-> FALSE]
  /\ sent = [c \in Clients |-> 0]
  /\ answered = [c \in Clients |-> 0]
  /\ closes = [c \in Clients |-> 0]

\* close(sock) by the server.
Close(S) ==
  /\ sock' = [c \in Clients |-> IF c \in S THEN "closed" ELSE sock[c]]
  /\ closes' = [c \in Clients |-> IF c \in S THEN closes[c] + 1 ELSE closes[c]]

-----------------------------------------------------------------------------
(* Clients: the environment.  A client follows spec 6.2: one request per   *)
(* recv, so it sends the next request only once the last is answered.     *)

Connect(c) ==
  /\ conn[c] = "none" /\ listening
  /\ conn' = [conn EXCEPT ![c] = "backlog"]
  /\ UNCHANGED <<srvVars, poolVars, sock, inbox, peerClosed, sent, answered, closes>>

Send(c, r) ==
  /\ conn[c] # "none" /\ sock[c] \in {"none", "open"} /\ ~peerClosed[c]
  /\ sent[c] < MaxReqs /\ answered[c] = sent[c]
  /\ inbox' = [inbox EXCEPT ![c] = Append(@, r)]
  /\ sent' = [sent EXCEPT ![c] = @ + 1]
  /\ UNCHANGED <<srvVars, poolVars, conn, sock, peerClosed, answered, closes>>

Hangup(c) ==
  /\ conn[c] # "none" /\ ~peerClosed[c]
  /\ peerClosed' = [peerClosed EXCEPT ![c] = TRUE]
  /\ UNCHANGED <<srvVars, poolVars, conn, sock, inbox, sent, answered, closes>>

-----------------------------------------------------------------------------
(* The signal handler: g_server->stop() on the main thread.                *)

StopNoClients ==
  /\ running
  /\ running' = FALSE /\ listening' = FALSE
  /\ UNCHANGED <<registry, registryAlive, mainPc, cur, poolVars, netVars>>
\* Server::stop: running_ = false; shut and close the listener; shut and
\* close every registered client socket and clear the registry.  A
\* second call finds running_ false and returns.
Stop ==
  /\ running
  /\ running' = FALSE /\ listening' = FALSE
  /\ Close(registry)
  /\ registry' = {}
  /\ UNCHANGED <<registryAlive, mainPc, cur, poolVars, conn, inbox, peerClosed, sent, answered>>

\* signal_handler: if (g_server) g_server->stop().  g_server is set once
\* main has constructed the Server and never reset.
Signal ==
  /\ mainPc # "boot"
  /\ Stop

-----------------------------------------------------------------------------
(* The main thread: main(), Server::run's accept loop, then ~Server.       *)

\* main(): parse the arguments, construct Db (recovery) and Server, then
\* g_server = &server and server.run().  Until g_server is set a signal
\* finds it null and is lost.
Boot ==
  /\ mainPc = "boot"
  /\ mainPc' = "prologue"
  /\ UNCHANGED <<running, listening, registry, registryAlive, cur, poolVars, netVars>>

\* Server::run's socket/setsockopt/bind/listen prologue: any failure
\* returns before running_ is set and main goes on to ~Server; a stop()
\* before running_ = true finds running_ false and returns.
Prologue ==
  /\ mainPc = "prologue"
  /\ \E ok \in BOOLEAN :
       /\ running' = ok /\ listening' = ok
       /\ mainPc' = IF ok THEN "accept" ELSE "dtor"
  /\ UNCHANGED <<registry, registryAlive, cur, poolVars, netVars>>

\* accept() returns a connection from the backlog.
Accept(c) ==
  /\ mainPc = "accept" /\ listening /\ conn[c] = "backlog"
  /\ conn' = [conn EXCEPT ![c] = "accepted"]
  /\ sock' = [sock EXCEPT ![c] = "open"]
  /\ cur' = c /\ mainPc' = "check"
  /\ UNCHANGED <<running, listening, registry, registryAlive, poolVars,
                 inbox, peerClosed, sent, answered, closes>>

\* accept() on the closed listener fails: the loop goes on while
\* running_, and breaks otherwise.
AcceptFail ==
  /\ mainPc = "accept" /\ ~listening
  /\ mainPc' = IF running THEN "accept" ELSE "dtor"
  /\ UNCHANGED <<running, listening, registry, registryAlive, cur, poolVars, netVars>>

\* if (!running_) { close(sock); break; }
Check ==
  /\ mainPc = "check"
  /\ IF running
     THEN mainPc' = "add" /\ UNCHANGED <<sock, closes>>
     ELSE mainPc' = "dtor" /\ Close({cur})
  /\ UNCHANGED <<running, listening, registry, registryAlive, cur, poolVars,
                 conn, inbox, peerClosed, sent, answered>>

\* add_client(sock).
AddClient ==
  /\ mainPc = "add"
  /\ registry' = registry \cup {cur}
  /\ mainPc' = "enqueue"
  /\ UNCHANGED <<running, listening, registryAlive, cur, poolVars, netVars>>

\* scheduler_.enqueue(handle_client(sock)); notify_one; back to while (running_).
Enqueue ==
  /\ mainPc = "enqueue"
  /\ tasks' = Append(tasks, cur)
  /\ mainPc' = IF running THEN "accept" ELSE "dtor"
  /\ cur' = None
  /\ UNCHANGED <<running, listening, registry, registryAlive, stopping, wpc,
                 wconn, wreq, netVars>>

\* run() has returned; ~Server: stop() returns at once (running_ is
\* false), client_mutex_ and client_sockets_ are destroyed, then
\* ~Scheduler sets stop_ and notifies every worker.
ServerDtor ==
  /\ mainPc = "dtor"
  /\ registryAlive' = FALSE
  /\ stopping' = TRUE
  /\ mainPc' = "join"
  /\ UNCHANGED <<running, listening, registry, cur, tasks, wpc, wconn, wreq, netVars>>

\* ~Scheduler joins every worker; main then returns.
Join ==
  /\ mainPc = "join" /\ \A w \in Workers : wpc[w] = "exited"
  /\ mainPc' = "exited"
  /\ UNCHANGED <<running, listening, registry, registryAlive, cur, poolVars, netVars>>

-----------------------------------------------------------------------------
(* A pool worker: the event loop of Scheduler::Scheduler running           *)
(* handle_client tasks.                                                    *)

\* condition_.wait(lock, stop_ || !tasks_.empty()) returns with a task:
\* take the front of the queue.
WorkerTake(w) ==
  /\ wpc[w] = "wait" /\ tasks # <<>>
  /\ wconn' = [wconn EXCEPT ![w] = Head(tasks)]
  /\ tasks' = Tail(tasks)
  /\ wpc' = [wpc EXCEPT ![w] = "loop"]
  /\ UNCHANGED <<srvVars, stopping, wreq, netVars>>

\* if (stop_ && tasks_.empty()) return;
WorkerExit(w) ==
  /\ wpc[w] = "wait" /\ stopping /\ tasks = <<>>
  /\ wpc' = [wpc EXCEPT ![w] = "exited"]
  /\ UNCHANGED <<srvVars, tasks, stopping, wconn, wreq, netVars>>

\* handle_client: while (running_) ... ; a false running_ ends the session.
SessionLoop(w) ==
  /\ wpc[w] = "loop"
  /\ wpc' = [wpc EXCEPT ![w] = IF running THEN "recv" ELSE "remove"]
  /\ UNCHANGED <<srvVars, tasks, stopping, wconn, wreq, netVars>>

\* recv(sock) blocks until a request arrives, the peer closes, or the
\* socket is shut down or closed.  A request is processed; anything else
\* (0 bytes, or an error) breaks the loop.
Recv(w) ==
  LET c == wconn[w] IN
  /\ wpc[w] = "recv"
  /\ \/ /\ sock[c] = "open" /\ inbox[c] # <<>>
        /\ wreq' = [wreq EXCEPT ![w] = Head(inbox[c])]
        /\ inbox' = [inbox EXCEPT ![c] = Tail(@)]
        /\ wpc' = [wpc EXCEPT ![w] = "send"]
     \/ /\ sock[c] # "open" \/ (peerClosed[c] /\ inbox[c] = <<>>)
        /\ wpc' = [wpc EXCEPT ![w] = "remove"]
        /\ UNCHANGED <<wreq, inbox>>
  /\ UNCHANGED <<srvVars, tasks, stopping, wconn, conn, sock, peerClosed,
                 sent, answered, closes>>

\* Handler::process, then send(); a goodbye response ends the session.
\* The response reaches the client only while the socket is open.
Respond(w) ==
  LET c == wconn[w]
      goodbye == wreq[w] = "exit" /\ c \in Admins
  IN
  /\ wpc[w] = "send"
  /\ answered' = IF sock[c] = "open" THEN [answered EXCEPT ![c] = @ + 1] ELSE answered
  /\ wpc' = [wpc EXCEPT ![w] = IF goodbye THEN "remove" ELSE "loop"]
  /\ wreq' = [wreq EXCEPT ![w] = None]
  /\ UNCHANGED <<srvVars, tasks, stopping, wconn, conn, sock, inbox, peerClosed,
                 sent, closes>>

RemoveClientNoCheck(w) ==
  LET c == wconn[w] IN
  /\ wpc[w] = "remove"
  /\ Close({c})
  /\ registry' = registry \ {c}
  /\ wpc' = [wpc EXCEPT ![w] = "wait"]
  /\ wconn' = [wconn EXCEPT ![w] = None]
  /\ UNCHANGED <<running, listening, registryAlive, mainPc, cur, tasks, stopping,
                 wreq, conn, inbox, peerClosed, sent, answered>>
\* remove_client(sock): close and erase only if still registered (stop()
\* may have closed it already); the task then returns to the event loop.
\* Once client_sockets_ is destroyed the lookup reads freed memory: it
\* may still see the stale contents, or garbage without the socket.
RemoveClient(w) ==
  LET c == wconn[w] IN
  /\ wpc[w] = "remove"
  /\ \E found \in IF registryAlive THEN {(c \in registry)} ELSE {FALSE, (c \in registry)} :
       IF found THEN Close({c}) /\ registry' = registry \ {c}
       ELSE UNCHANGED <<sock, closes, registry>>
  /\ wpc' = [wpc EXCEPT ![w] = "wait"]
  /\ wconn' = [wconn EXCEPT ![w] = None]
  /\ UNCHANGED <<running, listening, registryAlive, mainPc, cur, tasks, stopping,
                 wreq, conn, inbox, peerClosed, sent, answered>>

Worker(w) ==
  \/ WorkerTake(w) \/ WorkerExit(w) \/ SessionLoop(w)
  \/ Recv(w) \/ Respond(w) \/ RemoveClient(w)

Main ==
  \/ \E c \in Clients : Accept(c)
  \/ Boot \/ Prologue \/ AcceptFail \/ Check \/ AddClient \/ Enqueue \/ ServerDtor \/ Join

Client(c) ==
  \/ Connect(c) \/ Hangup(c)
  \/ \E r \in Requests : Send(c, r)

Next ==
  \/ Main
  \/ Signal
  \/ \E w \in Workers : Worker(w)
  \/ \E c \in Clients : Client(c)

\* Every thread of the process is scheduled by the OS: a runnable thread
\* eventually runs (weak fairness per thread).  Clients and the signal
\* are the environment and get no fairness.
Fairness ==
  /\ WF_vars(Main)
  /\ \A w \in Workers : WF_vars(Worker(w))

Spec == Init /\ [][Next]_vars /\ Fairness

-----------------------------------------------------------------------------
(* Properties.                                                             *)

\* The membership test of remove_client ("avoids double-close",
\* server.cpp:238): no socket is ever closed twice, whichever of stop()
\* from the signal handler, the accept loop's shutdown check and the
\* worker ending the session gets to it first.  A second close could hit
\* a descriptor number the kernel has already handed to someone else.
NoDoubleClose == \A c \in Clients : closes[c] <= 1

\* Shutdown completes (the comment of main.cpp:113 and Server::stop):
\* once run() is past its prologue and running_ is false (stop() has
\* run, or the prologue failed), run() returns, the pool drains and
\* every worker is joined, however many sessions were open, queued or
\* mid-request and whatever the clients do.  It needs stop() to wake
\* every worker that is blocked in recv().
ShutdownCompletes ==
  (~running /\ mainPc \notin {"boot", "prologue"}) ~> mainPc = "exited"

\* remove_client touches client_mutex_ and client_sockets_ only while
\* they exist.  ~Server destroys them before ~Scheduler joins the workers
\* (member order, server.hpp:103-112), and a session woken by stop() or
\* drained from the queue ends in remove_client.
RegistryAlive == \A w \in Workers : wpc[w] = "remove" => registryAlive

====
