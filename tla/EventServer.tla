---------------------------- MODULE EventServer ----------------------------
(***************************************************************************)
(* Interrupts of the AFU.  An application hands the simulator an eventfd   *)
(* for an interrupt vector over a Unix socket; the simulator keeps the     *)
(* descriptors in intr_event_fds and writes to them when the AFU raises    *)
(* the interrupt.                                                          *)
(*                                                                         *)
(* The socket server is a thread of the simulator.  ase_listener starts    *)
(* one at ASE_INIT and asks it to end, with sockserver_kill, at            *)
(* ASE_SIMKILL; nothing waits for it, so the server of one session may     *)
(* meet the server of the next.  Its path is named after the time stamp    *)
(* of the session, read when the thread gets to run.                       *)
(***************************************************************************)
EXTENDS Integers, Sequences

CONSTANTS
    NumVectors,   \* MAX_USR_INTRS
    Events,       \* eventfds of applications
    MaxSessions,  \* bound: sessions
    MaxCalls      \* bound: calls of register_event and unregister_event

Vectors  == 0 .. NumVectors - 1
Sessions == 1 .. MaxSessions
NoFd     == -1
NoServer == 0

VARIABLES
    session,          \* sessions so far: the time stamp
    up,               \* a session is on
    sockserver_kill,
    srv,              \* server of each session: pc, path, connection, polls
    queue,            \* connections waiting in accept, per server
    bound,            \* server whose socket has the name, per time stamp
    calls,            \* calls of the applications
    open,             \* events behind the descriptors the simulator received
    intr_event_fds,
    gone,             \* ghost: events whose unregistration has been received
    wrong             \* ghost: events signalled although they were gone

vars == <<session, up, sockserver_kill, srv, queue, bound, calls, open, intr_event_fds,
          gone, wrong>>
table == <<open, intr_event_fds, gone, wrong>>

NoConn == 0
IdleServer == [pc |-> "off", path |-> 0, conn |-> NoConn, fresh |-> TRUE]

-----------------------------------------------------------------------------
(* Sessions                                                                *)

\* ase_listener, ASE_INIT: new time stamp, answer, server thread.
AseInit ==
    /\ ~ up /\ session < MaxSessions
    /\ session' = session + 1 /\ up' = TRUE
    /\ srv' = [srv EXCEPT ![session + 1].pc = "start"]
    /\ UNCHANGED <<sockserver_kill, queue, bound, calls, table>>

\* ase_listener, ASE_SIMKILL, in a mode in which the simulator goes on.
SimKill ==
    /\ up /\ up' = FALSE /\ sockserver_kill' = TRUE
    /\ UNCHANGED <<session, srv, queue, bound, calls, table>>

-----------------------------------------------------------------------------
(* The application                                                         *)

\* register_event and unregister_event connect to the path of the session.
\* When nobody listens there the call fails.
Connect(kind, ev, vec) ==
    /\ up /\ Len(calls) < MaxCalls
    /\ LET s == bound[session]
           n == Len(calls) + 1
       IN  /\ calls' = Append(calls, [kind |-> kind, ev |-> ev, vec |-> vec,
                                      pc |-> IF s = NoServer THEN "failed" ELSE "connected"])
           /\ queue' = IF s = NoServer THEN queue ELSE [queue EXCEPT ![s] = Append(@, n)]
    /\ UNCHANGED <<session, up, sockserver_kill, srv, bound, table>>

\* A connection somebody still holds: in the queue or accepted.
Held(n) == \E s \in Sessions :
    \/ srv[s].conn = n
    \/ \E i \in 1 .. Len(queue[s]) : queue[s][i] = n

\* send_fd, close, return.
SendFd(n) ==
    /\ calls[n].pc = "connected"
    /\ calls' = [calls EXCEPT ![n].pc = IF Held(n) THEN "sent" ELSE "failed"]
    /\ UNCHANGED <<session, up, sockserver_kill, srv, queue, bound, table>>

-----------------------------------------------------------------------------
(* The server                                                              *)

\* start_socket_srv up to listen: it takes the name from whoever has it.
Listen(s) ==
    /\ srv[s].pc = "start"
    /\ srv' = [srv EXCEPT ![s].pc = "poll", ![s].path = session]
    /\ bound' = [bound EXCEPT ![session] = s]
    /\ UNCHANGED <<session, up, sockserver_kill, queue, calls, table>>

\* The seconds of the timeout are not initialized: the first select may fail.
SelectError(s) ==
    /\ srv[s].pc = "poll" /\ srv[s].fresh
    /\ srv' = [srv EXCEPT ![s].pc = "close"]
    /\ UNCHANGED <<session, up, sockserver_kill, queue, bound, calls, table>>

\* One turn of the loop that accepts nothing, or a connection.
Poll(s) ==
    /\ srv[s].pc = "poll" /\ queue[s] = <<>>
    /\ srv' = [srv EXCEPT ![s].pc = IF sockserver_kill THEN "close" ELSE @, ![s].fresh = FALSE]
    /\ UNCHANGED <<session, up, sockserver_kill, queue, bound, calls, table>>

Accept(s) ==
    /\ srv[s].pc = "poll" /\ queue[s] # <<>>
    /\ srv' = [srv EXCEPT ![s].pc = "recv", ![s].conn = Head(queue[s]), ![s].fresh = FALSE]
    /\ queue' = [queue EXCEPT ![s] = Tail(@)]
    /\ UNCHANGED <<session, up, sockserver_kill, bound, calls, table>>

\* read_fd on REGISTER_EVENT and UNREGISTER_EVENT.  A received descriptor gets
\* a number of its own; the simulator never closes it.  The search compares
\* intr_event_fds[vector_id], and vector_id is 0.
Registered(fd, r) == [intr_event_fds EXCEPT ![r.vec] = fd]

Unregistered(fd) ==
    IF intr_event_fds[0] = fd THEN [intr_event_fds EXCEPT ![0] = NoFd] ELSE intr_event_fds

ReadFd(s) ==
    LET r  == calls[srv[s].conn]
        fd == Len(open) + 1
    IN  /\ srv[s].pc = "recv" /\ r.pc = "sent"
        /\ open' = Append(open, r.ev)
        /\ intr_event_fds' = IF r.kind = "register" THEN Registered(fd, r) ELSE Unregistered(fd)
        /\ gone' = IF r.kind = "register" THEN gone \ {r.ev} ELSE gone \cup {r.ev}
        /\ srv' = [srv EXCEPT ![s].pc = IF sockserver_kill THEN "close" ELSE "poll",
                              ![s].conn = NoConn]
        /\ UNCHANGED <<session, up, sockserver_kill, queue, bound, calls, wrong>>

\* The sockets are closed and the name is removed, whoever has it now.
Close(s) ==
    /\ srv[s].pc = "close"
    /\ srv' = [srv EXCEPT ![s].pc = "reset", ![s].conn = NoConn]
    /\ queue' = [queue EXCEPT ![s] = <<>>]
    /\ bound' = [bound EXCEPT ![srv[s].path] = NoServer]
    /\ UNCHANGED <<session, up, sockserver_kill, calls, table>>

\* The last one to end clears the request to end, for every server.
Reset(s) ==
    /\ srv[s].pc = "reset"
    /\ srv' = [srv EXCEPT ![s].pc = "ended"]
    /\ sockserver_kill' = FALSE
    /\ UNCHANGED <<session, up, queue, bound, calls, table>>

\* ase_interrupt_generator: without an event only a message is printed.
Interrupt(v) ==
    /\ up /\ intr_event_fds[v] # NoFd
    /\ wrong' = wrong \cup ({open[intr_event_fds[v]]} \cap gone)
    /\ UNCHANGED <<session, up, sockserver_kill, srv, queue, bound, calls, open,
                   intr_event_fds, gone>>

-----------------------------------------------------------------------------
Init ==
    /\ session = 0 /\ up = FALSE /\ sockserver_kill = FALSE
    /\ srv = [s \in Sessions |-> IdleServer]
    /\ queue = [s \in Sessions |-> <<>>]
    /\ bound = [s \in Sessions |-> NoServer]
    /\ calls = <<>> /\ open = <<>>
    /\ intr_event_fds = [v \in Vectors |-> NoFd]
    /\ gone = {} /\ wrong = {}

Server(s) == Listen(s) \/ SelectError(s) \/ Poll(s) \/ Accept(s) \/ ReadFd(s)
             \/ Close(s) \/ Reset(s)

\* An unregistration names no vector.
Next ==
    \/ AseInit \/ SimKill
    \/ \E ev \in Events : \/ \E v \in Vectors : Connect("register", ev, v)
                          \/ Connect("unregister", ev, 0)
    \/ \E n \in 1 .. Len(calls) : SendFd(n)
    \/ \E s \in Sessions : Server(s)
    \/ \E v \in Vectors : Interrupt(v)

Spec == Init /\ [][Next]_vars

-----------------------------------------------------------------------------
(* Properties                                                              *)

\* An event whose unregistration the server has received is not signalled any
\* more: read_fd promises to "locate the interrupt vector to unregister from
\* the event handle".
UnregisteredSilent == wrong = {}

=============================================================================
