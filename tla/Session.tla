------------------------------- MODULE Session -------------------------------
(***************************************************************************)
(* Sessions of application processes with one simulator.                   *)
(*                                                                         *)
(* An application takes the lock file, resets the AFU, asks for a session  *)
(* and shares its MMIO and UMAS regions; at its end it gives the regions   *)
(* back and sends SIMKILL (app_backend.c).  The simulator answers from     *)
(* ase_listener, the reset state machine from the clock; what SIMKILL does *)
(* depends on ASE_MODE (protocol_backend.c).  The pipes outlive the        *)
(* applications: what is left in them meets the next one.                  *)
(*                                                                         *)
(* Applications may be interrupted (CTRL-C, handled by send_simkill) and   *)
(* killed.  MMIO, DMA and pinned memory are in the other modules; the      *)
(* socket server for interrupts is not modelled.                           *)
(***************************************************************************)
EXTENDS Naturals, FiniteSets, SequencesExt

CONSTANTS Procs,      \* application processes (a killed one may be started again)
          Modes,      \* values of ASE_MODE in ase.cfg
          NumTests,   \* ASE_NUM_TESTS
          MaxOpens,   \* bound on sessions
          MaxFaults,  \* bound on interrupted and killed applications
          SignalAt,   \* where CTRL-C may meet an application
          Kills       \* applications may be killed

ASSUME SessionAssumption ==
    /\ "none" \notin Procs /\ "stale" \notin Procs
    /\ Modes \subseteq {"no_simkill", "simkill", "sw_simkill", "regression"}
    /\ NumTests \in Nat \ {0} /\ MaxOpens \in Nat /\ MaxFaults \in Nat
    /\ SignalAt \subseteq {"init", "up", "deinit"}
    /\ Kills \in BOOLEAN

VARIABLES
    \* applications
    lock,          \* .app_lock.pid: a running process, "stale" or "none"
    app,           \* per process: where it is, the calls left and its memory
    \* pipes
    q,             \* the six pipes of the session protocol
    \* simulator
    sim,           \* "up", "exit" (torn down) or "segv"
    ase_mode,      \* from ase.cfg
    head,          \* the list of shared buffers
    csr_umsg_base, \* the MMIO region csr_umsg_base_address points into
    session_empty, glbl_test_cmplt_cnt,
    tstamp,        \* the session id in .ase_timestamp
    app_reset_trig, app_reset_trig_q, rst_state, rst_by,
    \* history
    opens, faults,
    disturbed,     \* an application ended where the simulator cannot notice, or raced
    raced          \* an application looked for the lock file while another one had
                   \* looked and not yet created it

appVars == <<lock, app>>
rstVars == <<app_reset_trig, app_reset_trig_q, rst_state, rst_by>>
simVars == <<sim, ase_mode, head, csr_umsg_base, session_empty,
             glbl_test_cmplt_cnt, tstamp>>
vars == <<appVars, q, simVars, rstVars, opens, faults, disturbed, raced>>

Kinds == {"mmio", "umas"}
NoBuf == [kind |-> "none", index |-> 0, ts |-> 0]
Buffers == [kind : Kinds, index : Nat, ts : Nat]

\* The calls of session_init and session_deinit that wait for the simulator.
InitScript == <<"reset_high", "reset_low", "ase_init", "mmio", "umas", "umsg_mode">>
DeinitScript == <<"umas", "mmio", "simkill">>
Ops == Range(InitScript) \cup Range(DeinitScript)

Pipes == {"portctrl", "alloc", "dealloc"}
PipeOf(pc, op) == IF op \notin Kinds THEN "portctrl"
                  ELSE IF pc = "init" THEN "alloc" ELSE "dealloc"

NewProcess == [pc |-> "idle", todo |-> <<>>, wait |-> FALSE, index |-> 0, ts |-> 0,
               buf |-> [k \in Kinds |-> NoBuf]]

\* Processes that hold the queues open.
Open == {p \in Procs : app[p].pc \in {"init", "up", "deinit", "signal"}}

-----------------------------------------------------------------------------
(* The pipes.  A message names its sender so that answers can be compared. *)

Push(r, pipe, m) == [r EXCEPT ![pipe] = Append(@, m)]
Pop(r, pipe)     == [r EXCEPT ![pipe] = Tail(@)]

\* mqueue_send of the simulator.  With no reader the write fails, and the
\* error path tears the simulator down.
Sent(req, pipe, m) ==
    [req |-> req, rsp |-> IF Open # {} THEN Push(q.rsp, pipe, m) ELSE q.rsp]
SimSend(req, pipe, m) ==
    /\ q' = Sent(req, pipe, m)
    /\ sim' = IF Open # {} THEN sim ELSE "exit"

-----------------------------------------------------------------------------
(* Applications                                                            *)

Init ==
    /\ lock = "none"
    /\ app = [p \in Procs |-> NewProcess]
    /\ q = [req |-> [i \in Pipes |-> <<>>], rsp |-> [i \in Pipes |-> <<>>]]
    /\ sim = "up" /\ ase_mode \in Modes
    /\ head = <<>> /\ csr_umsg_base = NoBuf
    /\ session_empty = FALSE /\ glbl_test_cmplt_cnt = 0 /\ tstamp = 0
    /\ app_reset_trig = 0 /\ app_reset_trig_q = 0 /\ rst_state = "idle"
    /\ rst_by = "none"
    /\ opens = 0 /\ faults = 0 /\ disturbed = FALSE /\ raced = FALSE

\* What a process that exits without session_deinit leaves of the lock file.
LockLeft(p) == IF lock = p THEN "stale" ELSE lock

\* Another application is between its check and its creation of the lock file.
Racing == \E r \in Procs : app[r].pc = "checked"

\* Mutant: the process in the lock file is not looked for.
CheckLock_any(p) ==
    /\ app[p].pc = "idle" /\ opens < MaxOpens
    /\ lock' = "none"
    /\ app' = [app EXCEPT ![p].pc = "checked"]
    /\ opens' = opens + 1
    /\ disturbed' = (disturbed \/ Racing) /\ raced' = (raced \/ Racing)
    /\ UNCHANGED <<q, simVars, rstVars, faults>>

\* check_app_lock_file, remove_existing_lock_file: an application whose lock
\* names a running process exits, a stale lock is deleted.  The creation is a
\* later step, and nothing in the code keeps two applications apart in between.
CheckLock(p) ==
    /\ app[p].pc = "idle" /\ opens < MaxOpens
    /\ lock \in {"none", "stale"}
    /\ lock' = "none"
    /\ app' = [app EXCEPT ![p].pc = "checked"]
    /\ opens' = opens + 1
    /\ disturbed' = (disturbed \/ Racing) /\ raced' = (raced \/ Racing)
    /\ UNCHANGED <<q, simVars, rstVars, faults>>

\* create_new_lock_file: the process writes its pid.
create_new_lock_file(p) == lock' = p

\* session_init: the lock file, signal handlers, mqueue_open of the 16 pipes, which
\* the simulator removes when it ends: then the application exits.
CreateLock(p) ==
    /\ app[p].pc = "checked"
    /\ IF sim = "up"
       THEN /\ create_new_lock_file(p)
            /\ app' = [app EXCEPT ![p].pc = "init", ![p].todo = InitScript]
       ELSE /\ lock' = "stale"
            /\ app' = [app EXCEPT ![p] = NewProcess]
    /\ UNCHANGED <<q, simVars, rstVars, opens, faults, disturbed, raced>>

\* free_buffers, before SIMKILL is sent.
FreeBuffers(r) == [r EXCEPT !.index = 0, !.buf = [k \in Kinds |-> NoBuf]]

\* allocate_buffer: name and number the region before it is sent.
NewBuffer(r, kind) == [kind |-> kind, index |-> r.index, ts |-> r.ts]

\* mqueue_send of ase_portctrl, allocate_buffer and deallocate_buffer.
Request(p) ==
    LET r    == app[p]
        op   == Head(r.todo)
        pipe == PipeOf(r.pc, op)
        r1   == IF pipe = "alloc"
                THEN [r EXCEPT !.buf[op] = NewBuffer(r, op), !.index = @ + 1]
                ELSE IF op = "simkill" /\ r.pc = "deinit" THEN FreeBuffers(r) ELSE r
        m    == [op |-> op, by |-> p,
                 buf |-> IF op \in Kinds THEN r1.buf[op] ELSE NoBuf]
    IN /\ r.todo # <<>> /\ ~r.wait
       /\ IF sim = "up"
          THEN /\ app' = [app EXCEPT ![p] = [r1 EXCEPT !.wait = TRUE]]
               /\ q' = [q EXCEPT !.req = Push(q.req, pipe, m)]
               /\ lock' = lock
          ELSE \* nobody reads the pipe: the write fails and the application exits
               /\ app' = [app EXCEPT ![p] = NewProcess]
               /\ lock' = LockLeft(p)
               /\ q' = q
       /\ UNCHANGED <<simVars, rstVars, opens, faults, disturbed, raced>>

\* What follows a call: the next one, the running application, or the end,
\* where close_mq has run and the lock file is removed.
Continue(r) ==
    IF Len(r.todo) > 1
    THEN [r EXCEPT !.todo = Tail(@), !.wait = FALSE]
    ELSE IF r.pc = "init"
         THEN [r EXCEPT !.pc = "up", !.todo = <<>>, !.wait = FALSE]
         ELSE IF r.pc = "deinit"
              THEN [r EXCEPT !.pc = "idle", !.todo = <<>>, !.wait = FALSE]
              ELSE NewProcess

\* The blocking mqueue_recv of ase_portctrl, allocate_buffer and
\* deallocate_buffer, and what they do with the answer: ASE_INIT is followed by
\* get_timestamp, buffers are overwritten with the message.
Response(p) ==
    LET r    == app[p]
        op   == Head(r.todo)
        pipe == PipeOf(r.pc, op)
        m    == Head(q.rsp[pipe])
        r1   == CASE op \in Kinds    -> [r EXCEPT !.buf[op] = m.buf]
                  [] op = "ase_init" -> [r EXCEPT !.ts = tstamp]
                  [] OTHER           -> r
    IN /\ r.wait /\ q.rsp[pipe] # <<>>
       /\ q' = [q EXCEPT !.rsp = Pop(q.rsp, pipe)]
       /\ app' = [app EXCEPT ![p] = Continue(r1)]
       /\ lock' = IF app'[p].pc = "idle" THEN "none" ELSE lock
       /\ UNCHANGED <<simVars, rstVars, opens, faults, disturbed, raced>>

\* The simulator has closed its ends: mqueue_recv returns without a message.
\* ase_portctrl and deallocate_buffer go on, allocate_buffer asks again for ever.
ResponseEof(p) ==
    LET r    == app[p]
        pipe == PipeOf(r.pc, Head(r.todo))
    IN /\ r.wait /\ sim # "up"
       /\ q.rsp[pipe] = <<>> /\ pipe # "alloc"
       /\ app' = [app EXCEPT ![p] = Continue(r)]
       /\ lock' = IF app'[p].pc = "idle" THEN "none" ELSE lock
       /\ UNCHANGED <<q, simVars, rstVars, opens, faults, disturbed, raced>>

\* The last fpgaClose: session_deinit of an established session.
Close(p) ==
    /\ app[p].pc = "up"
    /\ app' = [app EXCEPT ![p].pc = "deinit", ![p].todo = DeinitScript]
    /\ UNCHANGED <<lock, q, simVars, rstVars, opens, faults, disturbed, raced>>

\* CTRL-C: send_simkill interrupts whatever runs, sends SIMKILL and leaves
\* without giving the regions back.
Signal(p) ==
    /\ app[p].pc \in SignalAt /\ faults < MaxFaults
    /\ faults' = faults + 1
    /\ app' = [app EXCEPT ![p].pc = "signal", ![p].todo = <<"simkill">>,
                          ![p].wait = FALSE]
    /\ disturbed' = (disturbed \/ app[p].pc # "up" \/ ase_mode # "no_simkill")
    /\ UNCHANGED <<lock, q, simVars, rstVars, opens, raced>>

\* SIGKILL, or a crash of the application.
Kill(p) ==
    /\ Kills /\ app[p].pc # "idle" /\ faults < MaxFaults
    /\ faults' = faults + 1
    /\ app' = [app EXCEPT ![p] = NewProcess]
    /\ lock' = LockLeft(p)
    /\ disturbed' = TRUE
    /\ UNCHANGED <<q, simVars, rstVars, opens, raced>>

-----------------------------------------------------------------------------
(* Simulator                                                               *)

\* Mutants: the index is not compared; the list is left after its first buffer.
ll_search_buffer_first(index) == IF head = <<>> THEN 0 ELSE 1
ase_shmem_destroy_first == IF head = <<>> THEN <<>> ELSE Tail(head)

\* ll_search_buffer: the first buffer with this index, 0 if there is none.
ll_search_buffer(index) == SelectInSeq(head, LAMBDA b : b.index = index)

\* ll_append_buffer, ll_remove_buffer.
ll_append_buffer(b) == Append(head, b)
ll_remove_buffer(i) == RemoveAt(head, i)

\* ase_shmem_destroy: every buffer of the list is unmapped and unlinked.
ase_shmem_destroy == <<>>

\* ase_reset_trig holds the listener for 200 clocks of ase_reset, in which the
\* reset state machine goes back to idle and sees no edge.
SystemReset ==
    /\ rst_state' = "idle" /\ app_reset_trig_q' = app_reset_trig
    /\ UNCHANGED <<app_reset_trig, rst_by>>

\* ase_shmem_perror_teardown: the pipes are closed before the answer is sent;
\* only in regression mode start_simkill_countdown sends one itself.
Teardown(req, m) ==
    /\ head' = ase_shmem_destroy /\ sim' = "exit"
    /\ q' = IF ase_mode = "regression" /\ Open # {}
            THEN [req |-> req, rsp |-> Push(q.rsp, "portctrl", m)]
            ELSE [q EXCEPT !.req = req]
    /\ UNCHANGED <<session_empty, rstVars>>

\* Mutant: one test too early.
KillsSimulator_early ==
    \/ ase_mode = "sw_simkill"
    \/ ase_mode = "regression" /\ glbl_test_cmplt_cnt + 2 = NumTests

\* Modes 3 and 4: this SIMKILL ends the simulation.
KillsSimulator ==
    \/ ase_mode = "sw_simkill"
    \/ ase_mode = "regression" /\ glbl_test_cmplt_cnt + 1 = NumTests

\* ASE_SIMKILL, by mode.  (The session id it frees is not modelled.)
SimKill(req, m) ==
    /\ glbl_test_cmplt_cnt' = glbl_test_cmplt_cnt + 1
    /\ \/ /\ ase_mode = "no_simkill" /\ ~session_empty
          /\ SystemReset
          /\ head' = ase_shmem_destroy /\ session_empty' = TRUE
          /\ SimSend(req, "portctrl", m)
       \/ KillsSimulator /\ Teardown(req, m)
       \/ /\ ase_mode = "regression" /\ ~KillsSimulator
          /\ SystemReset
          /\ UNCHANGED <<head, session_empty>>
          /\ SimSend(req, "portctrl", m)
       \/ /\ ase_mode = "simkill" \/ (ase_mode = "no_simkill" /\ session_empty)
          /\ UNCHANGED <<head, session_empty, rstVars>>
          /\ SimSend(req, "portctrl", m)

\* put_timestamp: a new session id, the cycle counter of the processor.
put_timestamp == tstamp + 1

\* The port control part of ase_listener.  A reset is answered by the reset
\* state machine, everything else here.
ListenPortctrl ==
    LET m   == Head(q.req["portctrl"])
        req == Pop(q.req, "portctrl")
    IN /\ sim = "up" /\ q.req["portctrl"] # <<>>
       /\ \/ /\ m.op \in {"reset_high", "reset_low"}
             /\ app_reset_trig' = IF m.op = "reset_high" THEN 1 ELSE 0
             /\ rst_by' = m.by
             /\ q' = [q EXCEPT !.req = req]
             /\ UNCHANGED <<simVars, app_reset_trig_q, rst_state>>
          \/ /\ m.op = "umsg_mode"
             /\ SimSend(req, "portctrl", m)
             /\ UNCHANGED <<ase_mode, head, csr_umsg_base, session_empty,
                            glbl_test_cmplt_cnt, tstamp, rstVars>>
          \/ /\ m.op = "ase_init"
             /\ tstamp' = put_timestamp /\ session_empty' = FALSE
             /\ SimSend(req, "portctrl", m)
             /\ UNCHANGED <<ase_mode, head, csr_umsg_base, glbl_test_cmplt_cnt, rstVars>>
          \/ /\ m.op = "simkill"
             /\ SimKill(req, m)
             /\ UNCHANGED <<ase_mode, csr_umsg_base, tstamp>>
       /\ UNCHANGED <<appVars, opens, faults, disturbed, raced>>

\* update_fme_dfh announces a UMAS region in the MMIO region, through
\* csr_umsg_base_address, which must still be mapped.
update_fme_dfh_faults(m) == m.op = "umas" /\ csr_umsg_base \notin Range(head)

\* ase_shmem_alloc_action: the region is mapped, entered in the list, answered.
ase_shmem_alloc_action(req, m) ==
    /\ head' = ll_append_buffer(m.buf)
    /\ q' = Sent(req, "alloc", m)

\* The allocation part of ase_listener, where the registers follow the answer.
\* Index 0 is the MMIO region.
ListenAlloc ==
    LET m      == Head(q.req["alloc"])
        isMmio == m.buf.index = 0
    IN /\ sim = "up" /\ q.req["alloc"] # <<>>
       /\ ase_shmem_alloc_action(Pop(q.req, "alloc"), m)
       /\ csr_umsg_base' = IF isMmio THEN m.buf ELSE csr_umsg_base
       /\ sim' = CASE Open = {}                                  -> "exit"
                   [] Open # {} /\ ~isMmio /\ update_fme_dfh_faults(m) -> "segv"
                   [] OTHER                                      -> "up"
       /\ UNCHANGED <<ase_mode, session_empty, glbl_test_cmplt_cnt, tstamp,
                      appVars, rstVars, opens, faults, disturbed, raced>>

\* ase_shmem_dealloc_action: the buffer found by index is removed and sent
\* back; an unknown index gets no answer.
ase_shmem_dealloc_action(req, m) ==
    LET i == ll_search_buffer(m.buf.index) IN
    \/ /\ i = 0
       /\ q' = [q EXCEPT !.req = req]
       /\ UNCHANGED <<sim, head>>
    \/ /\ i # 0
       /\ head' = ll_remove_buffer(i)
       /\ SimSend(req, "dealloc", [m EXCEPT !.buf = head[i]])

\* The deallocation part of ase_listener.
ListenDealloc ==
    /\ sim = "up" /\ q.req["dealloc"] # <<>>
    /\ ase_shmem_dealloc_action(Pop(q.req, "dealloc"), Head(q.req["dealloc"]))
    /\ UNCHANGED <<ase_mode, csr_umsg_base, session_empty, glbl_test_cmplt_cnt,
                   tstamp, appVars, rstVars, opens, faults, disturbed, raced>>

\* Mutant: only the rising edge counts.
ResetEdge_rising ==
    /\ sim = "up" /\ app_reset_trig = 1 /\ app_reset_trig_q = 0
    /\ app_reset_trig_q' = app_reset_trig
    /\ rst_state' = "busy"
    /\ UNCHANGED <<app_reset_trig, rst_by, appVars, q, simVars, opens, faults, disturbed, raced>>

\* ase_reset_fsm, a clock that sees an edge of app_reset_trig.
ResetEdge ==
    /\ sim = "up" /\ app_reset_trig # app_reset_trig_q
    /\ app_reset_trig_q' = app_reset_trig
    /\ rst_state' = "busy"
    /\ UNCHANGED <<app_reset_trig, rst_by, appVars, q, simVars, opens, faults, disturbed, raced>>

\* ase_reset_fsm, the end of ResetWait: sw_reset_response.
ResetDone ==
    /\ sim = "up" /\ rst_state = "busy"
    /\ rst_state' = "idle" /\ app_reset_trig_q' = app_reset_trig
    /\ SimSend(q.req, "portctrl",
               [op |-> IF app_reset_trig = 1 THEN "reset_high" ELSE "reset_low",
                by |-> rst_by, buf |-> NoBuf])
    /\ UNCHANGED <<app_reset_trig, rst_by, appVars, ase_mode, head, csr_umsg_base,
                   session_empty, glbl_test_cmplt_cnt, tstamp, opens, faults, disturbed, raced>>

\* call_simkill_countdown: mode 2 ends when the AFU has been idle for long.
InactivityTimeout ==
    /\ sim = "up" /\ ase_mode = "simkill" /\ tstamp > 0
    /\ sim' = "exit"
    /\ UNCHANGED <<ase_mode, head, csr_umsg_base, session_empty, glbl_test_cmplt_cnt,
                   tstamp, appVars, q, rstVars, opens, faults, disturbed, raced>>

-----------------------------------------------------------------------------
Application(p) == Request(p) \/ Response(p) \/ ResponseEof(p) \/ CreateLock(p)
User(p) == CheckLock(p) \/ Close(p) \/ Signal(p) \/ Kill(p)
Listener == ListenPortctrl \/ ListenAlloc \/ ListenDealloc
ResetFsm == ResetEdge \/ ResetDone

Next == \/ \E p \in Procs : Application(p) \/ User(p)
        \/ Listener \/ ResetFsm \/ InactivityTimeout

Spec == Init /\ [][Next]_vars

\* Running threads go on, and the simulator's clock, which calls the listener.
FairSpec == /\ Spec
            /\ \A p \in Procs : WF_vars(Application(p))
            /\ WF_vars(ListenPortctrl) /\ WF_vars(ListenAlloc) /\ WF_vars(ListenDealloc)
            /\ WF_vars(ResetFsm)

-----------------------------------------------------------------------------
(* Properties                                                              *)

\* Types.
Messages == [op : Ops, by : Procs, buf : Buffers \cup {NoBuf}]
TypeOK ==
    /\ lock \in Procs \cup {"none", "stale"}
    /\ app \in [Procs ->
          [pc : {"idle", "checked", "init", "up", "deinit", "signal"}, todo : Seq(Ops),
           wait : BOOLEAN, index : Nat, ts : 0 .. MaxOpens,
           buf : [Kinds -> Buffers \cup {NoBuf}]]]
    /\ q \in [req : [Pipes -> Seq(Messages)], rsp : [Pipes -> Seq(Messages)]]
    /\ sim \in {"up", "exit", "segv"} /\ ase_mode \in Modes
    /\ head \in Seq(Buffers) /\ csr_umsg_base \in Buffers \cup {NoBuf}
    /\ session_empty \in BOOLEAN /\ glbl_test_cmplt_cnt \in Nat /\ tstamp \in Nat
    /\ app_reset_trig \in {0, 1} /\ app_reset_trig_q \in {0, 1}
    /\ rst_state \in {"idle", "busy"} /\ rst_by \in Procs \cup {"none"}
    /\ opens \in 0 .. MaxOpens /\ faults \in 0 .. MaxFaults
    /\ disturbed \in BOOLEAN /\ raced \in BOOLEAN

\* Only one application at a time uses the pipes: while it runs the lock file
\* names it and a second one is refused (session_init,
\* remove_existing_lock_file).
OneSession == /\ Cardinality(Open) <= 1
              /\ \A p \in Open : lock = p

\* The window between the check and the creation of the lock file is the only
\* way to a second application: however applications end, and whatever lock
\* file they leave, the lock of a running process is never taken for a stale
\* one nor removed by another process.
ExclusiveUnlessRaced == raced \/ OneSession

\* The simulator ends only as ase.cfg says for its mode: never in mode 1, by an
\* application in mode 3, after ASE_NUM_TESTS in mode 4.  It never faults in
\* update_fme_dfh, which writes into the MMIO region of the session: the region
\* has index 0 and is mapped, also in the second session of a process.
EndsAsConfigured ==
    ~disturbed =>
        \/ sim = "up"
        \/ /\ sim = "exit"
           /\ \/ ase_mode = "simkill"
              \/ ase_mode = "sw_simkill" /\ glbl_test_cmplt_cnt > 0
              \/ ase_mode = "regression" /\ glbl_test_cmplt_cnt = NumTests

\* A deallocation invalidates the buffer it names, and deallocate_buffer
\* unmaps the caller's own region (listener, ase_shmem_dealloc_action).
DeallocatesOwn ==
    \A i \in DOMAIN q.rsp["dealloc"] :
        LET m == q.rsp["dealloc"][i] IN
        /\ m.buf = app[m.by].buf[m.op]
        /\ app[m.by].buf[m.op] \notin Range(head)

\* The answers in a pipe are for the call that waits for them: every
\* mqueue_recv of session_init and session_deinit reads the answer of its own
\* request, across sessions, and a deallocation gives back the caller's region.
AnswersMatch ==
    ~disturbed =>
        /\ DeallocatesOwn
        /\ \A pipe \in Pipes : \A i \in DOMAIN q.rsp[pipe] :
               LET m == q.rsp[pipe][i] IN
               /\ i = 1
               /\ app[m.by].wait /\ Head(app[m.by].todo) = m.op
               /\ PipeOf(app[m.by].pc, m.op) = pipe

\* Until an application is killed or interrupted where the simulator cannot
\* notice, or two start at once, nothing is left between two sessions: no
\* buffer, no message in a pipe and no reset in progress.  (After CTRL-C modes 2
\* and 4 keep the regions.)
CleanBetweenSessions ==
    ~disturbed /\ sim = "up" /\ lock = "none" =>
        /\ head = <<>> /\ rst_state = "idle" /\ app_reset_trig = 0
        /\ \A pipe \in Pipes : q.req[pipe] = <<>> /\ q.rsp[pipe] = <<>>

\* An application that has taken the lock gets its session, and one that closes
\* or is interrupted comes to its end, unless the simulator goes away.
SessionProgress ==
    \A p \in Procs :
        (app[p].pc \in {"init", "deinit", "signal"} /\ ~disturbed)
            ~> (app[p].pc \in {"up", "idle"} \/ disturbed \/ sim # "up")
=============================================================================
