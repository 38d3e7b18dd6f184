---------------------------- MODULE SessionProofs ----------------------------
(***************************************************************************)
(* The lock file, for any number of processes, sessions and faults and in  *)
(* every mode: two applications use the pipes together only after both     *)
(* were between the check and the creation of the lock file at once.       *)
(*                                                                         *)
(* ExclusiveUnlessRaced is not inductive: an application that has checked  *)
(* the lock file and not yet created it will take the lock, so nobody may  *)
(* have the pipes open then unless there was a race, and a process that    *)
(* waits for an answer, and may exit with the lock, must be one that has   *)
(* them open.                                                              *)
(***************************************************************************)
EXTENDS Session, FiniteSetTheorems, TLAPS

\* The states in which a process has the pipes open.
OpenPcs == {"init", "up", "deinit", "signal"}

\* app is a function to records with these fields, whatever their values.
Shape == app = [p \in Procs |->
    [pc |-> app[p].pc, todo |-> app[p].todo, wait |-> app[p].wait,
     index |-> app[p].index, ts |-> app[p].ts, buf |-> app[p].buf]]

\* A process with the pipes open has the lock.
HoldsLock == \A p \in Procs : app[p].pc \in OpenPcs => lock = p

\* Only a process with the pipes open has a call left or waits for an answer.
CallsWhenOpen == \A p \in Procs :
    app[p].todo # <<>> \/ app[p].wait = TRUE => app[p].pc \in OpenPcs

\* Between the check of the lock file and its creation a process is alone.
CheckedAlone == \A p \in Procs : app[p].pc = "checked" =>
    \A r \in Procs : r # p => app[r].pc \notin OpenPcs \cup {"checked"}

LockInv == Shape /\ HoldsLock /\ CallsWhenOpen /\ CheckedAlone

-----------------------------------------------------------------------------
\* A record with the fields of a process.
Process(r) == r = [pc |-> r.pc, todo |-> r.todo, wait |-> r.wait,
                   index |-> r.index, ts |-> r.ts, buf |-> r.buf]

\* The invariant holds before anything is started.
LEMMA InitLock == Init => LockInv
  BY DEF Init, LockInv, Shape, HoldsLock, CallsWhenOpen, CheckedAlone,
         NewProcess, OpenPcs

\* A step of a process that has the pipes open keeps the invariant: the others
\* have neither checked the lock nor opened the pipes.
LEMMA OpenStep ==
  ASSUME LockInv, NEW p \in Procs, app[p].pc \in OpenPcs,
         NEW r, Process(r), app' = [app EXCEPT ![p] = r],
         r.todo # <<>> \/ r.wait = TRUE => r.pc \in OpenPcs,
         r.pc # "checked",
         r.pc \in OpenPcs => lock' = lock
  PROVE  LockInv'
<1>1. /\ app'[p] = r
      /\ \A u \in Procs : u # p => app'[u] = app[u]
  BY DEF LockInv, Shape
<1>2. \A u \in Procs : u # p => app[u].pc \notin OpenPcs \cup {"checked"}
  BY DEF LockInv, HoldsLock, CheckedAlone, OpenPcs
<1>3. Shape'
  BY <1>1 DEF LockInv, Shape, Process
<1>4. HoldsLock'
  BY <1>1, <1>2 DEF LockInv, HoldsLock
<1>5. CallsWhenOpen'
  BY <1>1 DEF LockInv, CallsWhenOpen
<1>6. CheckedAlone'
  BY <1>1, <1>2 DEF LockInv, CheckedAlone
<1> QED
  BY <1>3, <1>4, <1>5, <1>6 DEF LockInv

\* What a process has is a record with its fields, and so is what Continue and
\* the updates of one field make of it.
LEMMA ProcessOf ==
  ASSUME LockInv, NEW p \in Procs
  PROVE  Process(app[p])
  BY DEF LockInv, Shape, Process

\* A process that is started again has nothing left to do.
LEMMA NewProcessFacts ==
  /\ Process(NewProcess)
  /\ NewProcess.pc = "idle" /\ NewProcess.todo = <<>> /\ NewProcess.wait = FALSE
  BY DEF Process, NewProcess

\* Changing whether a process waits leaves where it is.
LEMMA WaitFacts ==
  ASSUME NEW r, Process(r), NEW w
  PROVE  /\ Process([r EXCEPT !.wait = w])
         /\ [r EXCEPT !.wait = w].pc = r.pc
  BY DEF Process

\* Giving a process new calls.
LEMMA CallFacts ==
  ASSUME NEW r, Process(r), NEW x, NEW t
  PROVE  /\ Process([r EXCEPT !.pc = x, !.todo = t])
         /\ [r EXCEPT !.pc = x, !.todo = t].pc = x
<1> DEFINE r0 == [r EXCEPT !.pc = x]
<1>1. Process(r0) /\ r0.pc = x
  BY DEF Process
<1> HIDE DEF r0
<1>2. Process([r0 EXCEPT !.todo = t]) /\ [r0 EXCEPT !.todo = t].pc = x
  BY <1>1 DEF Process
<1> QED
  BY <1>2 DEF r0

\* After an answer a process is open, or idle with nothing left to do.
LEMMA ContinueFacts ==
  ASSUME NEW r, Process(r), r.pc \in OpenPcs
  PROVE  /\ Process(Continue(r))
         /\ Continue(r).pc \in OpenPcs \cup {"idle"}
         /\ Continue(r).pc = "idle" => Continue(r).todo = <<>>
         /\ Continue(r).wait = FALSE
<1>1. CASE Len(r.todo) > 1
  BY <1>1 DEF Process, Continue, OpenPcs
<1>2. CASE ~(Len(r.todo) > 1) /\ r.pc = "init"
  BY <1>2 DEF Process, Continue, OpenPcs
<1>3. CASE ~(Len(r.todo) > 1) /\ r.pc = "deinit"
  BY <1>3 DEF Process, Continue, OpenPcs
<1>4. CASE ~(Len(r.todo) > 1) /\ r.pc # "init" /\ r.pc # "deinit"
  BY <1>4, NewProcessFacts DEF Continue
<1> QED
  BY <1>1, <1>2, <1>3, <1>4

-----------------------------------------------------------------------------
(* Actions that change app or lock.                                        *)

\* check_app_lock_file: the lock is free or stale, so nobody has the pipes open;
\* without a race nobody else has checked it.
LEMMA CheckLockStep ==
  ASSUME LockInv, NEW p \in Procs, CheckLock(p), ~raced'
  PROVE  LockInv'
<1>1. /\ app[p].pc = "idle" /\ lock \in {"none", "stale"}
      /\ \A r \in Procs : app[r].pc # "checked"
      /\ app' = [app EXCEPT ![p].pc = "checked"]
  BY DEF CheckLock, Racing
<1>2. \A u \in Procs : app[u].pc \notin OpenPcs
  BY <1>1, SessionAssumption DEF LockInv, HoldsLock
<1>3. /\ app'[p].pc = "checked" /\ app'[p].todo = app[p].todo
      /\ app'[p].wait = app[p].wait
      /\ \A u \in Procs : u # p => app'[u] = app[u]
  BY <1>1 DEF LockInv, Shape
<1>4. Shape'
  <2>1. /\ app' = [u \in Procs |-> IF u = p THEN [app[p] EXCEPT !.pc = "checked"]
                                    ELSE app[u]]
        /\ app[p] = [pc |-> app[p].pc, todo |-> app[p].todo, wait |-> app[p].wait,
                     index |-> app[p].index, ts |-> app[p].ts, buf |-> app[p].buf]
        /\ \A u \in Procs :
             app[u] = [pc |-> app[u].pc, todo |-> app[u].todo, wait |-> app[u].wait,
                       index |-> app[u].index, ts |-> app[u].ts, buf |-> app[u].buf]
    BY <1>1 DEF LockInv, Shape
  <2>2. app'[p] = [pc |-> "checked", todo |-> app[p].todo, wait |-> app[p].wait,
                   index |-> app[p].index, ts |-> app[p].ts, buf |-> app[p].buf]
    BY <2>1
  <2>3. \A u \in Procs :
          app'[u] = [pc |-> app'[u].pc, todo |-> app'[u].todo, wait |-> app'[u].wait,
                     index |-> app'[u].index, ts |-> app'[u].ts, buf |-> app'[u].buf]
    BY <2>1, <2>2, <1>3
  <2> QED
    BY <2>1, <2>3 DEF Shape
<1>5. HoldsLock'
  BY <1>2, <1>3 DEF HoldsLock, OpenPcs
<1>6. CallsWhenOpen'
  BY <1>2, <1>3 DEF LockInv, CallsWhenOpen
<1>7. CheckedAlone'
  BY <1>1, <1>2, <1>3 DEF CheckedAlone
<1> QED
  BY <1>4, <1>5, <1>6, <1>7 DEF LockInv

\* The process that checked the lock takes it, or exits because there is no simulator.
LEMMA CreateLockStep ==
  ASSUME LockInv, NEW p \in Procs, CreateLock(p)
  PROVE  LockInv'
<1>1. /\ app[p].pc = "checked"
      /\ \/ lock' = p /\ app' = [app EXCEPT ![p].pc = "init", ![p].todo = InitScript]
         \/ app' = [app EXCEPT ![p] = NewProcess]
  BY DEF CreateLock, create_new_lock_file
<1>2. \A u \in Procs : u # p => app[u].pc \notin OpenPcs \cup {"checked"}
  BY <1>1 DEF LockInv, CheckedAlone
<1>3. Shape'
  BY <1>1 DEF LockInv, Shape, NewProcess
<1>4. /\ \A u \in Procs : u # p => app'[u] = app[u]
      /\ \/ lock' = p /\ app'[p].pc = "init"
         \/ app'[p] = NewProcess
  BY <1>1 DEF LockInv, Shape
<1>5. HoldsLock'
  BY <1>2, <1>4, NewProcessFacts DEF HoldsLock, OpenPcs
<1>6. CallsWhenOpen'
  BY <1>2, <1>4, NewProcessFacts DEF LockInv, CallsWhenOpen, OpenPcs
<1>7. CheckedAlone'
  BY <1>2, <1>4, NewProcessFacts DEF CheckedAlone, OpenPcs
<1> QED
  BY <1>3, <1>5, <1>6, <1>7 DEF LockInv

\* A request is sent by a process with the pipes open; it may exit.
LEMMA RequestStep ==
  ASSUME LockInv, NEW p \in Procs, Request(p)
  PROVE  LockInv'
<1> DEFINE r    == app[p]
           op   == Head(r.todo)
           pipe == PipeOf(r.pc, op)
           r1   == IF pipe = "alloc"
                   THEN [r EXCEPT !.buf[op] = NewBuffer(r, op), !.index = @ + 1]
                   ELSE IF op = "simkill" /\ r.pc = "deinit" THEN FreeBuffers(r) ELSE r
<1>1. app[p].pc \in OpenPcs
  BY DEF Request, LockInv, CallsWhenOpen
<1>2. Process(r) /\ r.pc # "checked" /\ r.pc \in OpenPcs
  BY <1>1, ProcessOf DEF OpenPcs
<1>3. Process([r1 EXCEPT !.wait = TRUE]) /\ [r1 EXCEPT !.wait = TRUE].pc = r.pc
  <2>1. Process(r1) /\ r1.pc = r.pc
    <3> HIDE DEF r, op, pipe
    <3>1. CASE pipe = "alloc"
      BY <1>2, <3>1 DEF Process
    <3>2. CASE pipe # "alloc" /\ op = "simkill" /\ r.pc = "deinit"
      BY <1>2, <3>2 DEF Process, FreeBuffers
    <3>3. CASE pipe # "alloc" /\ ~(op = "simkill" /\ r.pc = "deinit")
      BY <1>2, <3>3
    <3> QED BY <3>1, <3>2, <3>3
  <2> HIDE DEF r, r1
  <2> QED BY <2>1, WaitFacts
<1>4. CASE app' = [app EXCEPT ![p] = [r1 EXCEPT !.wait = TRUE]] /\ lock' = lock
  <2> HIDE DEF r1, r
  <2> QED BY <1>1, <1>2, <1>3, <1>4, OpenStep
<1>5. CASE app' = [app EXCEPT ![p] = NewProcess]
  BY <1>1, <1>5, NewProcessFacts, OpenStep DEF OpenPcs
<1> QED
  BY <1>4, <1>5 DEF Request

\* An answer ends a call and, with the last call, the session.
LEMMA ResponseStep ==
  ASSUME LockInv, NEW p \in Procs, Response(p)
  PROVE  LockInv'
<1> DEFINE r  == app[p]
           op == Head(r.todo)
           m  == Head(q.rsp[PipeOf(r.pc, op)])
           r1 == CASE op \in Kinds    -> [r EXCEPT !.buf[op] = m.buf]
                   [] op = "ase_init" -> [r EXCEPT !.ts = tstamp]
                   [] OTHER           -> r
<1>1. /\ r.wait /\ app' = [app EXCEPT ![p] = Continue(r1)]
      /\ lock' = IF app'[p].pc = "idle" THEN "none" ELSE lock
  BY DEF Response
<1>2. app[p].pc \in OpenPcs /\ Process(r)
  BY <1>1, ProcessOf DEF LockInv, CallsWhenOpen
<1>3. Process(r1) /\ r1.pc = r.pc
  <2> HIDE DEF r, op, m
  <2>0. "ase_init" \notin Kinds
    BY DEF Kinds
  <2>1. CASE op \in Kinds
    BY <1>2, <2>0, <2>1 DEF Process
  <2>2. CASE op = "ase_init"
    BY <1>2, <2>0, <2>2 DEF Process
  <2>3. CASE op \notin Kinds /\ op # "ase_init"
    BY <1>2, <2>3
  <2> QED BY <2>1, <2>2, <2>3
<1>4. app'[p] = Continue(r1)
  BY <1>1 DEF LockInv, Shape
<1> HIDE DEF r1
<1>5. /\ Process(Continue(r1)) /\ Continue(r1).wait = FALSE
      /\ Continue(r1).pc \in OpenPcs \cup {"idle"}
      /\ Continue(r1).pc = "idle" => Continue(r1).todo = <<>>
  BY <1>2, <1>3, ContinueFacts
<1> QED
  BY <1>1, <1>2, <1>4, <1>5, OpenStep DEF OpenPcs

\* A closed pipe ends a call in the same way.
LEMMA ResponseEofStep ==
  ASSUME LockInv, NEW p \in Procs, ResponseEof(p)
  PROVE  LockInv'
<1>1. /\ app[p].wait /\ app' = [app EXCEPT ![p] = Continue(app[p])]
      /\ lock' = IF app'[p].pc = "idle" THEN "none" ELSE lock
  BY DEF ResponseEof
<1>2. app[p].pc \in OpenPcs /\ Process(app[p])
  BY <1>1, ProcessOf DEF LockInv, CallsWhenOpen
<1>3. app'[p] = Continue(app[p])
  BY <1>1 DEF LockInv, Shape
<1>4. /\ Process(Continue(app[p])) /\ Continue(app[p]).wait = FALSE
      /\ Continue(app[p]).pc \in OpenPcs \cup {"idle"}
      /\ Continue(app[p]).pc = "idle" => Continue(app[p]).todo = <<>>
  BY <1>2, ContinueFacts
<1> QED
  BY <1>1, <1>2, <1>3, <1>4, OpenStep DEF OpenPcs

\* The last close starts session_deinit.
LEMMA CloseStep ==
  ASSUME LockInv, NEW p \in Procs, Close(p)
  PROVE  LockInv'
<1> DEFINE r == [app[p] EXCEPT !.pc = "deinit", !.todo = DeinitScript]
<1>1. app[p].pc \in OpenPcs /\ app' = [app EXCEPT ![p] = r] /\ lock' = lock
  BY DEF Close, OpenPcs, LockInv, Shape
<1>2. Process(r) /\ r.pc = "deinit"
  BY ProcessOf, CallFacts
<1> HIDE DEF r
<1> QED
  BY <1>1, <1>2, OpenStep DEF OpenPcs

\* CTRL-C meets a process with the pipes open.
LEMMA SignalStep ==
  ASSUME LockInv, NEW p \in Procs, Signal(p)
  PROVE  LockInv'
<1> DEFINE r == [app[p] EXCEPT !.pc = "signal", !.todo = <<"simkill">>, !.wait = FALSE]
<1>1. app[p].pc \in OpenPcs /\ app' = [app EXCEPT ![p] = r] /\ lock' = lock
  BY SessionAssumption DEF Signal, OpenPcs, LockInv, Shape
<1>2. Process(r) /\ r.pc = "signal"
  <2> DEFINE r0 == [app[p] EXCEPT !.pc = "signal", !.todo = <<"simkill">>]
  <2>1. Process(r0) /\ r0.pc = "signal"
    BY ProcessOf, CallFacts
  <2> HIDE DEF r0
  <2>2. Process([r0 EXCEPT !.wait = FALSE]) /\ [r0 EXCEPT !.wait = FALSE].pc = "signal"
    BY <2>1, WaitFacts
  <2> QED
    BY <2>2 DEF r0
<1> HIDE DEF r
<1> QED
  BY <1>1, <1>2, OpenStep DEF OpenPcs

\* A killed process leaves a stale lock, or had none.
LEMMA KillStep ==
  ASSUME LockInv, NEW p \in Procs, Kill(p)
  PROVE  LockInv'
<1>1. /\ app' = [app EXCEPT ![p] = NewProcess]
      /\ lock' = IF lock = p THEN "stale" ELSE lock
  BY DEF Kill, LockLeft
<1>2. CASE app[p].pc \in OpenPcs
  BY <1>1, <1>2, NewProcessFacts, OpenStep DEF OpenPcs
<1>3. CASE app[p].pc \notin OpenPcs
  <2>1. /\ app'[p] = NewProcess
        /\ \A u \in Procs : u # p => app'[u] = app[u]
    BY <1>1 DEF LockInv, Shape
  <2>2. Shape'
    BY <1>1 DEF LockInv, Shape, NewProcess
  <2>3. HoldsLock'
    BY <1>1, <2>1, NewProcessFacts DEF LockInv, HoldsLock, OpenPcs
  <2>4. CallsWhenOpen'
    BY <2>1, NewProcessFacts DEF LockInv, CallsWhenOpen
  <2>5. CheckedAlone'
    BY <2>1, NewProcessFacts DEF LockInv, CheckedAlone, OpenPcs
  <2> QED
    BY <2>2, <2>3, <2>4, <2>5 DEF LockInv
<1> QED
  BY <1>2, <1>3

\* The steps of the simulator leave the applications and the lock file alone.
LEMMA OtherStep ==
  ASSUME LockInv, UNCHANGED appVars
  PROVE  LockInv'
  BY DEF appVars, LockInv, Shape, HoldsLock, CallsWhenOpen, CheckedAlone

-----------------------------------------------------------------------------
\* A race is remembered.
LEMMA RaceRemembered ==
  ASSUME [Next]_vars, ~raced'
  PROVE  ~raced
<1>1. ASSUME NEW p \in Procs, Application(p)
      PROVE  raced' = raced
  BY <1>1 DEF Application, Request, Response, ResponseEof, CreateLock
<1>2. ASSUME NEW p \in Procs, User(p)
      PROVE  raced => raced'
  BY <1>2 DEF User, CheckLock, Close, Signal, Kill
<1>3. ASSUME Listener \/ ResetFsm \/ InactivityTimeout \/ UNCHANGED vars
      PROVE  raced' = raced
  BY <1>3 DEF Listener, ListenPortctrl, ListenAlloc, ListenDealloc, ResetFsm,
     ResetEdge, ResetDone, InactivityTimeout, vars
<1> QED
  BY <1>1, <1>2, <1>3 DEF Next

\* The invariant of the lock file holds until two applications are between the
\* check and the creation of the lock file at once.
LEMMA LockInvariance == Spec => [](raced \/ LockInv)
<1>1. (raced \/ LockInv) /\ [Next]_vars => (raced \/ LockInv)'
  <2> SUFFICES ASSUME raced \/ LockInv, [Next]_vars, ~raced'
               PROVE  LockInv'
    OBVIOUS
  <2>0. LockInv
    BY RaceRemembered
  <2>1. ASSUME NEW p \in Procs, Application(p)
        PROVE  LockInv'
    BY <2>0, <2>1, RequestStep, ResponseStep, ResponseEofStep, CreateLockStep
    DEF Application
  <2>2. ASSUME NEW p \in Procs, User(p)
        PROVE  LockInv'
    BY <2>0, <2>2, CheckLockStep, CloseStep, SignalStep, KillStep DEF User
  <2>3. CASE Listener
    BY <2>0, <2>3, OtherStep DEF Listener, ListenPortctrl, ListenAlloc, ListenDealloc
  <2>4. CASE ResetFsm
    BY <2>0, <2>4, OtherStep DEF ResetFsm, ResetEdge, ResetDone, appVars
  <2>5. CASE InactivityTimeout
    BY <2>0, <2>5, OtherStep DEF InactivityTimeout
  <2>6. CASE UNCHANGED vars
    BY <2>0, <2>6, OtherStep DEF vars
  <2> QED
    BY <2>1, <2>2, <2>3, <2>4, <2>5, <2>6 DEF Next
<1> QED
  BY InitLock, <1>1, PTL DEF Spec

\* Whatever the modes, the interrupts, the kills and the lock files they leave
\* (session_init, remove_existing_lock_file): two processes have the pipes open
\* together, or one that the lock file does not name, only after a race between
\* the check and the creation of the lock file.
THEOREM OnlyRaceSharesPipes == Spec => []ExclusiveUnlessRaced
<1>1. LockInv => OneSession
  <2> SUFFICES ASSUME LockInv
               PROVE  OneSession
    OBVIOUS
  <2>1. \A p \in Open : lock = p
    BY DEF LockInv, HoldsLock, Open, OpenPcs
  <2>2. Open \subseteq {lock}
    BY <2>1
  <2>3. IsFiniteSet({lock}) /\ Cardinality({lock}) = 1
    BY FS_Singleton
  <2>4. Cardinality(Open) <= 1
    BY <2>2, <2>3, FS_Subset
  <2> QED
    BY <2>1, <2>4 DEF OneSession
<1>2. (raced \/ LockInv) => ExclusiveUnlessRaced
  BY <1>1 DEF ExclusiveUnlessRaced
<1> QED
  BY <1>2, LockInvariance, PTL
=============================================================================
