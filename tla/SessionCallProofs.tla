-------------------------- MODULE SessionCallProofs --------------------------
(***************************************************************************)
(* What a session leaves behind, for any number of processes and sessions  *)
(* and in every mode, as long as no application ends where the simulator   *)
(* cannot notice and no two are started at once: every answer is read by   *)
(* the call it is for, nothing is left between two sessions, and the       *)
(* simulator ends only as its mode says.                                   *)
(*                                                                         *)
(* None of the three is inductive.  The invariant says how far the session *)
(* is: which call its process has reached and whether the request is still *)
(* to be sent, in its pipe, with the reset state machine, or answered; the *)
(* regions of the process and the list of the simulator follow from that.  *)
(***************************************************************************)
EXTENDS SessionProofs, SequenceTheorems

\* A call of session_init, session_deinit or send_simkill: the calls left, its
\* pipe; the regions the process has before and after it sends the request, those
\* in the simulator's list before and after the answer; the level of
\* app_reset_trig before and after; whether session_empty is known to be clear.
Call(pc, todo, op, pipe, own, sent, map, done, low, high, live, lives) ==
    [pc |-> pc, todo |-> todo, op |-> op, pipe |-> pipe, own |-> own, sent |-> sent,
     map |-> map, done |-> done, low |-> low, high |-> high,
     live |-> live, lives |-> lives]

Init2 == <<"reset_low", "ase_init", "mmio", "umas", "umsg_mode">>
Init3 == <<"ase_init", "mmio", "umas", "umsg_mode">>
Init4 == <<"mmio", "umas", "umsg_mode">>
Init5 == <<"umas", "umsg_mode">>
Init6 == <<"umsg_mode">>
Deinit2 == <<"mmio", "simkill">>
Kill1 == <<"simkill">>

ResetHigh ==
    Call("init", InitScript, "reset_high", "portctrl", 0, 0, 0, 0, 0, 1, FALSE, FALSE)
ResetLow ==
    Call("init", Init2, "reset_low", "portctrl", 0, 0, 0, 0, 1, 0, FALSE, FALSE)
AseInit ==
    Call("init", Init3, "ase_init", "portctrl", 0, 0, 0, 0, 0, 0, FALSE, TRUE)
AllocMmio ==
    Call("init", Init4, "mmio", "alloc", 0, 1, 0, 1, 0, 0, TRUE, TRUE)
AllocUmas ==
    Call("init", Init5, "umas", "alloc", 1, 2, 1, 2, 0, 0, TRUE, TRUE)
UmsgMode ==
    Call("init", Init6, "umsg_mode", "portctrl", 2, 2, 2, 2, 0, 0, TRUE, TRUE)
DeallocUmas ==
    Call("deinit", DeinitScript, "umas", "dealloc", 2, 2, 2, 1, 0, 0, TRUE, TRUE)
DeallocMmio ==
    Call("deinit", Deinit2, "mmio", "dealloc", 2, 2, 1, 0, 0, 0, TRUE, TRUE)
SimKillCall ==
    Call("deinit", Kill1, "simkill", "portctrl", 2, 0, 0, 0, 0, 0, TRUE, FALSE)
SignalCall ==
    Call("signal", Kill1, "simkill", "portctrl", 2, 2, 2, 0, 0, 0, TRUE, FALSE)
Calls == {ResetHigh, ResetLow, AseInit, AllocMmio, AllocUmas, UmsgMode,
          DeallocUmas, DeallocMmio, SimKillCall, SignalCall}

-----------------------------------------------------------------------------
\* The two regions of a process, and what it and the simulator have of them.
Mmio(r) == [kind |-> "mmio", index |-> 0, ts |-> r.ts]
Umas(r) == [kind |-> "umas", index |-> 1, ts |-> r.ts]
Holds(r, n) ==
    /\ r.index = n
    /\ r.buf = [k \in Kinds |-> IF k = "mmio" /\ n > 0 THEN Mmio(r)
                                ELSE IF k = "umas" /\ n > 1 THEN Umas(r) ELSE NoBuf]
Listed(r, n) ==
    /\ n = 0 => head = <<>>
    /\ n = 1 => head = <<Mmio(r)>>
    /\ n = 2 => head = <<Mmio(r), Umas(r)>>
    /\ n > 0 => csr_umsg_base = Mmio(r)

\* Pipes with nothing, and with one message in one of them.
NoLine == [i \in Pipes |-> <<>>]
Line(pipe, m) == [i \in Pipes |-> IF i = pipe THEN <<m>> ELSE <<>>]
NoMsgs == [req |-> NoLine, rsp |-> NoLine]
Message(p, op) == [op |-> op, by |-> p,
                   buf |-> IF op \in Kinds THEN app[p].buf[op] ELSE NoBuf]

\* The reset state machine has nothing to do.
Settled(level) == /\ app_reset_trig = level /\ app_reset_trig_q = level
                  /\ rst_state = "idle"

\* The places of a call.
At(p, c) == app[p].pc = c.pc /\ app[p].todo = c.todo
Calling(p, c) ==
    /\ At(p, c) /\ ~app[p].wait /\ Holds(app[p], c.own) /\ Listed(app[p], c.map)
    /\ q = NoMsgs /\ Settled(c.low) /\ (c.live => ~session_empty)
Asked(p, c) ==
    /\ At(p, c) /\ app[p].wait /\ Holds(app[p], c.sent) /\ Listed(app[p], c.map)
    /\ q = [req |-> Line(c.pipe, Message(p, c.op)), rsp |-> NoLine]
    /\ Settled(c.low) /\ (c.live => ~session_empty)
Resetting(p, c) ==
    /\ At(p, c) /\ app[p].wait /\ Holds(app[p], c.sent) /\ Listed(app[p], c.done)
    /\ c.op \in {"reset_high", "reset_low"}
    /\ q = NoMsgs /\ app_reset_trig = c.high /\ rst_by = p
    /\ \/ app_reset_trig_q = c.low /\ rst_state = "idle"
       \/ app_reset_trig_q = c.high /\ rst_state = "busy"
Answered(p, c) ==
    /\ At(p, c) /\ app[p].wait /\ Holds(app[p], c.sent) /\ Listed(app[p], c.done)
    /\ q = [req |-> NoLine, rsp |-> Line(c.pipe, Message(p, c.op))]
    /\ Settled(c.high) /\ (c.lives => ~session_empty)
InCall(p, c) == /\ Calling(p, c) \/ Asked(p, c) \/ Resetting(p, c) \/ Answered(p, c)
                /\ c.pc = "signal" => ase_mode = "no_simkill"

\* An established session, and none.
Running(p) ==
    /\ app[p].pc = "up" /\ app[p].todo = <<>> /\ ~app[p].wait
    /\ Holds(app[p], 2) /\ Listed(app[p], 2)
    /\ q = NoMsgs /\ Settled(0) /\ ~session_empty
Rest(r) == r.todo = <<>> /\ ~r.wait /\ Holds(r, 0)
Nothing == head = <<>> /\ q = NoMsgs /\ Settled(0)

UpInv ==
    /\ \A p \in Procs : app[p].pc \notin OpenPcs => Rest(app[p])
    /\ \A p \in Procs : app[p].pc \in OpenPcs =>
         Running(p) \/ \E c \in Calls : InCall(p, c)
    /\ (\A p \in Procs : app[p].pc \notin OpenPcs) => Nothing

\* After the simulator has ended: the answer that may be left.
LastAnswer(p) ==
    /\ app[p].wait /\ app[p].pc \in OpenPcs \ {"up"}
    /\ LET op == Head(app[p].todo)
           m  == Message(p, op)
       IN /\ q.rsp = Line(PipeOf(app[p].pc, op), m)
          /\ PipeOf(app[p].pc, op) = "dealloc" => m.buf \notin Range(head)
DownInv ==
    /\ q = [req |-> q.req, rsp |-> q.rsp]
    /\ \A p \in Procs : app[p].pc = "up" => ~app[p].wait
    /\ q.rsp = NoLine \/ \E p \in Procs : LastAnswer(p)

\* How far the configured number of tests is; how the simulator may end.
CountInv ==
    /\ glbl_test_cmplt_cnt \in Nat /\ ase_mode \in Modes
    /\ sim = "up" /\ ase_mode = "regression" => glbl_test_cmplt_cnt < NumTests

SessInv == /\ CountInv
           /\ EndsAsConfigured
           /\ raced => disturbed
           /\ ~disturbed => IF sim = "up" THEN UpInv ELSE DownInv

-----------------------------------------------------------------------------
(* The calls. *)

\* The sequences of calls.
LEMMA Scripts ==
    /\ InitScript # <<>> /\ Head(InitScript) = "reset_high" /\ Tail(InitScript) = Init2
    /\ Init2 # <<>> /\ Head(Init2) = "reset_low" /\ Tail(Init2) = Init3
    /\ Init3 # <<>> /\ Head(Init3) = "ase_init" /\ Tail(Init3) = Init4
    /\ Init4 # <<>> /\ Head(Init4) = "mmio" /\ Tail(Init4) = Init5
    /\ Init5 # <<>> /\ Head(Init5) = "umas" /\ Tail(Init5) = Init6
    /\ Init6 # <<>> /\ Head(Init6) = "umsg_mode"
    /\ DeinitScript # <<>> /\ Head(DeinitScript) = "umas" /\ Tail(DeinitScript) = Deinit2
    /\ Deinit2 # <<>> /\ Head(Deinit2) = "mmio" /\ Tail(Deinit2) = Kill1
    /\ Kill1 # <<>> /\ Head(Kill1) = "simkill"
    /\ Len(InitScript) > 1 /\ Len(Init2) > 1 /\ Len(Init3) > 1 /\ Len(Init4) > 1
    /\ Len(Init5) > 1 /\ ~(Len(Init6) > 1) /\ Len(DeinitScript) > 1
    /\ Len(Deinit2) > 1 /\ ~(Len(Kill1) > 1)
  BY DEF InitScript, Init2, Init3, Init4, Init5, Init6, DeinitScript, Deinit2, Kill1

\* What the calls have in common.
LEMMA CallShape ==
    ASSUME NEW c \in Calls
    PROVE  /\ c.pc \in {"init", "deinit", "signal"} /\ c.pc \in OpenPcs \ {"up"}
           /\ c.todo # <<>> /\ Head(c.todo) = c.op
           /\ c.pipe = PipeOf(c.pc, c.op) /\ c.pipe \in Pipes
           /\ c.own \in 0 .. 2 /\ c.sent \in 0 .. 2 /\ c.map \in 0 .. 2 /\ c.done \in 0 .. 2
           /\ c.low \in {0, 1} /\ c.high \in {0, 1}
  <1>1. /\ c.pc \in {"init", "deinit", "signal"} /\ c.pc \in OpenPcs \ {"up"}
        /\ c.todo # <<>> /\ Head(c.todo) = c.op
    <2>1. c.pc \in {"init", "deinit", "signal"}
      BY DEF Calls, Call, ResetHigh, ResetLow, AseInit, AllocMmio, AllocUmas, UmsgMode,
           DeallocUmas, DeallocMmio, SimKillCall, SignalCall
    <2>2. \/ c.todo = InitScript /\ c.op = "reset_high"
          \/ c.todo = Init2 /\ c.op = "reset_low"
          \/ c.todo = Init3 /\ c.op = "ase_init"
          \/ c.todo = Init4 /\ c.op = "mmio"
          \/ c.todo = Init5 /\ c.op = "umas"
          \/ c.todo = Init6 /\ c.op = "umsg_mode"
          \/ c.todo = DeinitScript /\ c.op = "umas"
          \/ c.todo = Deinit2 /\ c.op = "mmio"
          \/ c.todo = Kill1 /\ c.op = "simkill"
      BY DEF Calls, Call, ResetHigh, ResetLow, AseInit, AllocMmio, AllocUmas, UmsgMode,
           DeallocUmas, DeallocMmio, SimKillCall, SignalCall
    <2>3. c.todo # <<>> /\ Head(c.todo) = c.op
      BY ONLY <2>2, Scripts
    <2> QED
      BY <2>1, <2>3 DEF OpenPcs
  <1>2. c.pipe = PipeOf(c.pc, c.op) /\ c.pipe \in Pipes
    BY DEF Calls, Call, ResetHigh, ResetLow, AseInit, AllocMmio, AllocUmas, UmsgMode,
         DeallocUmas, DeallocMmio, SimKillCall, SignalCall, PipeOf, Kinds, Pipes
  <1>3. /\ c.own \in 0 .. 2 /\ c.sent \in 0 .. 2 /\ c.map \in 0 .. 2 /\ c.done \in 0 .. 2
        /\ c.low \in {0, 1} /\ c.high \in {0, 1}
    BY DEF Calls, Call, ResetHigh, ResetLow, AseInit, AllocMmio, AllocUmas, UmsgMode,
         DeallocUmas, DeallocMmio, SimKillCall, SignalCall
  <1> QED
    BY <1>1, <1>2, <1>3

\* allocate_buffer, deallocate_buffer, ase_portctrl.
LEMMA AllocCall ==
    ASSUME NEW c \in Calls, c.pipe = "alloc"
    PROVE  /\ c.pc = "init" /\ c.low = 0 /\ c.high = 0 /\ c.live /\ c.lives
           /\ \/ c.op = "mmio" /\ c.own = 0 /\ c.sent = 1 /\ c.map = 0 /\ c.done = 1
              \/ c.op = "umas" /\ c.own = 1 /\ c.sent = 2 /\ c.map = 1 /\ c.done = 2
  BY DEF Calls, Call, ResetHigh, ResetLow, AseInit, AllocMmio, AllocUmas, UmsgMode,
         DeallocUmas, DeallocMmio, SimKillCall, SignalCall
LEMMA DeallocCall ==
    ASSUME NEW c \in Calls, c.pipe = "dealloc"
    PROVE  /\ c.pc = "deinit" /\ c.low = 0 /\ c.high = 0 /\ c.live /\ c.lives
           /\ c.own = 2 /\ c.sent = 2
           /\ \/ c.op = "umas" /\ c.map = 2 /\ c.done = 1
              \/ c.op = "mmio" /\ c.map = 1 /\ c.done = 0
  BY DEF Calls, Call, ResetHigh, ResetLow, AseInit, AllocMmio, AllocUmas, UmsgMode,
         DeallocUmas, DeallocMmio, SimKillCall, SignalCall
LEMMA PortCall ==
    ASSUME NEW c \in Calls, c.pipe = "portctrl"
    PROVE  \/ /\ c.op = "reset_high" /\ c.low = 0 /\ c.high = 1 /\ ~c.live /\ ~c.lives
              /\ c.own = 0 /\ c.sent = 0 /\ c.map = 0 /\ c.done = 0
           \/ /\ c.op = "reset_low" /\ c.low = 1 /\ c.high = 0 /\ ~c.live /\ ~c.lives
              /\ c.own = 0 /\ c.sent = 0 /\ c.map = 0 /\ c.done = 0
           \/ /\ c.op = "ase_init" /\ c.low = 0 /\ c.high = 0
              /\ c.own = 0 /\ c.sent = 0 /\ c.map = 0 /\ c.done = 0
           \/ /\ c.op = "umsg_mode" /\ c.low = 0 /\ c.high = 0 /\ c.live /\ c.lives
              /\ c.own = 2 /\ c.sent = 2 /\ c.map = 2 /\ c.done = 2
           \/ /\ c.op = "simkill" /\ c.low = 0 /\ c.high = 0 /\ c.live /\ ~c.lives
              /\ c.pc = "deinit" /\ c.own = 2 /\ c.sent = 0 /\ c.map = 0 /\ c.done = 0
           \/ /\ c.op = "simkill" /\ c.low = 0 /\ c.high = 0 /\ c.live /\ ~c.lives
              /\ c.pc = "signal" /\ c.own = 2 /\ c.sent = 2 /\ c.map = 2 /\ c.done = 0
  BY DEF Calls, Call, ResetHigh, ResetLow, AseInit, AllocMmio, AllocUmas, UmsgMode,
         DeallocUmas, DeallocMmio, SimKillCall, SignalCall

\* The call that follows finds what this one leaves.
LEMMA NextCall ==
    ASSUME NEW c \in Calls
    PROVE  /\ Len(c.todo) > 1 =>
                \E d \in Calls : /\ d.pc = c.pc /\ d.todo = Tail(c.todo) /\ d.own = c.sent
                                 /\ d.map = c.done /\ d.low = c.high
                                 /\ (d.live => c.lives) /\ c.pc # "signal"
           /\ ~(Len(c.todo) > 1) => /\ c.high = 0 /\ c.op \in {"umsg_mode", "simkill"}
                                    /\ c.pc = "init" => c.sent = 2 /\ c.done = 2 /\ c.lives
                                    /\ c.pc # "init" => c.done = 0
                                    /\ c.pc = "deinit" => c.sent = 0
  <1>1. CASE c = ResetHigh
    <2>1. /\ ResetLow.pc = c.pc /\ ResetLow.todo = Tail(c.todo) /\ ResetLow.own = c.sent
          /\ ResetLow.map = c.done /\ ResetLow.low = c.high
          /\ (ResetLow.live => c.lives) /\ c.pc # "signal" /\ Len(c.todo) > 1
      BY <1>1, Scripts DEF Call, ResetHigh, ResetLow
    <2> QED
      BY <2>1 DEF Calls
  <1>2. CASE c = ResetLow
    <2>1. /\ AseInit.pc = c.pc /\ AseInit.todo = Tail(c.todo) /\ AseInit.own = c.sent
          /\ AseInit.map = c.done /\ AseInit.low = c.high
          /\ (AseInit.live => c.lives) /\ c.pc # "signal" /\ Len(c.todo) > 1
      BY <1>2, Scripts DEF Call, ResetLow, AseInit
    <2> QED
      BY <2>1 DEF Calls
  <1>3. CASE c = AseInit
    <2>1. /\ AllocMmio.pc = c.pc /\ AllocMmio.todo = Tail(c.todo) /\ AllocMmio.own = c.sent
          /\ AllocMmio.map = c.done /\ AllocMmio.low = c.high
          /\ (AllocMmio.live => c.lives) /\ c.pc # "signal" /\ Len(c.todo) > 1
      BY <1>3, Scripts DEF Call, AseInit, AllocMmio
    <2> QED
      BY <2>1 DEF Calls
  <1>4. CASE c = AllocMmio
    <2>1. /\ AllocUmas.pc = c.pc /\ AllocUmas.todo = Tail(c.todo) /\ AllocUmas.own = c.sent
          /\ AllocUmas.map = c.done /\ AllocUmas.low = c.high
          /\ (AllocUmas.live => c.lives) /\ c.pc # "signal" /\ Len(c.todo) > 1
      BY <1>4, Scripts DEF Call, AllocMmio, AllocUmas
    <2> QED
      BY <2>1 DEF Calls
  <1>5. CASE c = AllocUmas
    <2>1. /\ UmsgMode.pc = c.pc /\ UmsgMode.todo = Tail(c.todo) /\ UmsgMode.own = c.sent
          /\ UmsgMode.map = c.done /\ UmsgMode.low = c.high
          /\ (UmsgMode.live => c.lives) /\ c.pc # "signal" /\ Len(c.todo) > 1
      BY <1>5, Scripts DEF Call, AllocUmas, UmsgMode
    <2> QED
      BY <2>1 DEF Calls
  <1>6. CASE c = DeallocUmas
    <2>1. /\ DeallocMmio.pc = c.pc /\ DeallocMmio.todo = Tail(c.todo) /\ DeallocMmio.own = c.sent
          /\ DeallocMmio.map = c.done /\ DeallocMmio.low = c.high
          /\ (DeallocMmio.live => c.lives) /\ c.pc # "signal" /\ Len(c.todo) > 1
      BY <1>6, Scripts DEF Call, DeallocUmas, DeallocMmio
    <2> QED
      BY <2>1 DEF Calls
  <1>7. CASE c = DeallocMmio
    <2>1. /\ SimKillCall.pc = c.pc /\ SimKillCall.todo = Tail(c.todo) /\ SimKillCall.own = c.sent
          /\ SimKillCall.map = c.done /\ SimKillCall.low = c.high
          /\ (SimKillCall.live => c.lives) /\ c.pc # "signal" /\ Len(c.todo) > 1
      BY <1>7, Scripts DEF Call, DeallocMmio, SimKillCall
    <2> QED
      BY <2>1 DEF Calls
  <1>8. CASE c = UmsgMode
    BY <1>8, Scripts DEF Call, UmsgMode
  <1>9. CASE c = SimKillCall
    BY <1>9, Scripts DEF Call, SimKillCall
  <1>10. CASE c = SignalCall
    BY <1>10, Scripts DEF Call, SignalCall
  <1> QED
    BY <1>1, <1>2, <1>3, <1>4, <1>5, <1>6, <1>7, <1>8, <1>9, <1>10 DEF Calls

-----------------------------------------------------------------------------
(* The pipes and the list of regions. *)

\* One message sent into empty pipes, and received again.
LEMMA PipeFacts ==
    ASSUME NEW pipe \in Pipes, NEW m
    PROVE  /\ Push(NoLine, pipe, m) = Line(pipe, m)
           /\ Pop(Line(pipe, m), pipe) = NoLine
           /\ NoLine[pipe] = <<>> /\ Line(pipe, m)[pipe] = <<m>>
           /\ Line(pipe, m)[pipe] # <<>> /\ Head(Line(pipe, m)[pipe]) = m
           /\ \A i \in Pipes : i # pipe => Line(pipe, m)[i] = <<>>
           /\ Line(pipe, m) # NoLine
  <1>1. /\ NoLine[pipe] = <<>> /\ Line(pipe, m)[pipe] = <<m>>
        /\ \A i \in Pipes : i # pipe => Line(pipe, m)[i] = <<>>
    BY DEF NoLine, Line
  <1>2. /\ <<m>> # <<>> /\ Head(<<m>>) = m /\ Tail(<<m>>) = <<>>
        /\ Append(<<>>, m) = <<m>>
    OBVIOUS
  <1>3. Push(NoLine, pipe, m) = Line(pipe, m)
    BY <1>1, <1>2 DEF Push, NoLine, Line
  <1>4. Pop(Line(pipe, m), pipe) = NoLine
    BY <1>1, <1>2 DEF Pop, NoLine, Line
  <1> QED
    BY <1>1, <1>2, <1>3, <1>4

\* ll_search_buffer and ll_remove_buffer on the two regions of a process.
LEMMA TwoListed ==
    ASSUME NEW a, NEW b, head = <<a, b>>, a.index = 0, b.index = 1
    PROVE  /\ ll_search_buffer(1) = 2 /\ head[2] = b
           /\ ll_remove_buffer(2) = <<a>>
  <1>1. {i \in 1 .. Len(head) : head[i].index = 1} = {2}
    OBVIOUS
  <1>2. ll_search_buffer(1) = 2
    BY <1>1 DEF ll_search_buffer, SelectInSeq, Min
  <1>3. ll_remove_buffer(2) = <<a>>
    <2>1. SubSeq(head, 1, 1) = <<a>>
      <3>1. head \in Seq({a, b}) /\ Len(head) = 2 /\ head[1] = a
        OBVIOUS
      <3>2. /\ SubSeq(head, 1, 1) \in Seq({a, b}) /\ Len(SubSeq(head, 1, 1)) = 1
            /\ SubSeq(head, 1, 1)[1] = a
        <4>1. \A i \in 1 .. 1 : head[i] \in {a, b}
          BY <3>1
        <4>2. PICK one \in Int : one = 1
          OBVIOUS
        <4>3. /\ SubSeq(head, one, one) \in Seq({a, b})
              /\ Len(SubSeq(head, one, one)) = IF one <= one THEN one - one + 1 ELSE 0
              /\ \A i \in 1 .. (one - one + 1) :
                   SubSeq(head, one, one)[i] = head[one + i - 1]
          <5>1. \A i \in one .. one : head[i] \in {a, b}
            BY <4>1, <4>2
          <5> QED
            BY ONLY <5>1, SubSeqProperties
        <4> QED
          BY <3>1, <4>2, <4>3
      <3>3. PICK z : z = SubSeq(head, 1, 1)
        OBVIOUS
      <3>4. z \in Seq({a, b}) /\ Len(z) = 1 /\ z[1] = a
        BY <3>2, <3>3
      <3>5. z = <<a>>
        BY ONLY <3>4
      <3> QED
        BY <3>3, <3>5
    <2>2. SubSeq(head, 3, 2) = <<>>
      OBVIOUS
    <2>3. ll_remove_buffer(2) = SubSeq(head, 1, 1) \o SubSeq(head, 3, 2)
      BY DEF ll_remove_buffer, RemoveAt
    <2>4. <<a>> \o <<>> = <<a>>
      OBVIOUS
    <2> QED
      BY <2>1, <2>2, <2>3, <2>4
  <1> QED
    BY <1>2, <1>3
LEMMA OneListed ==
    ASSUME NEW a, head = <<a>>, a.index = 0
    PROVE  /\ ll_search_buffer(0) = 1 /\ head[1] = a
           /\ ll_remove_buffer(1) = <<>>
  <1>1. {i \in 1 .. Len(head) : head[i].index = 0} = {1}
    OBVIOUS
  <1>2. ll_search_buffer(0) = 1
    BY <1>1 DEF ll_search_buffer, SelectInSeq, Min
  <1>3. ll_remove_buffer(1) = <<>>
    BY DEF ll_remove_buffer, RemoveAt
  <1> QED
    BY <1>2, <1>3

\* What a process has.
LEMMA HoldsFacts ==
    ASSUME NEW r
    PROVE  /\ Holds(r, 1) => r.buf["mmio"] = Mmio(r)
           /\ Holds(r, 2) => r.buf["mmio"] = Mmio(r) /\ r.buf["umas"] = Umas(r)
           /\ Mmio(r).index = 0 /\ Umas(r).index = 1 /\ Mmio(r) # Umas(r)
  BY DEF Holds, Kinds, Mmio, Umas

-----------------------------------------------------------------------------
(* Who is where. *)

\* A process with the pipes open is the only one.
LEMMA OnlyOne ==
    ASSUME LockInv, NEW p \in Procs, app[p].pc \in OpenPcs
    PROVE  /\ \A u \in Procs : u # p => app[u].pc \notin OpenPcs
           /\ Open # {} /\ p \in Open
  BY DEF LockInv, HoldsLock, Open, OpenPcs

\* The invariant after a step of the one process that has the pipes open.
LEMMA UpOne ==
    ASSUME UpInv, NEW p \in Procs,
           \A u \in Procs : u # p => app'[u] = app[u] /\ app[u].pc \notin OpenPcs,
           \/ app'[p].pc \in OpenPcs /\ Running(p)'
           \/ app'[p].pc \in OpenPcs /\ \E c \in Calls : InCall(p, c)'
           \/ app'[p].pc \notin OpenPcs /\ Rest(app'[p]) /\ Nothing'
    PROVE  UpInv'
  BY DEF UpInv

\* The invariant after a step of the simulator.
LEMMA UpSim ==
    ASSUME UpInv, LockInv, UNCHANGED app, NEW p \in Procs, app[p].pc \in OpenPcs,
           NEW c \in Calls, InCall(p, c)'
    PROVE  UpInv'
  BY OnlyOne, UpOne

\* A request in a pipe is that of the current call.
LEMMA WhoAsked ==
    ASSUME UpInv, NEW pipe \in Pipes, q.req[pipe] # <<>>
    PROVE  \E p \in Procs, c \in Calls :
             /\ Asked(p, c) /\ c.pipe = pipe /\ app[p].pc \in OpenPcs
             /\ c.pc = "signal" => ase_mode = "no_simkill"
  <1>1. q # NoMsgs
    BY PipeFacts DEF NoMsgs
  <1>2. PICK p \in Procs : app[p].pc \in OpenPcs
    BY <1>1 DEF UpInv, Nothing
  <1>3. PICK c \in Calls : InCall(p, c)
    BY <1>1, <1>2 DEF UpInv, Running
  <1>4. ~Answered(p, c)
    BY PipeFacts DEF Answered
  <1>5. Asked(p, c)
    BY <1>1, <1>3, <1>4 DEF InCall, Calling, Resetting
  <1>6. c.pipe = pipe
    <2>1. c.pipe \in Pipes /\ q.req = Line(c.pipe, Message(p, c.op))
      BY <1>5, CallShape DEF Asked
    <2> QED
      BY <2>1, PipeFacts
  <1> QED
    BY <1>2, <1>3, <1>5, <1>6 DEF InCall

\* A reset in progress is that of the current call.
LEMMA WhoResets ==
    ASSUME UpInv, app_reset_trig # app_reset_trig_q \/ rst_state = "busy"
    PROVE  \E p \in Procs, c \in Calls :
             Resetting(p, c) /\ app[p].pc \in OpenPcs /\ c.pc # "signal"
  <1>1. \A n : ~Settled(n)
    BY DEF Settled
  <1>2. PICK p \in Procs : app[p].pc \in OpenPcs
    BY <1>1 DEF UpInv, Nothing
  <1>3. PICK c \in Calls : InCall(p, c)
    BY <1>1, <1>2 DEF UpInv, Running
  <1>4. Resetting(p, c)
    BY <1>1, <1>3 DEF InCall, Calling, Asked, Answered
  <1>5. c.pc # "signal"
    <2>1. c.op \in {"reset_high", "reset_low"}
      BY <1>4 DEF Resetting
    <2> QED
      BY <2>1 DEF Calls, Call, ResetHigh, ResetLow, AseInit, AllocMmio, AllocUmas,
                  UmsgMode, DeallocUmas, DeallocMmio, SimKillCall, SignalCall
  <1> QED
    BY <1>2, <1>4, <1>5

\* A process that waits has sent its request.
LEMMA WhoWaits ==
    ASSUME UpInv, LockInv, NEW p \in Procs, app[p].wait
    PROVE  \E c \in Calls : /\ Asked(p, c) \/ Resetting(p, c) \/ Answered(p, c)
                            /\ app[p].pc \in OpenPcs
                            /\ c.pc = "signal" => ase_mode = "no_simkill"
  <1>1. app[p].pc \in OpenPcs
    BY DEF UpInv, Rest
  <1>2. PICK c \in Calls : InCall(p, c)
    BY <1>1 DEF UpInv, Running
  <1> QED
    BY <1>1, <1>2 DEF InCall, Calling

-----------------------------------------------------------------------------
(* The steps of an application, while the simulator is up. *)

\* allocate_buffer enters the next region.
LEMMA AllocHolds ==
    ASSUME NEW r, NEW op, NEW n,
           (op = "mmio" /\ n = 0) \/ (op = "umas" /\ n = 1),
           Holds(r, n), NEW r1, r1.ts = r.ts, r1.index = r.index + 1,
           r1.buf = [r.buf EXCEPT ![op] = NewBuffer(r, op)]
    PROVE  Holds(r1, n + 1)
  <1>1. PICK b : b = [r.buf EXCEPT ![op] = NewBuffer(r, op)]
    OBVIOUS
  <1>2. r1.ts = r.ts /\ r1.index = r.index + 1 /\ r1.buf = b
    BY <1>1
  <1>3. NewBuffer(r, op) = [kind |-> op, index |-> n, ts |-> r.ts]
    BY DEF NewBuffer, Holds
  <1>4. CASE n = 0
    <2>1. /\ r.buf = [k \in Kinds |-> NoBuf] /\ op = "mmio"
      BY <1>4 DEF Holds
    <2>2. b = [k \in Kinds |-> IF k = "mmio" THEN Mmio(r) ELSE NoBuf]
      BY <1>1, <1>3, <1>4, <2>1 DEF Mmio, Kinds
    <2> QED
      BY <1>2, <1>4, <2>2 DEF Holds, Mmio
  <1>5. CASE n = 1
    <2>1. r.buf = [k \in Kinds |-> IF k = "mmio" THEN Mmio(r) ELSE NoBuf] /\ op = "umas"
      BY <1>5 DEF Holds
    <2>2. b = [k \in Kinds |-> IF k = "mmio" THEN Mmio(r) ELSE Umas(r)]
      BY <1>1, <1>3, <1>5, <2>1 DEF Umas, Kinds
    <2>3. r1.buf = [k \in Kinds |-> IF k = "mmio" /\ 2 > 0 THEN Mmio(r1)
                                    ELSE IF k = "umas" /\ 2 > 1 THEN Umas(r1) ELSE NoBuf]
      BY <1>2, <2>2 DEF Mmio, Umas, Kinds
    <2>4. r1.index = 2 /\ n + 1 = 2
      BY <1>2, <1>5 DEF Holds
    <2>5. Holds(r1, 2)
      BY <2>3, <2>4 DEF Holds
    <2> QED
      BY <1>2, <2>4, <2>5
  <1> QED
    BY <1>4, <1>5

\* The regions of a process depend on its fields only.
LEMMA SameHolds ==
    ASSUME NEW r, NEW s, r.ts = s.ts
    PROVE  /\ Mmio(r) = Mmio(s) /\ Umas(r) = Umas(s)
           /\ \A n : r.index = s.index /\ r.buf = s.buf => (Holds(r, n) <=> Holds(s, n))
           /\ \A n : Listed(r, n) <=> Listed(s, n)
  <1>1. Mmio(r) = Mmio(s) /\ Umas(r) = Umas(s)
    BY DEF Mmio, Umas
  <1> QED
    BY <1>1 DEF Holds, Listed

\* Sending a request.
LEMMA RequestUp ==
    ASSUME LockInv, UpInv, NEW p \in Procs, Request(p), sim = "up"
    PROVE  UpInv'
  <1>1. PICK r : r = app[p]
    OBVIOUS
  <1>2. r.todo # <<>> /\ ~r.wait /\ r.pc \in OpenPcs /\ Process(r)
    BY <1>1, ProcessOf DEF Request, LockInv, CallsWhenOpen
  <1>3. PICK c \in Calls : Calling(p, c) /\ (c.pc = "signal" => ase_mode = "no_simkill")
    BY <1>1, <1>2 DEF UpInv, Running, InCall, Asked, Resetting, Answered
  <1>4. /\ r.pc = c.pc /\ r.todo = c.todo /\ Holds(r, c.own) /\ Listed(r, c.map)
        /\ q = NoMsgs /\ Settled(c.low) /\ (c.live => ~session_empty)
        /\ Head(r.todo) = c.op /\ PipeOf(r.pc, c.op) = c.pipe /\ c.pipe \in Pipes
    BY <1>1, <1>3, CallShape DEF Calling, At
  <1>5. PICK r1 :
          r1 = IF c.pipe = "alloc"
               THEN [r EXCEPT !.buf[c.op] = NewBuffer(r, c.op), !.index = @ + 1]
               ELSE IF c.op = "simkill" /\ r.pc = "deinit" THEN FreeBuffers(r) ELSE r
    OBVIOUS
  <1>6. PICK m : m = [op |-> c.op, by |-> p,
                      buf |-> IF c.op \in Kinds THEN r1.buf[c.op] ELSE NoBuf]
    OBVIOUS
  <1>7. /\ app' = [app EXCEPT ![p] = [r1 EXCEPT !.wait = TRUE]]
        /\ q' = [q EXCEPT !.req = Push(q.req, c.pipe, m)]
        /\ UNCHANGED <<simVars, rstVars>>
    BY <1>1, <1>4, <1>5, <1>6 DEF Request
  <1>8. /\ Process(r1) /\ r1.pc = r.pc /\ r1.todo = r.todo /\ r1.ts = r.ts
        /\ Holds(r1, c.sent)
    <2>1. CASE c.pipe = "alloc"
      <3>1. /\ c.sent = c.own + 1
            /\ \/ c.op = "mmio" /\ c.own = 0
               \/ c.op = "umas" /\ c.own = 1
        BY <2>1, AllocCall
      <3>2. r1 = [r EXCEPT !.buf[c.op] = NewBuffer(r, c.op), !.index = @ + 1]
        BY <1>5, <2>1
      <3>3. PICK n, op : n = c.own /\ op = c.op
        OBVIOUS
      <3>4. /\ (op = "mmio" /\ n = 0) \/ (op = "umas" /\ n = 1)
            /\ Holds(r, n)
        BY <1>4, <3>1, <3>3
      <3>5. /\ Process(r1) /\ r1.pc = r.pc /\ r1.todo = r.todo /\ r1.ts = r.ts
            /\ r1.index = r.index + 1
            /\ r1.buf = [r.buf EXCEPT ![op] = NewBuffer(r, op)]
        BY <1>2, <3>2, <3>3 DEF Process
      <3>6. Holds(r1, n + 1)
        BY <3>4, <3>5, AllocHolds
      <3> QED
        BY <3>1, <3>3, <3>5, <3>6
    <2>2. CASE c.pipe # "alloc" /\ c.op = "simkill" /\ r.pc = "deinit"
      <3>1. c.pipe = "portctrl" /\ c.sent = 0
        <4>1. c.pipe = "portctrl"
          BY <1>4, <2>2, DeallocCall DEF Pipes
        <4> QED
          BY <1>4, <2>2, <4>1, PortCall
      <3>2. r1 = [r EXCEPT !.index = 0, !.buf = [k \in Kinds |-> NoBuf]]
        BY <1>5, <2>2 DEF FreeBuffers
      <3>3. /\ Process(r1) /\ r1.pc = r.pc /\ r1.todo = r.todo /\ r1.ts = r.ts
            /\ r1.index = 0 /\ r1.buf = [k \in Kinds |-> NoBuf]
        BY <1>2, <3>2 DEF Process
      <3> QED
        BY <3>1, <3>3 DEF Holds
    <2>3. CASE c.pipe # "alloc" /\ ~(c.op = "simkill" /\ r.pc = "deinit")
      <3>1. c.sent = c.own
        BY <1>4, <2>3, DeallocCall, PortCall DEF Pipes
      <3> QED
        BY <1>2, <1>4, <1>5, <2>3, <3>1
    <2> QED
      BY <2>1, <2>2, <2>3
  <1>9. PICK r2 : r2 = [r1 EXCEPT !.wait = TRUE]
    OBVIOUS
  <1>10. /\ r2.pc = r.pc /\ r2.todo = r.todo /\ r2.ts = r.ts /\ r2.wait
         /\ r2.index = r1.index /\ r2.buf = r1.buf
    BY <1>8, <1>9 DEF Process
  <1>11. Holds(r2, c.sent) /\ Listed(r2, c.map)
    BY <1>4, <1>8, <1>10, SameHolds
  <1>12. app'[p] = r2 /\ \A u \in Procs : u # p => app'[u] = app[u]
    BY <1>7, <1>9 DEF LockInv, Shape
  <1>13. m = Message(p, c.op)'
    BY <1>6, <1>10, <1>12 DEF Message
  <1>14. q' = [req |-> Line(c.pipe, m), rsp |-> NoLine]
    <2>1. Push(NoLine, c.pipe, m) = Line(c.pipe, m)
      BY <1>4, PipeFacts
    <2> QED
      BY <1>4, <1>7, <2>1 DEF NoMsgs
  <1>15. Asked(p, c)'
    <2>1. At(p, c)'
      BY <1>4, <1>10, <1>12 DEF At
    <2>2. Listed(app[p], c.map)' /\ Holds(app[p], c.sent)'
      BY <1>7, <1>11, <1>12 DEF Listed, Holds, Mmio, Umas, simVars
    <2>3. Settled(c.low)' /\ (c.live => ~session_empty')
      BY <1>4, <1>7 DEF Settled, simVars, rstVars
    <2> QED
      BY <1>10, <1>12, <1>13, <1>14, <2>1, <2>2, <2>3 DEF Asked
  <1>16. app'[p].pc \in OpenPcs /\ InCall(p, c)'
    BY <1>2, <1>3, <1>7, <1>10, <1>12, <1>15 DEF InCall, simVars
  <1> QED
    BY <1>1, <1>2, <1>12, <1>16, OnlyOne, UpOne

\* What follows an answer.
LEMMA ContinueShape ==
    ASSUME NEW r, Process(r), NEW s, s = Continue(r)
    PROVE  /\ Len(r.todo) > 1 =>
                /\ s.pc = r.pc /\ s.todo = Tail(r.todo) /\ ~s.wait
                /\ s.ts = r.ts /\ s.index = r.index /\ s.buf = r.buf
           /\ ~(Len(r.todo) > 1) /\ r.pc = "init" =>
                /\ s.pc = "up" /\ s.todo = <<>> /\ ~s.wait
                /\ s.ts = r.ts /\ s.index = r.index /\ s.buf = r.buf
           /\ ~(Len(r.todo) > 1) /\ r.pc = "deinit" =>
                /\ s.pc = "idle" /\ s.todo = <<>> /\ ~s.wait
                /\ s.ts = r.ts /\ s.index = r.index /\ s.buf = r.buf
           /\ ~(Len(r.todo) > 1) /\ r.pc \notin {"init", "deinit"} => s = NewProcess
  <1>2. CASE Len(r.todo) > 1
    <2>1. s = [r EXCEPT !.todo = Tail(r.todo), !.wait = FALSE]
      BY <1>2 DEF Continue
    <2> QED
      BY <1>2, <2>1 DEF Process
  <1>3. CASE ~(Len(r.todo) > 1) /\ r.pc = "init"
    <2>1. s = [r EXCEPT !.pc = "up", !.todo = <<>>, !.wait = FALSE]
      BY <1>3 DEF Continue
    <2> QED
      BY <1>3, <2>1 DEF Process
  <1>4. CASE ~(Len(r.todo) > 1) /\ r.pc = "deinit"
    <2>1. s = [r EXCEPT !.pc = "idle", !.todo = <<>>, !.wait = FALSE]
      BY <1>4 DEF Continue
    <2> QED
      BY <1>4, <2>1 DEF Process
  <1>5. CASE ~(Len(r.todo) > 1) /\ r.pc \notin {"init", "deinit"}
    BY <1>5 DEF Continue
  <1> QED
    BY <1>2, <1>3, <1>4, <1>5

\* A process that is started again holds nothing.
LEMMA NewRest == Rest(NewProcess)
  BY NewProcessFacts DEF Rest, Holds, NewProcess

\* Reading an answer: it is the one the call waits for.
LEMMA ResponseUp ==
    ASSUME LockInv, UpInv, NEW p \in Procs, Response(p), sim = "up"
    PROVE  UpInv'
  <1>1. PICK r : r = app[p]
    OBVIOUS
  <1>2. r.wait /\ Process(r) /\ q.rsp[PipeOf(r.pc, Head(r.todo))] # <<>>
    BY <1>1, ProcessOf DEF Response
  <1>3. PICK c \in Calls : /\ Asked(p, c) \/ Resetting(p, c) \/ Answered(p, c)
                           /\ r.pc \in OpenPcs
                           /\ c.pc = "signal" => ase_mode = "no_simkill"
    BY <1>1, <1>2, WhoWaits
  <1>4. r.pc = c.pc /\ r.todo = c.todo
    BY <1>1, <1>3 DEF Asked, Resetting, Answered, At
  <1>5. Head(r.todo) = c.op /\ PipeOf(r.pc, c.op) = c.pipe /\ c.pipe \in Pipes
    BY <1>4, CallShape
  <1>6. Answered(p, c)
    <2>1. q.rsp[c.pipe] # <<>>
      BY <1>2, <1>5
    <2>2. NoLine[c.pipe] = <<>>
      BY <1>5, PipeFacts
    <2>3. q.rsp # NoLine
      BY <2>1, <2>2
    <2> QED
      BY <1>3, <2>3 DEF Asked, Resetting, NoMsgs
  <1>7. PICK m : m = Message(p, c.op)
    OBVIOUS
  <1>8. /\ Holds(r, c.sent) /\ Listed(r, c.done)
        /\ q = [req |-> NoLine, rsp |-> Line(c.pipe, m)]
        /\ Settled(c.high) /\ (c.lives => ~session_empty)
        /\ m.buf = IF c.op \in Kinds THEN r.buf[c.op] ELSE NoBuf
    BY <1>1, <1>6, <1>7 DEF Answered, Message
  <1>9. /\ Head(q.rsp[c.pipe]) = m /\ Pop(q.rsp, c.pipe) = NoLine
    BY <1>5, <1>8, PipeFacts
  <1>10. PICK r1 : r1 = CASE c.op \in Kinds    -> [r EXCEPT !.buf[c.op] = m.buf]
                          [] c.op = "ase_init" -> [r EXCEPT !.ts = tstamp]
                          [] OTHER             -> r
    OBVIOUS
  <1>11. PICK s : s = Continue(r1)
    OBVIOUS
  <1>12. /\ q' = [q EXCEPT !.rsp = Pop(q.rsp, c.pipe)]
         /\ app' = [app EXCEPT ![p] = s]
         /\ UNCHANGED <<simVars, rstVars>>
    BY <1>1, <1>5, <1>9, <1>10, <1>11 DEF Response
  <1>13. q' = NoMsgs
    BY <1>8, <1>9, <1>12 DEF NoMsgs
  <1>14. app'[p] = s /\ \A u \in Procs : u # p => app'[u] = app[u]
    BY <1>12 DEF LockInv, Shape
  <1>15. /\ Process(r1) /\ r1.pc = c.pc /\ r1.todo = c.todo
         /\ Holds(r1, c.sent) /\ Listed(r1, c.done)
    <2>1. CASE c.op \in Kinds
      <3>1. r1 = [r EXCEPT !.buf[c.op] = r.buf[c.op]]
        BY <1>8, <1>10, <2>1 DEF Kinds
      <3>2. /\ Process(r1) /\ r1.pc = r.pc /\ r1.todo = r.todo /\ r1.ts = r.ts
            /\ r1.index = r.index /\ r1.buf = [r.buf EXCEPT ![c.op] = r.buf[c.op]]
        BY <1>2, <3>1 DEF Process
      <3>3. r1.buf = r.buf
        BY <1>8, <3>2 DEF Holds
      <3> QED
        BY <1>4, <1>8, <3>2, <3>3, SameHolds
    <2>2. CASE c.op = "ase_init"
      <3>1. r1 = [r EXCEPT !.ts = tstamp]
        BY <1>10, <2>2 DEF Kinds
      <3>2. /\ Process(r1) /\ r1.pc = r.pc /\ r1.todo = r.todo
            /\ r1.index = r.index /\ r1.buf = r.buf
        BY <1>2, <3>1 DEF Process
      <3>3. c.sent = 0 /\ c.done = 0
        <4>1. c.pipe = "portctrl"
          BY <1>5, <2>2 DEF PipeOf, Kinds
        <4> QED
          BY <2>2, <4>1, PortCall
      <3>4. Holds(r1, 0)
        BY <1>8, <3>2, <3>3 DEF Holds
      <3>5. Listed(r1, 0)
        BY <1>8, <3>3 DEF Listed
      <3> QED
        BY <1>4, <3>2, <3>3, <3>4, <3>5
    <2>3. CASE c.op \notin Kinds /\ c.op # "ase_init"
      BY <1>2, <1>4, <1>8, <1>10, <2>3
    <2> QED
      BY <2>1, <2>2, <2>3
  <1>16. CASE Len(c.todo) > 1
    <2>1. PICK d \in Calls : /\ d.pc = c.pc /\ d.todo = Tail(c.todo) /\ d.own = c.sent
                             /\ d.map = c.done /\ d.low = c.high
                             /\ (d.live => c.lives) /\ c.pc # "signal"
      BY <1>16, NextCall
    <2>2. /\ s.pc = c.pc /\ s.todo = Tail(c.todo) /\ ~s.wait
          /\ s.ts = r1.ts /\ s.index = r1.index /\ s.buf = r1.buf
      BY <1>11, <1>15, <1>16, ContinueShape
    <2>3. Holds(s, d.own) /\ Listed(s, d.map)
      BY <1>15, <2>1, <2>2, SameHolds
    <2>4. Listed(app[p], d.map)' /\ Holds(app[p], d.own)'
      BY <1>12, <1>14, <2>3 DEF Listed, Holds, Mmio, Umas, simVars
    <2>5. Settled(d.low)' /\ (d.live => ~session_empty')
      BY <1>8, <1>12, <2>1 DEF Settled, simVars, rstVars
    <2>6. Calling(p, d)'
      BY <1>13, <1>14, <2>1, <2>2, <2>4, <2>5 DEF Calling, At
    <2>7. app'[p].pc \in OpenPcs /\ InCall(p, d)'
      BY <1>3, <1>4, <1>14, <2>1, <2>2, <2>6 DEF InCall
    <2> QED
      BY <1>1, <1>3, <1>14, <2>7, OnlyOne, UpOne
  <1>17. CASE ~(Len(c.todo) > 1)
    <2>1. /\ c.high = 0 /\ (c.pc = "init" => c.sent = 2 /\ c.done = 2 /\ c.lives)
          /\ (c.pc # "init" => c.done = 0) /\ (c.pc = "deinit" => c.sent = 0)
          /\ c.pc \in {"init", "deinit", "signal"}
      BY <1>17, NextCall, CallShape
    <2>2. Settled(0)'
      BY <1>8, <1>12, <2>1 DEF Settled, rstVars
    <2>3. CASE c.pc = "init"
      <3>1. /\ s.pc = "up" /\ s.todo = <<>> /\ ~s.wait
            /\ s.ts = r1.ts /\ s.index = r1.index /\ s.buf = r1.buf
        BY <1>11, <1>15, <1>17, <2>3, ContinueShape
      <3>2. Holds(s, 2) /\ Listed(s, 2)
        BY <1>15, <2>1, <2>3, <3>1, SameHolds
      <3>3. Listed(app[p], 2)' /\ Holds(app[p], 2)'
        BY <1>12, <1>14, <3>2 DEF Listed, Holds, Mmio, Umas, simVars
      <3>4. ~session_empty'
        BY <1>8, <1>12, <2>1, <2>3 DEF simVars
      <3>5. app'[p].pc \in OpenPcs /\ Running(p)'
        BY <1>13, <1>14, <2>2, <3>1, <3>3, <3>4 DEF Running, OpenPcs
      <3> QED
        BY <1>1, <1>3, <1>14, <3>5, OnlyOne, UpOne
    <2>4. CASE c.pc # "init"
      <3>1. Nothing'
        BY <1>12, <1>13, <1>15, <2>1, <2>2, <2>4 DEF Nothing, Listed, simVars
      <3>2. s.pc \notin OpenPcs /\ Rest(s)
        <4>1. CASE c.pc = "deinit"
          <5>1. /\ s.pc = "idle" /\ s.todo = <<>> /\ ~s.wait
                /\ s.ts = r1.ts /\ s.index = r1.index /\ s.buf = r1.buf
            BY <1>11, <1>15, <1>17, <4>1, ContinueShape
          <5>2. Holds(s, 0)
            BY <1>15, <2>1, <4>1, <5>1, SameHolds
          <5> QED
            BY <5>1, <5>2 DEF Rest, OpenPcs
        <4>2. CASE c.pc = "signal"
          <5>1. s = NewProcess
            BY <1>11, <1>15, <1>17, <4>2, ContinueShape
          <5> QED
            BY <5>1, NewRest, NewProcessFacts DEF OpenPcs
        <4> QED
          BY <2>1, <2>4, <4>1, <4>2
      <3> QED
        BY <1>1, <1>3, <1>14, <3>1, <3>2, OnlyOne, UpOne
    <2> QED
      BY <2>3, <2>4
  <1> QED
    BY <1>16, <1>17

\* session_deinit begins.
LEMMA CloseUp ==
    ASSUME LockInv, UpInv, NEW p \in Procs, Close(p), sim = "up"
    PROVE  UpInv'
  <1>1. PICK r : r = app[p]
    OBVIOUS
  <1>2. PICK s : s = [r EXCEPT !.pc = "deinit", !.todo = DeinitScript]
    OBVIOUS
  <1>3. /\ r.pc = "up" /\ app' = [app EXCEPT ![p] = s] /\ Process(r)
        /\ UNCHANGED <<q, simVars, rstVars>>
    BY <1>1, <1>2, ProcessOf DEF Close, LockInv, Shape
  <1>4. app'[p] = s /\ \A u \in Procs : u # p => app'[u] = app[u]
    BY <1>3 DEF LockInv, Shape
  <1>5. /\ s.pc = "deinit" /\ s.todo = DeinitScript /\ s.wait = r.wait
        /\ s.ts = r.ts /\ s.index = r.index /\ s.buf = r.buf
    BY <1>2, <1>3 DEF Process
  <1>6. Running(p)
    <2>1. r.pc \in OpenPcs /\ \A c \in Calls : c.pc # "up"
      BY <1>3, CallShape DEF OpenPcs
    <2> QED
      BY <1>1, <1>3, <2>1 DEF UpInv, InCall, Calling, Asked, Resetting, Answered, At
  <1>7. PICK c \in Calls : c = DeallocUmas
    BY DEF Calls
  <1>8. /\ c.pc = "deinit" /\ c.todo = DeinitScript /\ c.own = 2 /\ c.map = 2 /\ c.low = 0
        /\ c.live
    BY <1>7 DEF DeallocUmas, Call
  <1>9. Holds(s, 2) /\ Listed(s, 2)
    BY <1>1, <1>5, <1>6, SameHolds DEF Running
  <1>10. Listed(app[p], 2)' /\ Holds(app[p], 2)'
    BY <1>3, <1>4, <1>9 DEF Listed, Holds, Mmio, Umas, simVars
  <1>11. Calling(p, c)'
    BY <1>1, <1>3, <1>4, <1>5, <1>6, <1>8, <1>10
       DEF Calling, Running, At, Settled, simVars, rstVars
  <1>12. app'[p].pc \in OpenPcs /\ InCall(p, c)'
    BY <1>4, <1>5, <1>8, <1>11 DEF InCall, OpenPcs
  <1>13. app[p].pc \in OpenPcs
    BY <1>1, <1>3 DEF OpenPcs
  <1> QED
    BY <1>4, <1>12, <1>13, OnlyOne, UpOne

\* CTRL-C in an established session of mode 1: send_simkill begins.
LEMMA SignalUp ==
    ASSUME LockInv, UpInv, NEW p \in Procs, Signal(p), sim = "up",
           app[p].pc = "up", ase_mode = "no_simkill"
    PROVE  UpInv'
  <1>1. PICK r : r = app[p]
    OBVIOUS
  <1>2. PICK s : s = [r EXCEPT !.pc = "signal", !.todo = Kill1, !.wait = FALSE]
    OBVIOUS
  <1>3. /\ r.pc = "up" /\ app' = [app EXCEPT ![p] = s] /\ Process(r)
        /\ UNCHANGED <<q, simVars, rstVars>>
    BY <1>1, <1>2, ProcessOf DEF Signal, LockInv, Shape, Kill1
  <1>4. app'[p] = s /\ \A u \in Procs : u # p => app'[u] = app[u]
    BY <1>3 DEF LockInv, Shape
  <1>5. /\ s.pc = "signal" /\ s.todo = Kill1 /\ ~s.wait
        /\ s.ts = r.ts /\ s.index = r.index /\ s.buf = r.buf
    BY <1>2, <1>3 DEF Process
  <1>6. Running(p)
    <2>1. r.pc \in OpenPcs /\ \A c \in Calls : c.pc # "up"
      BY <1>3, CallShape DEF OpenPcs
    <2> QED
      BY <1>1, <1>3, <2>1 DEF UpInv, InCall, Calling, Asked, Resetting, Answered, At
  <1>7. PICK c \in Calls : c = SignalCall
    BY DEF Calls
  <1>8. /\ c.pc = "signal" /\ c.todo = Kill1 /\ c.own = 2 /\ c.map = 2 /\ c.low = 0
        /\ c.live
    BY <1>7 DEF SignalCall, Call
  <1>9. Holds(s, 2) /\ Listed(s, 2)
    BY <1>1, <1>5, <1>6, SameHolds DEF Running
  <1>10. Listed(app[p], 2)' /\ Holds(app[p], 2)'
    BY <1>3, <1>4, <1>9 DEF Listed, Holds, Mmio, Umas, simVars
  <1>11. Calling(p, c)'
    BY <1>1, <1>3, <1>4, <1>5, <1>6, <1>8, <1>10
       DEF Calling, Running, At, Settled, simVars, rstVars
  <1>12. app'[p].pc \in OpenPcs /\ InCall(p, c)'
    BY <1>3, <1>4, <1>5, <1>8, <1>11 DEF InCall, OpenPcs, simVars
  <1>13. app[p].pc \in OpenPcs
    BY <1>1, <1>3 DEF OpenPcs
  <1> QED
    BY <1>4, <1>12, <1>13, OnlyOne, UpOne

-----------------------------------------------------------------------------
(* Starting an application, while the simulator is up. *)

\* The check of the lock file finds no session.
LEMMA CheckLockUp ==
    ASSUME LockInv, UpInv, NEW p \in Procs, CheckLock(p)
    PROVE  UpInv'
  <1>1. PICK r : r = app[p]
    OBVIOUS
  <1>2. PICK s : s = [r EXCEPT !.pc = "checked"]
    OBVIOUS
  <1>3. /\ r.pc = "idle" /\ lock \in {"none", "stale"} /\ Process(r)
        /\ app' = [app EXCEPT ![p] = s] /\ UNCHANGED <<q, simVars, rstVars>>
    BY <1>1, <1>2, ProcessOf DEF CheckLock, LockInv, Shape
  <1>4. \A u \in Procs : app[u].pc \notin OpenPcs
    BY <1>3, SessionAssumption DEF LockInv, HoldsLock
  <1>5. app'[p] = s /\ \A u \in Procs : u # p => app'[u] = app[u]
    BY <1>3 DEF LockInv, Shape
  <1>6. /\ s.pc = "checked" /\ s.todo = r.todo /\ s.wait = r.wait
        /\ s.ts = r.ts /\ s.index = r.index /\ s.buf = r.buf
    BY <1>2, <1>3 DEF Process
  <1>7. Rest(r)
    BY <1>1, <1>4 DEF UpInv
  <1>8. Rest(s) /\ s.pc \notin OpenPcs
    BY <1>6, <1>7, SameHolds DEF Rest, OpenPcs
  <1>9. Nothing'
    BY <1>3, <1>4 DEF UpInv, Nothing, Settled, simVars, rstVars
  <1> QED
    BY <1>4, <1>5, <1>8, <1>9, UpOne

\* session_init begins.
LEMMA CreateLockUp ==
    ASSUME LockInv, UpInv, NEW p \in Procs, CreateLock(p), sim = "up"
    PROVE  UpInv'
  <1>1. PICK r : r = app[p]
    OBVIOUS
  <1>2. PICK s : s = [r EXCEPT !.pc = "init", !.todo = InitScript]
    OBVIOUS
  <1>3. /\ r.pc = "checked" /\ app' = [app EXCEPT ![p] = s] /\ Process(r)
        /\ UNCHANGED <<q, simVars, rstVars>>
    BY <1>1, <1>2, ProcessOf DEF CreateLock, LockInv, Shape
  <1>4. \A u \in Procs : app[u].pc \notin OpenPcs
    BY <1>1, <1>3 DEF LockInv, CheckedAlone, OpenPcs
  <1>5. app'[p] = s /\ \A u \in Procs : u # p => app'[u] = app[u]
    BY <1>3 DEF LockInv, Shape
  <1>6. /\ s.pc = "init" /\ s.todo = InitScript /\ s.wait = r.wait
        /\ s.ts = r.ts /\ s.index = r.index /\ s.buf = r.buf
    BY <1>2, <1>3 DEF Process
  <1>7. Rest(r) /\ Nothing
    BY <1>1, <1>4 DEF UpInv
  <1>8. PICK c \in Calls : c = ResetHigh
    BY DEF Calls
  <1>9. /\ c.pc = "init" /\ c.todo = InitScript /\ c.own = 0 /\ c.map = 0 /\ c.low = 0
        /\ ~c.live
    BY <1>8 DEF ResetHigh, Call
  <1>10. Holds(s, 0)
    BY <1>6, <1>7, SameHolds DEF Rest
  <1>11. Listed(app[p], 0)' /\ Holds(app[p], 0)'
    BY <1>3, <1>5, <1>7, <1>10 DEF Listed, Holds, Nothing, Mmio, Umas, simVars
  <1>12. q' = NoMsgs /\ Settled(0)'
    BY <1>3, <1>7 DEF Nothing, Settled, rstVars
  <1>13. Calling(p, c)'
    BY <1>5, <1>6, <1>7, <1>9, <1>11, <1>12 DEF Calling, At, Rest
  <1>14. app'[p].pc \in OpenPcs /\ InCall(p, c)'
    BY <1>5, <1>6, <1>9, <1>13 DEF InCall, OpenPcs
  <1> QED
    BY <1>4, <1>5, <1>14, UpOne

-----------------------------------------------------------------------------
(* The steps of the simulator. *)

\* The request that is read, and the pipes after it and after its answer.
LEMMA PopAsked ==
    ASSUME LockInv, NEW p \in Procs, app[p].pc \in OpenPcs, NEW c \in Calls, Asked(p, c)
    PROVE  /\ Head(q.req[c.pipe]) = Message(p, c.op) /\ Pop(q.req, c.pipe) = NoLine
           /\ q.rsp = NoLine
           /\ Open # {}
           /\ \A m : Sent(NoLine, c.pipe, m) = [req |-> NoLine, rsp |-> Line(c.pipe, m)]
  <1>1. c.pipe \in Pipes
    BY CallShape
  <1>2. q.req = Line(c.pipe, Message(p, c.op)) /\ q.rsp = NoLine
    BY DEF Asked
  <1>3. Open # {}
    BY OnlyOne
  <1>4. ASSUME NEW m
        PROVE  Sent(NoLine, c.pipe, m) = [req |-> NoLine, rsp |-> Line(c.pipe, m)]
    <2>1. Push(NoLine, c.pipe, m) = Line(c.pipe, m)
      BY <1>1, PipeFacts
    <2> QED
      BY <1>2, <1>3, <2>1 DEF Sent
  <1>5. Head(q.req[c.pipe]) = Message(p, c.op) /\ Pop(q.req, c.pipe) = NoLine
    BY <1>1, <1>2, PipeFacts
  <1> QED
    BY <1>2, <1>3, <1>4, <1>5

\* The invariant after an answer.
LEMMA AnswerUp ==
    ASSUME LockInv, UpInv, UNCHANGED <<app, ase_mode>>,
           NEW p \in Procs, app[p].pc \in OpenPcs, NEW c \in Calls, Asked(p, c),
           c.pc = "signal" => ase_mode = "no_simkill",
           q' = [req |-> NoLine, rsp |-> Line(c.pipe, Message(p, c.op))],
           Listed(app[p], c.done)', Settled(c.high)', c.lives => ~session_empty'
    PROVE  UpInv'
  <1>1. At(p, c)' /\ app'[p].wait
    BY DEF Asked, At
  <1>2. Holds(app[p], c.sent)'
    BY DEF Asked, Holds, Mmio, Umas
  <1>3. q' = [req |-> NoLine, rsp |-> Line(c.pipe, Message(p, c.op)')]
    BY DEF Message
  <1>4. Answered(p, c)'
    BY <1>1, <1>2, <1>3 DEF Answered
  <1>5. InCall(p, c)'
    BY <1>4 DEF InCall
  <1> QED
    BY <1>5, UpSim

\* The answer in a pipe is for the call that waits for it.
LEMMA UpDown ==
    ASSUME LockInv, UpInv
    PROVE  DownInv
  <1>1. \A p \in Procs : app[p].pc = "up" => ~app[p].wait
    <2>1. \A c \in Calls : c.pc # "up"
      BY CallShape
    <2> QED
      BY <2>1 DEF UpInv, OpenPcs, Running, InCall, Calling, Asked, Resetting, Answered, At
  <1>2. /\ q = [req |-> q.req, rsp |-> q.rsp]
        /\ q.rsp = NoLine \/ \E p \in Procs : LastAnswer(p)
    <2>1. CASE q = NoMsgs
      BY <2>1 DEF NoMsgs
    <2>2. CASE q # NoMsgs
      <3>1. PICK p \in Procs : app[p].pc \in OpenPcs
        BY <2>2 DEF UpInv, Nothing
      <3>2. PICK c \in Calls : InCall(p, c)
        BY <2>2, <3>1 DEF UpInv, Running
      <3>3. CASE Asked(p, c)
        BY <3>3 DEF Asked
      <3>4. CASE Answered(p, c)
        <4>1. PICK r, m : r = app[p] /\ m = Message(p, c.op)
          OBVIOUS
        <4>2. /\ r.wait /\ r.pc = c.pc /\ r.todo = c.todo
              /\ Holds(r, c.sent) /\ Listed(r, c.done)
              /\ q = [req |-> NoLine, rsp |-> Line(c.pipe, m)]
          BY <3>4, <4>1 DEF Answered, At
        <4>3. /\ Head(r.todo) = c.op /\ PipeOf(r.pc, c.op) = c.pipe
              /\ r.pc \in OpenPcs \ {"up"}
          BY <4>2, CallShape
        <4>4. ASSUME c.pipe = "dealloc"
              PROVE  m.buf \notin Range(head)
          <5>1. /\ c.sent = 2
                /\ \/ c.op = "umas" /\ c.done = 1
                   \/ c.op = "mmio" /\ c.done = 0
            BY <4>4, DeallocCall
          <5>2. m.buf = r.buf[c.op] /\ Holds(r, 2)
            BY <4>1, <4>2, <5>1 DEF Message, Kinds
          <5>3. CASE c.op = "umas" /\ c.done = 1
            <6>1. m.buf = Umas(r) /\ Umas(r) # Mmio(r) /\ head = <<Mmio(r)>>
              BY <4>2, <5>2, <5>3, HoldsFacts DEF Listed
            <6> QED
              BY <6>1 DEF Range
          <5>4. CASE c.op = "mmio" /\ c.done = 0
            <6>1. head = <<>>
              BY <4>2, <5>4 DEF Listed
            <6> QED
              BY <6>1 DEF Range
          <5> QED
            BY <5>1, <5>3, <5>4
        <4>5. LastAnswer(p)
          BY <4>1, <4>2, <4>3, <4>4 DEF LastAnswer
        <4> QED
          BY <4>2, <4>5
      <3> QED
        BY <2>2, <3>2, <3>3, <3>4 DEF InCall, Calling, Resetting
    <2> QED
      BY <2>1, <2>2
  <1> QED
    BY <1>1, <1>2 DEF DownInv

\* ase_reset_fsm.
LEMMA ResetEdgeUp ==
    ASSUME LockInv, UpInv, ResetEdge
    PROVE  UpInv'
  <1>1. /\ app_reset_trig # app_reset_trig_q /\ app_reset_trig_q' = app_reset_trig
        /\ rst_state' = "busy"
        /\ UNCHANGED <<app, q, head, csr_umsg_base, app_reset_trig, rst_by>>
    BY DEF ResetEdge, appVars, simVars
  <1>2. PICK p \in Procs, c \in Calls :
          Resetting(p, c) /\ app[p].pc \in OpenPcs /\ c.pc # "signal"
    BY <1>1, WhoResets
  <1>3. Holds(app[p], c.sent)' /\ Listed(app[p], c.done)' /\ At(p, c)'
    BY <1>1, <1>2 DEF Resetting, Holds, Listed, At, Mmio, Umas
  <1>4. Resetting(p, c)'
    BY <1>1, <1>2, <1>3 DEF Resetting
  <1>5. InCall(p, c)'
    BY <1>2, <1>4 DEF InCall
  <1> QED
    BY <1>1, <1>2, <1>5, UpSim
LEMMA ResetDoneUp ==
    ASSUME LockInv, UpInv, ResetDone
    PROVE  UpInv' /\ sim' = "up"
  <1>1. /\ rst_state = "busy" /\ sim = "up"
        /\ rst_state' = "idle" /\ app_reset_trig_q' = app_reset_trig
        /\ UNCHANGED <<app, head, csr_umsg_base, app_reset_trig, rst_by>>
    BY DEF ResetDone, appVars
  <1>2. PICK p \in Procs, c \in Calls :
          Resetting(p, c) /\ app[p].pc \in OpenPcs /\ c.pc # "signal"
    BY <1>1, WhoResets
  <1>3. Open # {}
    BY <1>2, OnlyOne
  <1>4. /\ q = NoMsgs /\ app_reset_trig = c.high /\ rst_by = p
        /\ c.op \in {"reset_high", "reset_low"}
    BY <1>2 DEF Resetting
  <1>5. /\ c.pipe = "portctrl" /\ ~c.lives
        /\ c.op = IF c.high = 1 THEN "reset_high" ELSE "reset_low"
    <2>1. c.pipe = "portctrl"
      BY <1>4, CallShape DEF PipeOf, Kinds
    <2> QED
      BY <1>4, <2>1, PortCall
  <1>6. PICK m : m = [op |-> c.op, by |-> p, buf |-> NoBuf]
    OBVIOUS
  <1>7. m = Message(p, c.op)'
    BY <1>4, <1>6 DEF Message, Kinds
  <1>8. SimSend(q.req, "portctrl", m)
    BY <1>4, <1>5, <1>6 DEF ResetDone
  <1>9. q' = [req |-> NoLine, rsp |-> Line(c.pipe, m)] /\ sim' = "up"
    <2>1. Push(NoLine, c.pipe, m) = Line(c.pipe, m)
      BY <1>5, PipeFacts DEF Pipes
    <2>2. q.req = NoLine /\ q.rsp = NoLine
      BY <1>4 DEF NoMsgs
    <2> QED
      BY <1>1, <1>3, <1>5, <1>8, <2>1, <2>2 DEF SimSend, Sent
  <1>10. Holds(app[p], c.sent)' /\ Listed(app[p], c.done)' /\ At(p, c)' /\ app'[p].wait
    BY <1>1, <1>2 DEF Resetting, Holds, Listed, At, Mmio, Umas
  <1>11. Settled(c.high)'
    BY <1>1, <1>4 DEF Settled
  <1>12. Answered(p, c)'
    BY <1>5, <1>7, <1>9, <1>10, <1>11 DEF Answered
  <1>13. InCall(p, c)'
    BY <1>2, <1>12 DEF InCall
  <1> QED
    BY <1>1, <1>2, <1>9, <1>13, UpSim

\* ll_append_buffer on a list with one region.
LEMMA AppendOne ==
    ASSUME NEW a, NEW b
    PROVE  Append(<<a>>, b) = <<a, b>>
  <1>1. PICK S : S = {a, b}
    OBVIOUS
  <1>2. <<a>> \in Seq(S) /\ b \in S /\ Len(<<a>>) = 1
    BY <1>1
  <1>3. PICK z : z = Append(<<a>>, b)
    OBVIOUS
  <1>4. z \in Seq(S) /\ Len(z) = 2 /\ z[1] = a /\ z[2] = b
    BY <1>2, <1>3
  <1>5. z = <<a, b>>
    BY ONLY <1>4
  <1> QED
    BY <1>3, <1>5

\* Allocation: the registers written after the answer lie in the MMIO region.
LEMMA AllocUp ==
    ASSUME LockInv, UpInv, ListenAlloc
    PROVE  UpInv' /\ sim' = "up"
  <1>1. q.req["alloc"] # <<>> /\ "alloc" \in Pipes
    BY DEF ListenAlloc, Pipes
  <1>2. PICK p \in Procs, c \in Calls :
          /\ Asked(p, c) /\ c.pipe = "alloc" /\ app[p].pc \in OpenPcs
          /\ c.pc = "signal" => ase_mode = "no_simkill"
    BY <1>1, WhoAsked
  <1>3. PICK r, m : r = app[p] /\ m = Message(p, c.op)
    OBVIOUS
  <1>4. /\ Head(q.req["alloc"]) = m /\ Pop(q.req, "alloc") = NoLine /\ Open # {}
        /\ Sent(NoLine, "alloc", m) = [req |-> NoLine, rsp |-> Line(c.pipe, m)]
    BY <1>2, <1>3, PopAsked
  <1>5. /\ head' = Append(head, m.buf)
        /\ q' = [req |-> NoLine, rsp |-> Line(c.pipe, m)]
        /\ csr_umsg_base' = IF m.buf.index = 0 THEN m.buf ELSE csr_umsg_base
        /\ UNCHANGED <<app, ase_mode, session_empty, app_reset_trig, app_reset_trig_q,
                       rst_state>>
    BY <1>4 DEF ListenAlloc, ase_shmem_alloc_action, ll_append_buffer, appVars, rstVars
  <1>6. sim' = CASE Open = {} -> "exit"
                 [] Open # {} /\ ~(m.buf.index = 0) /\ update_fme_dfh_faults(m) -> "segv"
                 [] OTHER -> "up"
    BY <1>4 DEF ListenAlloc
  <1>7. /\ c.pc = "init" /\ c.low = 0 /\ c.high = 0 /\ c.live /\ c.lives
        /\ \/ c.op = "mmio" /\ c.sent = 1 /\ c.map = 0 /\ c.done = 1
           \/ c.op = "umas" /\ c.sent = 2 /\ c.map = 1 /\ c.done = 2
    BY <1>2, AllocCall
  <1>8. Holds(r, c.sent) /\ Listed(r, c.map) /\ Settled(0) /\ ~session_empty
    BY <1>2, <1>3, <1>7 DEF Asked
  <1>9. m.op = c.op /\ m.buf = r.buf[c.op]
    BY <1>3, <1>7 DEF Message, Kinds
  <1>10. Listed(r, c.done)' /\ sim' = "up"
    <2>1. CASE c.op = "mmio" /\ c.sent = 1 /\ c.map = 0 /\ c.done = 1
      <3>0. Holds(r, 1) /\ Listed(r, 0) /\ m.buf = r.buf["mmio"]
        BY <1>8, <1>9, <2>1
      <3>1. m.buf = Mmio(r) /\ m.buf.index = 0 /\ head = <<>>
        BY <3>0, HoldsFacts DEF Listed
      <3>2. head' = <<Mmio(r)>> /\ csr_umsg_base' = Mmio(r)
        BY <1>5, <3>1
      <3>3. sim' = "up"
        BY <1>4, <1>6, <3>1
      <3> QED
        BY <2>1, <3>2, <3>3 DEF Listed
    <2>2. CASE c.op = "umas" /\ c.sent = 2 /\ c.map = 1 /\ c.done = 2
      <3>1. m.buf = Umas(r) /\ m.buf.index = 1 /\ head = <<Mmio(r)>>
            /\ csr_umsg_base = Mmio(r)
        <4>1. Holds(r, 2) /\ Listed(r, 1) /\ m.buf = r.buf["umas"]
          BY <1>8, <1>9, <2>2
        <4>2. /\ m.buf = Umas(r) /\ m.buf.index = 1
              /\ Mmio(r).index = 0 /\ Umas(r).index = 1
          BY <4>1, HoldsFacts
        <4>3. head = <<Mmio(r)>> /\ csr_umsg_base = Mmio(r)
          BY <4>1 DEF Listed
        <4> QED
          BY <4>1, <4>2, <4>3
      <3>2. head' = <<Mmio(r), Umas(r)>> /\ csr_umsg_base' = Mmio(r)
        <4>1. PICK a, b : a = Mmio(r) /\ b = Umas(r)
          OBVIOUS
        <4>2. Append(<<a>>, b) = <<a, b>>
          BY AppendOne
        <4> QED
          BY <1>5, <3>1, <4>1, <4>2
      <3>3. csr_umsg_base \in Range(head)
        BY <3>1 DEF Range
      <3>4. sim' = "up"
        BY <1>4, <1>6, <3>3 DEF update_fme_dfh_faults
      <3> QED
        BY <2>2, <3>2, <3>4 DEF Listed
    <2> QED
      BY <1>7, <2>1, <2>2
  <1>11. Listed(app[p], c.done)'
    BY <1>3, <1>5, <1>10 DEF Listed, Mmio, Umas
  <1>12. Settled(c.high)' /\ ~session_empty'
    BY <1>5, <1>7, <1>8 DEF Settled
  <1>13. q' = [req |-> NoLine, rsp |-> Line(c.pipe, Message(p, c.op))]
    BY <1>3, <1>5
  <1>14. UNCHANGED <<app, ase_mode>>
    BY <1>5
  <1>15. UpInv'
    BY <1>2, <1>11, <1>12, <1>13, <1>14, AnswerUp
  <1> QED
    BY <1>10, <1>15

\* Deallocation: the region the caller names is found and sent back.
LEMMA DeallocUp ==
    ASSUME LockInv, UpInv, ListenDealloc
    PROVE  UpInv' /\ sim' = "up"
  <1>1. q.req["dealloc"] # <<>> /\ "dealloc" \in Pipes /\ sim = "up"
    BY DEF ListenDealloc, Pipes
  <1>2. PICK p \in Procs, c \in Calls :
          /\ Asked(p, c) /\ c.pipe = "dealloc" /\ app[p].pc \in OpenPcs
          /\ c.pc = "signal" => ase_mode = "no_simkill"
    BY <1>1, WhoAsked
  <1>3. PICK r, m : r = app[p] /\ m = Message(p, c.op)
    OBVIOUS
  <1>4. /\ Head(q.req["dealloc"]) = m /\ Pop(q.req, "dealloc") = NoLine /\ Open # {}
        /\ Sent(NoLine, "dealloc", m) = [req |-> NoLine, rsp |-> Line(c.pipe, m)]
    BY <1>2, <1>3, PopAsked
  <1>5. /\ ase_shmem_dealloc_action(NoLine, m)
        /\ UNCHANGED <<app, ase_mode, csr_umsg_base, session_empty, app_reset_trig,
                       app_reset_trig_q, rst_state>>
    BY <1>4 DEF ListenDealloc, appVars, rstVars
  <1>6. /\ c.low = 0 /\ c.high = 0 /\ c.live /\ c.lives /\ c.sent = 2
        /\ \/ c.op = "umas" /\ c.map = 2 /\ c.done = 1
           \/ c.op = "mmio" /\ c.map = 1 /\ c.done = 0
    BY <1>2, DeallocCall
  <1>7. Holds(r, 2) /\ Listed(r, c.map) /\ Settled(0) /\ ~session_empty
    BY <1>2, <1>3, <1>6 DEF Asked
  <1>8. m.op = c.op /\ m.buf = r.buf[c.op] /\ m = [op |-> m.op, by |-> m.by, buf |-> m.buf]
    BY <1>3, <1>6 DEF Message, Kinds
  <1>9. PICK i : i = ll_search_buffer(m.buf.index)
    OBVIOUS
  <1>10. /\ i # 0 /\ head[i] = m.buf
         /\ c.done = 0 => ll_remove_buffer(i) = <<>>
         /\ c.done = 1 => ll_remove_buffer(i) = <<Mmio(r)>>
         /\ c.done \in {0, 1}
         /\ csr_umsg_base = Mmio(r)
    <2>1. CASE c.op = "umas" /\ c.map = 2 /\ c.done = 1
      <3>1. /\ m.buf = Umas(r) /\ m.buf.index = 1 /\ head = <<Mmio(r), Umas(r)>>
            /\ csr_umsg_base = Mmio(r) /\ Mmio(r).index = 0 /\ Umas(r).index = 1
        <4>1. Holds(r, 2) /\ Listed(r, 2) /\ m.buf = r.buf["umas"]
          BY <1>7, <1>8, <2>1
        <4>2. /\ m.buf = Umas(r) /\ m.buf.index = 1
              /\ Mmio(r).index = 0 /\ Umas(r).index = 1
          BY <4>1, HoldsFacts
        <4>3. head = <<Mmio(r), Umas(r)>> /\ csr_umsg_base = Mmio(r)
          BY <4>1 DEF Listed
        <4> QED
          BY <4>1, <4>2, <4>3
      <3>2. /\ ll_search_buffer(1) = 2 /\ head[2] = Umas(r)
            /\ ll_remove_buffer(2) = <<Mmio(r)>>
        BY <3>1, TwoListed
      <3> QED
        BY <1>9, <2>1, <3>1, <3>2
    <2>2. CASE c.op = "mmio" /\ c.map = 1 /\ c.done = 0
      <3>1. /\ m.buf = Mmio(r) /\ m.buf.index = 0 /\ head = <<Mmio(r)>>
            /\ csr_umsg_base = Mmio(r) /\ Mmio(r).index = 0
        <4>1. Holds(r, 2) /\ Listed(r, 1) /\ m.buf = r.buf["mmio"]
          BY <1>7, <1>8, <2>2
        <4>2. /\ m.buf = Mmio(r) /\ m.buf.index = 0
              /\ Mmio(r).index = 0 /\ Umas(r).index = 1
          BY <4>1, HoldsFacts
        <4>3. head = <<Mmio(r)>> /\ csr_umsg_base = Mmio(r)
          BY <4>1 DEF Listed
        <4> QED
          BY <4>1, <4>2, <4>3
      <3>2. /\ ll_search_buffer(0) = 1 /\ head[1] = Mmio(r)
            /\ ll_remove_buffer(1) = <<>>
        BY <3>1, OneListed
      <3> QED
        BY <1>9, <2>2, <3>1, <3>2
    <2> QED
      BY <1>6, <2>1, <2>2
  <1>11. [m EXCEPT !.buf = head[i]] = m
    BY <1>8, <1>10
  <1>12. head' = ll_remove_buffer(i) /\ SimSend(NoLine, "dealloc", m)
    BY <1>5, <1>9, <1>10, <1>11 DEF ase_shmem_dealloc_action
  <1>13. q' = [req |-> NoLine, rsp |-> Line(c.pipe, m)] /\ sim' = "up"
    BY <1>1, <1>4, <1>12 DEF SimSend
  <1>14. Listed(app[p], c.done)'
    <2>1. Listed(r, c.done)'
      BY <1>5, <1>10, <1>12 DEF Listed
    <2> QED
      BY <1>3, <1>5, <2>1 DEF Listed, Mmio, Umas
  <1>15. Settled(c.high)' /\ ~session_empty'
    BY <1>5, <1>6, <1>7 DEF Settled
  <1>16. q' = [req |-> NoLine, rsp |-> Line(c.pipe, Message(p, c.op))]
    BY <1>3, <1>13
  <1>17. UNCHANGED <<app, ase_mode>>
    BY <1>5
  <1>18. UpInv'
    BY <1>2, <1>14, <1>15, <1>16, <1>17, AnswerUp
  <1> QED
    BY <1>13, <1>18

\* AFU_RESET: the reset state machine gets the new level.
LEMMA ListenReset ==
    ASSUME LockInv, UpInv, NEW p \in Procs, app[p].pc \in OpenPcs,
           NEW c \in Calls, Asked(p, c), c.pipe = "portctrl",
           c.op \in {"reset_high", "reset_low"},
           app_reset_trig' = IF c.op = "reset_high" THEN 1 ELSE 0, rst_by' = p,
           q' = [q EXCEPT !.req = NoLine],
           UNCHANGED <<app, head, csr_umsg_base, app_reset_trig_q, rst_state>>
    PROVE  UpInv'
  <1>1. /\ c.pc # "signal" /\ c.map = 0 /\ c.done = 0
        /\ c.high = IF c.op = "reset_high" THEN 1 ELSE 0
    BY DEF Calls, Call, ResetHigh, ResetLow, AseInit, AllocMmio, AllocUmas, UmsgMode,
           DeallocUmas, DeallocMmio, SimKillCall, SignalCall
  <1>2. q' = NoMsgs
    BY DEF Asked, NoMsgs
  <1>3. At(p, c)' /\ app'[p].wait /\ Holds(app[p], c.sent)'
    BY DEF Asked, At, Holds, Mmio, Umas
  <1>4. Listed(app[p], c.done)'
    BY <1>1 DEF Asked, Listed
  <1>5. app_reset_trig_q' = c.low /\ rst_state' = "idle"
    BY DEF Asked, Settled
  <1>6. Resetting(p, c)'
    BY <1>1, <1>2, <1>3, <1>4, <1>5 DEF Resetting
  <1>7. InCall(p, c)'
    BY <1>1, <1>6 DEF InCall
  <1> QED
    BY <1>7, UpSim

\* The end of the simulation by SIMKILL: what is left is at most its answer.
LEMMA TeardownDown ==
    ASSUME LockInv, NEW p \in Procs, app[p].pc \in OpenPcs,
           NEW c \in Calls, Asked(p, c), c.pipe = "portctrl", UNCHANGED app, UpInv,
           Teardown(NoLine, Message(p, c.op))
    PROVE  DownInv' /\ sim' = "exit"
  <1>1. PICK m : m = Message(p, c.op)
    OBVIOUS
  <1>2. q.rsp = NoLine /\ Open # {} /\ q = [req |-> q.req, rsp |-> NoLine]
    BY PopAsked DEF Asked
  <1>3. Push(NoLine, "portctrl", m) = Line("portctrl", m)
    BY PipeFacts DEF Pipes
  <1>4. /\ sim' = "exit"
        /\ \/ q' = [req |-> NoLine, rsp |-> Line("portctrl", m)]
           \/ q' = [q EXCEPT !.req = NoLine]
    BY <1>1, <1>2, <1>3 DEF Teardown
  <1>5. q' = [req |-> NoLine, rsp |-> q'.rsp]
    BY <1>2, <1>4
  <1>6. \A u \in Procs : app'[u].pc = "up" => ~app'[u].wait
    BY UpDown DEF DownInv
  <1>7. CASE q' = [req |-> NoLine, rsp |-> Line("portctrl", m)]
    <2>1. /\ app'[p].wait /\ app'[p].pc = c.pc /\ app'[p].todo = c.todo
      BY DEF Asked, At
    <2>2. /\ Head(c.todo) = c.op /\ PipeOf(c.pc, c.op) = "portctrl"
          /\ c.pc \in OpenPcs \ {"up"}
      BY CallShape
    <2>3. Message(p, c.op)' = m
      BY <1>1 DEF Message
    <2>4. q'.rsp = Line("portctrl", m)
      BY <1>7
    <2>5. LastAnswer(p)'
      BY <2>1, <2>2, <2>3, <2>4 DEF LastAnswer
    <2> QED
      BY <1>4, <1>5, <1>6, <2>5 DEF DownInv
  <1>8. CASE q' = [q EXCEPT !.req = NoLine]
    <2>1. q'.rsp = NoLine
      BY <1>2, <1>8
    <2> QED
      BY <1>4, <1>5, <1>6, <2>1 DEF DownInv
  <1> QED
    BY <1>4, <1>7, <1>8

\* ASE_SIMKILL, by mode.
LEMMA SimKillUp ==
    ASSUME LockInv, UpInv, CountInv, sim = "up",
           NEW p \in Procs, app[p].pc \in OpenPcs,
           NEW c \in Calls, Asked(p, c), c.pipe = "portctrl", c.op = "simkill",
           c.pc = "signal" => ase_mode = "no_simkill",
           UNCHANGED <<app, ase_mode, csr_umsg_base>>,
           SimKill(NoLine, Message(p, c.op))
    PROVE  CountInv' /\ EndsAsConfigured' /\ IF sim' = "up" THEN UpInv' ELSE DownInv'
  <1>1. PICK m : m = Message(p, c.op)
    OBVIOUS
  <1>2. /\ Open # {} /\ Sent(NoLine, "portctrl", m) = [req |-> NoLine, rsp |-> Line(c.pipe, m)]
    BY <1>1, PopAsked
  <1>3. /\ c.low = 0 /\ c.high = 0 /\ c.live /\ ~c.lives /\ c.done = 0
        /\ c.pc # "signal" => c.map = 0
    BY PortCall
  <1>4. Settled(0) /\ ~session_empty /\ Listed(app[p], c.map)
    BY <1>3 DEF Asked
  <1>5. glbl_test_cmplt_cnt' = glbl_test_cmplt_cnt + 1 /\ glbl_test_cmplt_cnt' \in Nat
    BY DEF SimKill, CountInv
  <1>6. ASSUME SimSend(NoLine, "portctrl", m), head' = <<>>, Settled(0)',
               ase_mode = "regression" => glbl_test_cmplt_cnt' < NumTests
        PROVE  CountInv' /\ EndsAsConfigured' /\ UpInv' /\ sim' = "up"
    <2>1. q' = [req |-> NoLine, rsp |-> Line(c.pipe, Message(p, c.op))] /\ sim' = "up"
      BY <1>1, <1>2, <1>6 DEF SimSend
    <2>2. Listed(app[p], c.done)'
      BY <1>3, <1>6 DEF Listed
    <2>3. Settled(c.high)' /\ ~c.lives
      BY <1>3, <1>6
    <2>4. UpInv'
      BY <2>1, <2>2, <2>3, AnswerUp
    <2>5. CountInv'
      BY <1>5, <1>6 DEF CountInv
    <2> QED
      BY <2>1, <2>4, <2>5 DEF EndsAsConfigured
  <1>7. CASE /\ ase_mode = "no_simkill" /\ ~session_empty
             /\ SystemReset
             /\ head' = ase_shmem_destroy /\ session_empty' = TRUE
             /\ SimSend(NoLine, "portctrl", m)
    <2>1. head' = <<>> /\ Settled(0)'
      BY <1>4, <1>7 DEF SystemReset, Settled, ase_shmem_destroy
    <2> QED
      BY <1>6, <1>7, <2>1
  <1>8. CASE KillsSimulator /\ Teardown(NoLine, m)
    <2>1. DownInv' /\ sim' = "exit"
      BY <1>1, <1>8, TeardownDown
    <2>2. CountInv'
      BY <1>5, <2>1 DEF CountInv
    <2>3. EndsAsConfigured'
      <3>1. CASE ase_mode = "sw_simkill"
        <4>1. glbl_test_cmplt_cnt' > 0
          BY <1>5 DEF CountInv
        <4> QED
          BY <2>1, <3>1, <4>1 DEF EndsAsConfigured
      <3>2. CASE ase_mode = "regression" /\ glbl_test_cmplt_cnt + 1 = NumTests
        BY <1>5, <2>1, <3>2 DEF EndsAsConfigured
      <3> QED
        BY <1>8, <3>1, <3>2 DEF KillsSimulator
    <2> QED
      BY <2>1, <2>2, <2>3
  <1>9. CASE /\ ase_mode = "regression" /\ ~KillsSimulator
             /\ SystemReset
             /\ UNCHANGED <<head, session_empty>>
             /\ SimSend(NoLine, "portctrl", m)
    <2>1. Listed(app[p], 0)
      BY <1>3, <1>4, <1>9
    <2>2. head' = <<>> /\ Settled(0)'
      BY <1>4, <1>9, <2>1 DEF SystemReset, Settled, Listed
    <2>3. glbl_test_cmplt_cnt' < NumTests
      BY <1>5, <1>9, SessionAssumption DEF CountInv, KillsSimulator
    <2> QED
      BY <1>6, <1>9, <2>2, <2>3
  <1>10. CASE /\ ase_mode = "simkill" \/ (ase_mode = "no_simkill" /\ session_empty)
              /\ UNCHANGED <<head, session_empty, rstVars>>
              /\ SimSend(NoLine, "portctrl", m)
    <2>1. Listed(app[p], 0) /\ ase_mode = "simkill"
      BY <1>3, <1>4, <1>10
    <2>2. head' = <<>> /\ Settled(0)'
      BY <1>4, <1>10, <2>1 DEF rstVars, Settled, Listed
    <2> QED
      BY <1>6, <1>10, <2>1, <2>2
  <1> QED
    BY <1>1, <1>7, <1>8, <1>9, <1>10 DEF SimKill

\* The port control part of ase_listener.
LEMMA PortctrlUp ==
    ASSUME LockInv, UpInv, CountInv, ListenPortctrl
    PROVE  CountInv' /\ EndsAsConfigured' /\ IF sim' = "up" THEN UpInv' ELSE DownInv'
  <1>1. /\ q.req["portctrl"] # <<>> /\ "portctrl" \in Pipes /\ sim = "up"
        /\ UNCHANGED <<app, disturbed>>
    BY DEF ListenPortctrl, Pipes, appVars
  <1>2. PICK p \in Procs, c \in Calls :
          /\ Asked(p, c) /\ c.pipe = "portctrl" /\ app[p].pc \in OpenPcs
          /\ c.pc = "signal" => ase_mode = "no_simkill"
    BY <1>1, WhoAsked
  <1>3. PICK m : m = Message(p, c.op)
    OBVIOUS
  <1>4. /\ Head(q.req["portctrl"]) = m /\ Pop(q.req, "portctrl") = NoLine /\ Open # {}
        /\ Sent(NoLine, "portctrl", m) = [req |-> NoLine, rsp |-> Line(c.pipe, m)]
    BY <1>2, <1>3, PopAsked
  <1>5. m.op = c.op /\ m.by = p
    BY <1>3 DEF Message
  <1>6. ASSUME UpInv', sim' = "up", UNCHANGED <<ase_mode, glbl_test_cmplt_cnt>>
        PROVE  CountInv' /\ EndsAsConfigured' /\ IF sim' = "up" THEN UpInv' ELSE DownInv'
    BY <1>1, <1>6 DEF CountInv, EndsAsConfigured
  <1>7. ASSUME SimSend(NoLine, "portctrl", m)
        PROVE  /\ q' = [req |-> NoLine, rsp |-> Line(c.pipe, Message(p, c.op))]
               /\ sim' = "up"
    BY <1>1, <1>3, <1>4, <1>7 DEF SimSend
  <1>8. CASE /\ m.op \in {"reset_high", "reset_low"}
             /\ app_reset_trig' = IF m.op = "reset_high" THEN 1 ELSE 0
             /\ rst_by' = m.by
             /\ q' = [q EXCEPT !.req = NoLine]
             /\ UNCHANGED <<simVars, app_reset_trig_q, rst_state>>
    <2>1. UNCHANGED <<app, head, csr_umsg_base, app_reset_trig_q, rst_state>>
      BY <1>1, <1>8 DEF simVars
    <2>2. UpInv'
      BY <1>2, <1>5, <1>8, <2>1, ListenReset
    <2> QED
      BY <1>1, <1>6, <1>8, <2>2 DEF simVars
  <1>9. CASE /\ m.op = "umsg_mode"
             /\ SimSend(NoLine, "portctrl", m)
             /\ UNCHANGED <<ase_mode, head, csr_umsg_base, session_empty,
                            glbl_test_cmplt_cnt, tstamp, rstVars>>
    <2>1. c.high = c.low /\ c.map = c.done /\ (c.lives => c.live)
      BY <1>2, <1>5, <1>9, PortCall
    <2>2. Listed(app[p], c.done)' /\ Settled(c.high)' /\ (c.lives => ~session_empty')
      BY <1>1, <1>2, <1>9, <2>1 DEF Asked, Listed, Settled, rstVars, Mmio, Umas
    <2>3. UpInv' /\ sim' = "up"
      <3>1. UNCHANGED <<app, ase_mode>>
        BY <1>1, <1>9
      <3>2. /\ q' = [req |-> NoLine, rsp |-> Line(c.pipe, Message(p, c.op))]
            /\ sim' = "up"
        BY <1>7, <1>9
      <3> QED
        BY <1>2, <2>2, <3>1, <3>2, AnswerUp
    <2> QED
      BY <1>6, <1>9, <2>3
  <1>10. CASE /\ m.op = "ase_init"
              /\ tstamp' = put_timestamp /\ session_empty' = FALSE
              /\ SimSend(NoLine, "portctrl", m)
              /\ UNCHANGED <<ase_mode, head, csr_umsg_base, glbl_test_cmplt_cnt, rstVars>>
    <2>1. c.high = c.low /\ c.map = c.done
      BY <1>2, <1>5, <1>10, PortCall
    <2>2. Listed(app[p], c.done)' /\ Settled(c.high)' /\ ~session_empty'
      BY <1>1, <1>2, <1>10, <2>1 DEF Asked, Listed, Settled, rstVars, Mmio, Umas
    <2>3. UpInv' /\ sim' = "up"
      <3>1. UNCHANGED <<app, ase_mode>>
        BY <1>1, <1>10
      <3>2. /\ q' = [req |-> NoLine, rsp |-> Line(c.pipe, Message(p, c.op))]
            /\ sim' = "up"
        BY <1>7, <1>10
      <3> QED
        BY <1>2, <2>2, <3>1, <3>2, AnswerUp
    <2> QED
      BY <1>6, <1>10, <2>3
  <1>11. CASE /\ m.op = "simkill" /\ SimKill(NoLine, m)
              /\ UNCHANGED <<ase_mode, csr_umsg_base, tstamp>>
    <2>1. UNCHANGED <<app, ase_mode, csr_umsg_base>>
      BY <1>1, <1>11
    <2>2. SimKill(NoLine, Message(p, c.op)) /\ c.op = "simkill"
      BY <1>3, <1>5, <1>11
    <2> QED
      BY <1>1, <1>2, <2>1, <2>2, SimKillUp
  <1> QED
    BY <1>4, <1>8, <1>9, <1>10, <1>11 DEF ListenPortctrl

-----------------------------------------------------------------------------
(* After the simulator has ended. *)

\* The answer that is left is for the one process that has the pipes open.
LEMMA DownOne ==
    ASSUME DownInv, NEW p \in Procs, \A u \in Procs : u # p => app'[u] = app[u],
           UNCHANGED <<q, head>>, ~LastAnswer(p), app'[p].pc = "up" => ~app'[p].wait
    PROVE  DownInv'
  <1>1. \A u \in Procs : app'[u].pc = "up" => ~app'[u].wait
    BY DEF DownInv
  <1>2. ASSUME NEW u \in Procs, LastAnswer(u)
        PROVE  LastAnswer(u)'
    <2>1. app'[u] = app[u] /\ q' = q /\ head' = head
      BY <1>2
    <2>2. \A op : Message(u, op)' = Message(u, op)
      BY <2>1 DEF Message
    <2> QED
      BY <1>2, <2>1, <2>2 DEF LastAnswer
  <1> QED
    BY <1>1, <1>2 DEF DownInv

\* The steps of an application without a simulator: it gives up, reads the answer
\* that is left, or goes on without one.
LEMMA RequestDown ==
    ASSUME LockInv, DownInv, sim # "up", NEW p \in Procs, Request(p)
    PROVE  DownInv'
  <1>1. ~app[p].wait /\ app' = [app EXCEPT ![p] = NewProcess] /\ UNCHANGED <<q, head>>
    BY DEF Request, simVars
  <1>2. app'[p] = NewProcess /\ \A u \in Procs : u # p => app'[u] = app[u]
    BY <1>1 DEF LockInv, Shape
  <1>3. ~LastAnswer(p) /\ app'[p].pc # "up"
    BY <1>1, <1>2, NewProcessFacts DEF LastAnswer
  <1> QED
    BY <1>1, <1>2, <1>3, DownOne
LEMMA ResponseDown ==
    ASSUME LockInv, DownInv, NEW p \in Procs, Response(p)
    PROVE  DownInv'
  <1>1. PICK pipe : pipe = PipeOf(app[p].pc, Head(app[p].todo))
    OBVIOUS
  <1>2. /\ app[p].wait /\ q.rsp[pipe] # <<>>
        /\ q' = [q EXCEPT !.rsp = Pop(q.rsp, pipe)]
    BY <1>1 DEF Response
  <1>3. app[p].pc \in OpenPcs
    BY <1>2 DEF LockInv, CallsWhenOpen
  <1>4. pipe \in Pipes
    BY <1>1 DEF PipeOf, Pipes
  <1>5. PICK u \in Procs : LastAnswer(u)
    <2>1. NoLine[pipe] = <<>>
      BY <1>4, PipeFacts
    <2> QED
      BY <1>2, <2>1 DEF DownInv
  <1>6. u = p
    <2>1. app[u].pc \in OpenPcs
      BY <1>5 DEF LastAnswer
    <2> QED
      BY <1>3, <2>1, OnlyOne
  <1>7. q.rsp = Line(pipe, Message(p, Head(app[p].todo)))
    BY <1>1, <1>5, <1>6 DEF LastAnswer
  <1>8. Pop(q.rsp, pipe) = NoLine
    BY <1>4, <1>7, PipeFacts
  <1>9. q' = [req |-> q'.req, rsp |-> q'.rsp] /\ q'.rsp = NoLine
    <2>1. q' = [req |-> q.req, rsp |-> NoLine]
      BY <1>2, <1>8 DEF DownInv
    <2> QED
      BY <2>1
  <1>10. \A v \in Procs : app'[v].pc = "up" => ~app'[v].wait
    <2>1. PICK r1 : /\ app' = [app EXCEPT ![p] = Continue(r1)]
                    /\ Process(r1) /\ r1.pc \in OpenPcs
      <3>1. PICK r, op, m : r = app[p] /\ op = Head(r.todo) /\ m = Head(q.rsp[pipe])
        OBVIOUS
      <3>2. PICK r1 : r1 = CASE op \in Kinds    -> [r EXCEPT !.buf[op] = m.buf]
                             [] op = "ase_init" -> [r EXCEPT !.ts = tstamp]
                             [] OTHER           -> r
        OBVIOUS
      <3>3. app' = [app EXCEPT ![p] = Continue(r1)]
        BY <1>1, <3>1, <3>2 DEF Response
      <3>4. Process(r)
        BY <3>1, ProcessOf
      <3>5. Process(r1) /\ r1.pc = r.pc
        <4>0. "ase_init" \notin Kinds
          BY DEF Kinds
        <4>1. CASE op \in Kinds
          BY <3>2, <3>4, <4>0, <4>1 DEF Process
        <4>2. CASE op = "ase_init"
          BY <3>2, <3>4, <4>0, <4>2 DEF Process
        <4>3. CASE op \notin Kinds /\ op # "ase_init"
          BY <3>2, <3>4, <4>3
        <4> QED
          BY <4>1, <4>2, <4>3
      <3> QED
        BY <1>3, <3>1, <3>3, <3>5
    <2>2. Continue(r1).wait = FALSE
      BY <2>1, ContinueFacts
    <2>3. app'[p] = Continue(r1) /\ \A v \in Procs : v # p => app'[v] = app[v]
      BY <2>1 DEF LockInv, Shape
    <2> QED
      BY <2>2, <2>3 DEF DownInv
  <1> QED
    BY <1>9, <1>10 DEF DownInv
LEMMA ResponseEofDown ==
    ASSUME LockInv, DownInv, NEW p \in Procs, ResponseEof(p)
    PROVE  DownInv'
  <1>1. PICK pipe : pipe = PipeOf(app[p].pc, Head(app[p].todo))
    OBVIOUS
  <1>2. /\ app[p].wait /\ q.rsp[pipe] = <<>> /\ app' = [app EXCEPT ![p] = Continue(app[p])]
        /\ UNCHANGED <<q, head>>
    BY <1>1 DEF ResponseEof, simVars
  <1>3. app[p].pc \in OpenPcs /\ Process(app[p])
    BY <1>2, ProcessOf DEF LockInv, CallsWhenOpen
  <1>4. app'[p] = Continue(app[p]) /\ \A u \in Procs : u # p => app'[u] = app[u]
    BY <1>2 DEF LockInv, Shape
  <1>5. Continue(app[p]).wait = FALSE
    BY <1>3, ContinueFacts
  <1>6. ~LastAnswer(p)
    <2>1. SUFFICES ASSUME LastAnswer(p)
                   PROVE  FALSE
      OBVIOUS
    <2>2. q.rsp = Line(pipe, Message(p, Head(app[p].todo))) /\ pipe \in Pipes
      BY <1>1, <2>1 DEF LastAnswer, PipeOf, Pipes
    <2> QED
      BY <1>2, <2>2, PipeFacts
  <1> QED
    BY <1>2, <1>4, <1>5, <1>6, DownOne
LEMMA CloseDown ==
    ASSUME LockInv, DownInv, NEW p \in Procs, Close(p)
    PROVE  DownInv'
  <1>1. /\ app[p].pc = "up" /\ UNCHANGED <<q, head>>
        /\ app' = [app EXCEPT ![p].pc = "deinit", ![p].todo = DeinitScript]
    BY DEF Close, simVars
  <1>2. app'[p].pc = "deinit" /\ \A u \in Procs : u # p => app'[u] = app[u]
    BY <1>1 DEF LockInv, Shape
  <1>3. ~LastAnswer(p)
    BY <1>1 DEF LastAnswer
  <1> QED
    BY <1>1, <1>2, <1>3, DownOne
LEMMA CheckLockDown ==
    ASSUME LockInv, DownInv, NEW p \in Procs, CheckLock(p)
    PROVE  DownInv'
  <1>1. /\ app[p].pc = "idle" /\ UNCHANGED <<q, head>>
        /\ app' = [app EXCEPT ![p].pc = "checked"]
    BY DEF CheckLock, simVars
  <1>2. app'[p].pc = "checked" /\ \A u \in Procs : u # p => app'[u] = app[u]
    BY <1>1 DEF LockInv, Shape
  <1>3. ~LastAnswer(p)
    BY <1>1 DEF LastAnswer, OpenPcs
  <1> QED
    BY <1>1, <1>2, <1>3, DownOne
LEMMA CreateLockDown ==
    ASSUME LockInv, DownInv, sim # "up", NEW p \in Procs, CreateLock(p)
    PROVE  DownInv'
  <1>1. /\ app[p].pc = "checked" /\ UNCHANGED <<q, head>>
        /\ app' = [app EXCEPT ![p] = NewProcess]
    BY DEF CreateLock, simVars
  <1>2. app'[p] = NewProcess /\ \A u \in Procs : u # p => app'[u] = app[u]
    BY <1>1 DEF LockInv, Shape
  <1>3. ~LastAnswer(p) /\ app'[p].pc # "up"
    BY <1>1, <1>2, NewProcessFacts DEF LastAnswer, OpenPcs
  <1> QED
    BY <1>1, <1>2, <1>3, DownOne

-----------------------------------------------------------------------------
(* The theorems. *)

\* Before anything is started there is no session.
LEMMA InitSess == Init => SessInv
  <1> SUFFICES ASSUME Init
               PROVE  SessInv
    OBVIOUS
  <1>1. \A p \in Procs : app[p] = NewProcess
    BY DEF Init
  <1>2. \A p \in Procs : app[p].pc \notin OpenPcs /\ Rest(app[p])
    BY <1>1, NewRest, NewProcessFacts DEF OpenPcs
  <1>3. Nothing
    BY DEF Init, Nothing, NoMsgs, NoLine, Settled
  <1>4. UpInv
    BY <1>2, <1>3 DEF UpInv
  <1>5. CountInv
    BY SessionAssumption DEF Init, CountInv
  <1> QED
    BY <1>4, <1>5 DEF Init, SessInv, EndsAsConfigured

\* A step of an application leaves the simulator as it is.
LEMMA ApplicationStep ==
    ASSUME LockInv, SessInv, NEW p \in Procs, Application(p) \/ User(p), ~raced'
    PROVE  SessInv'
  <1>1. UNCHANGED <<sim, ase_mode, glbl_test_cmplt_cnt>> /\ (~disturbed' => ~disturbed)
    <2>1. CASE Request(p) \/ Response(p) \/ ResponseEof(p) \/ CreateLock(p)
      <3>1. CASE Request(p)
        BY <3>1 DEF Request, simVars
      <3>2. CASE Response(p)
        BY <3>2 DEF Response, simVars
      <3>3. CASE ResponseEof(p) \/ CreateLock(p)
        BY <3>3 DEF ResponseEof, CreateLock, simVars
      <3> QED
        BY <2>1, <3>1, <3>2, <3>3
    <2>2. CASE CheckLock(p) \/ Close(p)
      <3>1. UNCHANGED <<sim, ase_mode, glbl_test_cmplt_cnt>>
        BY <2>2 DEF CheckLock, Close, simVars
      <3>2. ~disturbed' => ~disturbed
        <4>1. CASE CheckLock(p)
          BY <4>1, Zenon DEF CheckLock
        <4>2. CASE Close(p)
          BY <4>2 DEF Close
        <4> QED
          BY <2>2, <4>1, <4>2
      <3> QED
        BY <3>1, <3>2
    <2>3. CASE Signal(p) \/ Kill(p)
      BY <2>3 DEF Signal, Kill, simVars
    <2> QED
      BY <2>1, <2>2, <2>3 DEF Application, User
  <1>2. CountInv' /\ EndsAsConfigured'
    BY <1>1 DEF SessInv, CountInv, EndsAsConfigured
  <1>3. ASSUME ~disturbed', sim = "up"
        PROVE  UpInv'
    <2>1. ~disturbed /\ UpInv
      BY <1>1, <1>3 DEF SessInv
    <2>2. CASE Request(p)
      BY <1>3, <2>1, <2>2, RequestUp
    <2>3. CASE Response(p)
      BY <1>3, <2>1, <2>3, ResponseUp
    <2>4. ~ResponseEof(p) /\ ~Kill(p)
      BY <1>3 DEF ResponseEof, Kill
    <2>5. CASE CreateLock(p)
      BY <1>3, <2>1, <2>5, CreateLockUp
    <2>6. CASE CheckLock(p)
      BY <2>1, <2>6, CheckLockUp
    <2>7. CASE Close(p)
      BY <1>3, <2>1, <2>7, CloseUp
    <2>8. CASE Signal(p)
      <3>1. app[p].pc = "up" /\ ase_mode = "no_simkill"
        BY <1>3, <2>8 DEF Signal
      <3> QED
        BY <1>3, <2>1, <2>8, <3>1, SignalUp
    <2> QED
      BY <2>2, <2>3, <2>4, <2>5, <2>6, <2>7, <2>8 DEF Application, User
  <1>4. ASSUME ~disturbed', sim # "up"
        PROVE  DownInv'
    <2>1. ~disturbed /\ DownInv
      BY <1>1, <1>4 DEF SessInv
    <2>2. CASE Request(p)
      BY <1>4, <2>1, <2>2, RequestDown
    <2>3. CASE Response(p)
      BY <2>1, <2>3, ResponseDown
    <2>4. CASE ResponseEof(p)
      BY <2>1, <2>4, ResponseEofDown
    <2>5. CASE CreateLock(p)
      BY <1>4, <2>1, <2>5, CreateLockDown
    <2>6. CASE CheckLock(p)
      BY <2>1, <2>6, CheckLockDown
    <2>7. CASE Close(p)
      BY <2>1, <2>7, CloseDown
    <2>8. ~Signal(p) /\ ~Kill(p)
      BY <1>4, <2>1 DEF Signal, Kill, SessInv, EndsAsConfigured
    <2> QED
      BY <2>2, <2>3, <2>4, <2>5, <2>6, <2>7, <2>8 DEF Application, User
  <1> QED
    BY <1>1, <1>2, <1>3, <1>4 DEF SessInv

\* The number of tests counts up to the configured one.
LEMMA CountKept ==
    ASSUME CountInv, ListenPortctrl
    PROVE  CountInv'
  <1>1. sim = "up" /\ UNCHANGED ase_mode
    BY DEF ListenPortctrl, simVars
  <1>2. CASE UNCHANGED glbl_test_cmplt_cnt
    BY <1>1, <1>2 DEF CountInv
  <1>3. CASE SimKill(Pop(q.req, "portctrl"), Head(q.req["portctrl"]))
    <2>1. glbl_test_cmplt_cnt' = glbl_test_cmplt_cnt + 1
      BY <1>3 DEF SimKill
    <2>2. CASE ase_mode = "regression" /\ ~KillsSimulator
      BY <1>1, <2>1, <2>2, SessionAssumption DEF CountInv, KillsSimulator
    <2>3. CASE sim' = "exit"
      BY <1>1, <2>1, <2>3 DEF CountInv
    <2>4. CASE ase_mode # "regression"
      BY <1>1, <2>1, <2>4 DEF CountInv
    <2> QED
      BY <1>3, <2>2, <2>3, <2>4 DEF SimKill, Teardown
  <1> QED
    BY <1>2, <1>3 DEF ListenPortctrl, simVars

\* A step of the simulator, while it is up.
LEMMA SimulatorStep ==
    ASSUME LockInv, SessInv, Listener \/ ResetFsm \/ InactivityTimeout, ~raced'
    PROVE  SessInv'
  <1>1. sim = "up" /\ UNCHANGED <<app, disturbed, ase_mode>>
    BY DEF Listener, ResetFsm, ListenPortctrl, ListenAlloc, ListenDealloc, ResetEdge,
           ResetDone, InactivityTimeout, appVars, simVars
  <1>2. CountInv /\ (~disturbed => UpInv)
    BY <1>1 DEF SessInv
  <1>3. CASE ListenPortctrl
    <2>1. CASE ~disturbed
      BY <1>1, <1>2, <1>3, <2>1, PortctrlUp DEF SessInv
    <2>2. CASE disturbed
      BY <1>1, <1>2, <1>3, <2>2, CountKept DEF SessInv, EndsAsConfigured
    <2> QED
      BY <2>1, <2>2
  <1>4. ASSUME UNCHANGED glbl_test_cmplt_cnt
        PROVE  CountInv'
    BY <1>1, <1>2, <1>4 DEF CountInv
  <1>5. CASE ListenAlloc
    BY <1>1, <1>2, <1>4, <1>5, AllocUp DEF SessInv, EndsAsConfigured, ListenAlloc
  <1>6. CASE ListenDealloc
    BY <1>1, <1>2, <1>4, <1>6, DeallocUp DEF SessInv, EndsAsConfigured, ListenDealloc
  <1>7. CASE ResetEdge
    BY <1>1, <1>2, <1>4, <1>7, ResetEdgeUp DEF SessInv, EndsAsConfigured, ResetEdge, simVars
  <1>8. CASE ResetDone
    BY <1>1, <1>2, <1>4, <1>8, ResetDoneUp DEF SessInv, EndsAsConfigured, ResetDone
  <1>9. CASE InactivityTimeout
    <2>1. ~disturbed => DownInv'
      <3>1. ~disturbed => DownInv
        BY <1>2, UpDown
      <3>2. UNCHANGED <<app, q, head>>
        BY <1>9 DEF InactivityTimeout, appVars
      <3> QED
        BY <3>1, <3>2 DEF DownInv, LastAnswer, Message
    <2>2. sim' = "exit" /\ ase_mode = "simkill"
      BY <1>9 DEF InactivityTimeout
    <2> QED
      BY <1>1, <1>4, <1>9, <2>1, <2>2 DEF SessInv, EndsAsConfigured, InactivityTimeout
  <1> QED
    BY <1>3, <1>5, <1>6, <1>7, <1>8, <1>9 DEF Listener, ResetFsm

\* After a race only the count of tests is known.
LEMMA RacedStep ==
    ASSUME SessInv, [Next]_vars, raced'
    PROVE  SessInv'
  <1>1. CountInv'
    <2>1. CASE ListenPortctrl
      BY <2>1, CountKept DEF SessInv
    <2>2. ASSUME UNCHANGED <<ase_mode, glbl_test_cmplt_cnt>>, sim' = "up" => sim = "up"
          PROVE  CountInv'
      BY <2>2 DEF SessInv, CountInv
    <2>3. ASSUME NEW p \in Procs, Application(p)
          PROVE  UNCHANGED simVars
      BY <2>3 DEF Application, Request, Response, ResponseEof, CreateLock
    <2>4. ASSUME NEW p \in Procs, User(p)
          PROVE  UNCHANGED simVars
      BY <2>4 DEF User, CheckLock, Close, Signal, Kill
    <2>5. ASSUME ListenAlloc \/ ListenDealloc \/ ResetFsm \/ InactivityTimeout
          PROVE  UNCHANGED <<ase_mode, glbl_test_cmplt_cnt>> /\ sim = "up"
      BY <2>5 DEF ListenAlloc, ListenDealloc, ResetFsm, ResetEdge, ResetDone,
         InactivityTimeout, simVars
    <2>6. CASE UNCHANGED vars
      BY <2>2, <2>6 DEF vars, simVars
    <2> QED
      BY <2>1, <2>2, <2>3, <2>4, <2>5, <2>6 DEF Next, Listener, simVars
  <1>2. disturbed'
    <2>1. ASSUME NEW p \in Procs, Application(p)
          PROVE  raced' = raced /\ disturbed' = disturbed
      BY <2>1 DEF Application, Request, Response, ResponseEof, CreateLock
    <2>2. ASSUME NEW p \in Procs, CheckLock(p)
          PROVE  disturbed'
      BY <2>2 DEF CheckLock, SessInv
    <2>3. ASSUME NEW p \in Procs, Close(p) \/ Signal(p) \/ Kill(p)
          PROVE  raced' = raced /\ (disturbed => disturbed')
      <3>1. CASE Close(p)
        BY <3>1 DEF Close
      <3>3. CASE Kill(p)
        BY <3>3 DEF Kill
      <3>2. CASE Signal(p)
        <4>1. raced' = raced
          BY <3>2 DEF Signal
        <4>2. disturbed => disturbed'
          BY <3>2, Zenon DEF Signal
        <4> QED
          BY <4>1, <4>2
      <3> QED
        BY <2>3, <3>1, <3>2, <3>3
    <2>4. ASSUME Listener \/ ResetFsm \/ InactivityTimeout \/ UNCHANGED vars
          PROVE  raced' = raced /\ disturbed' = disturbed
      BY <2>4 DEF Listener, ListenPortctrl, ListenAlloc, ListenDealloc, ResetFsm,
         ResetEdge, ResetDone, InactivityTimeout, vars
    <2> QED
      BY <2>1, <2>2, <2>3, <2>4 DEF Next, User, SessInv
  <1> QED
    BY <1>1, <1>2 DEF SessInv, EndsAsConfigured

\* The state of the sessions is as the invariant says in every behaviour.
THEOREM SessionInvariance == Spec => []SessInv
  <1>1. (raced \/ LockInv) /\ SessInv /\ [Next]_vars => SessInv'
    <2>r. SUFFICES ASSUME raced \/ LockInv, SessInv, [Next]_vars, ~raced'
                   PROVE  SessInv'
      BY RacedStep
    <2>l. LockInv
      BY <2>r, RaceRemembered
    <2>1. ASSUME NEW p \in Procs, Application(p) \/ User(p)
          PROVE  SessInv'
      BY <2>l, <2>1, <2>r, ApplicationStep
    <2>2. CASE Listener \/ ResetFsm \/ InactivityTimeout
      BY <2>l, <2>2, <2>r, SimulatorStep
    <2>3. CASE UNCHANGED vars
      <3>1. UNCHANGED <<app, q, sim, ase_mode, head, csr_umsg_base, session_empty,
                        glbl_test_cmplt_cnt, app_reset_trig, app_reset_trig_q, rst_state,
                        rst_by, disturbed, raced>>
        BY <2>3 DEF vars, appVars, simVars, rstVars
      <3>2. CountInv' /\ EndsAsConfigured'
        BY <2>r, <3>1 DEF SessInv, CountInv, EndsAsConfigured
      <3>3. UpInv => UpInv'
        <4>1. /\ \A n : Settled(n)' <=> Settled(n)
              /\ \A r, n : Holds(r, n)' <=> Holds(r, n)
              /\ \A r, n : Listed(r, n)' <=> Listed(r, n)
              /\ \A p, op : Message(p, op)' = Message(p, op)
              /\ \A p, c : At(p, c)' <=> At(p, c)
          BY <3>1 DEF Settled, Holds, Listed, Mmio, Umas, Message, At
        <4>2. ASSUME NEW p \in Procs
              PROVE  /\ Running(p) => Running(p)'
                     /\ \A c \in Calls : InCall(p, c) => InCall(p, c)'
          <5>1. PICK r : r = app[p] /\ r = app'[p]
            BY <3>1
          <5>2. /\ \A n : Holds(app[p], n) => Holds(app[p], n)'
                /\ \A n : Listed(app[p], n) => Listed(app[p], n)'
            BY <4>1, <5>1 DEF Holds, Listed, Mmio, Umas
          <5>3. Running(p) => Running(p)'
            BY <3>1, <4>1, <5>2 DEF Running
          <5>4. ASSUME NEW c \in Calls
                PROVE  InCall(p, c) => InCall(p, c)'
            <6>1. Calling(p, c) => Calling(p, c)'
              BY <3>1, <4>1, <5>2 DEF Calling
            <6>2. Asked(p, c) => Asked(p, c)'
              BY <3>1, <4>1, <5>2 DEF Asked
            <6>3. Resetting(p, c) => Resetting(p, c)'
              BY <3>1, <4>1, <5>2 DEF Resetting
            <6>4. Answered(p, c) => Answered(p, c)'
              BY <3>1, <4>1, <5>2 DEF Answered
            <6> QED
              BY <3>1, <6>1, <6>2, <6>3, <6>4 DEF InCall
          <5> QED
            BY <5>3, <5>4
        <4>3. Nothing => Nothing'
          BY <3>1, <4>1 DEF Nothing
        <4> QED
          BY <3>1, <4>2, <4>3 DEF UpInv
      <3>4. DownInv => DownInv'
        BY <3>1 DEF DownInv, LastAnswer, Message
      <3> QED
        BY <2>r, <3>1, <3>2, <3>3, <3>4 DEF SessInv
    <2> QED
      BY <2>r, <2>1, <2>2, <2>3 DEF Next
  <1> QED
    BY InitSess, <1>1, LockInvariance, PTL DEF Spec

\* The simulator ends only as ase.cfg says for its mode and never faults in
\* update_fme_dfh, whatever the number of applications and sessions, until an
\* application ends where the simulator cannot notice or two start at once.
THEOREM SimulatorEndsAsConfigured == Spec => []EndsAsConfigured
  <1>1. SessInv => EndsAsConfigured
    BY DEF SessInv
  <1> QED
    BY <1>1, SessionInvariance, PTL

\* Until an application ends where the simulator cannot notice or two start at
\* once, every mqueue_recv of session_init, session_deinit and send_simkill reads
\* the answer of its own request, across sessions and also after the simulator
\* has ended, and a deallocation gives back the caller's own region.
THEOREM EveryAnswerMatches == Spec => []AnswersMatch
  <1>1. (raced \/ LockInv) /\ SessInv => AnswersMatch
    <2>0. SUFFICES ASSUME raced \/ LockInv, SessInv, ~disturbed
                 PROVE  /\ DeallocatesOwn
                        /\ \A pipe \in Pipes : \A i \in DOMAIN q.rsp[pipe] :
                             LET m == q.rsp[pipe][i] IN
                             /\ i = 1
                             /\ app[m.by].wait /\ Head(app[m.by].todo) = m.op
                             /\ PipeOf(app[m.by].pc, m.op) = pipe
      BY DEF AnswersMatch
    <2>l. LockInv
      BY <2>0 DEF SessInv
    <2>1. DownInv
      BY <2>0, <2>l, UpDown DEF SessInv
    <2>2. CASE q.rsp = NoLine
      <3>1. \A pipe \in Pipes : DOMAIN q.rsp[pipe] = {}
        BY <2>2 DEF NoLine
      <3> QED
        BY <3>1 DEF DeallocatesOwn, Pipes
    <2>3. ASSUME NEW p \in Procs, LastAnswer(p)
          PROVE  /\ DeallocatesOwn
                 /\ \A pipe \in Pipes : \A i \in DOMAIN q.rsp[pipe] :
                      LET m == q.rsp[pipe][i] IN
                      /\ i = 1
                      /\ app[m.by].wait /\ Head(app[m.by].todo) = m.op
                      /\ PipeOf(app[m.by].pc, m.op) = pipe
      <3>1. PICK op, a, w : op = Head(app[p].todo) /\ a = Message(p, op)
                            /\ w = PipeOf(app[p].pc, op)
        OBVIOUS
      <3>2. /\ app[p].wait /\ q.rsp = Line(w, a) /\ w \in Pipes
            /\ w = "dealloc" => a.buf \notin Range(head)
        BY <2>3, <3>1 DEF LastAnswer, PipeOf, Pipes
      <3>3. a.op = op /\ a.by = p
        BY <3>1 DEF Message
      <3>4. \A pipe \in Pipes : \A i \in DOMAIN q.rsp[pipe] :
              pipe = w /\ i = 1 /\ q.rsp[pipe][i] = a
        <4>1. /\ q.rsp[w] = <<a>>
              /\ \A pipe \in Pipes : pipe # w => q.rsp[pipe] = <<>>
          BY <3>2, PipeFacts
        <4>2. DOMAIN <<a>> = {1} /\ <<a>>[1] = a
          OBVIOUS
        <4> QED
          BY <4>1, <4>2
      <3>5. ASSUME w = "dealloc"
            PROVE  a.buf = app[p].buf[op]
        BY <3>1, <3>5 DEF Message, PipeOf
      <3>6. DeallocatesOwn
        <4> SUFFICES ASSUME NEW i \in DOMAIN q.rsp["dealloc"]
                     PROVE  /\ q.rsp["dealloc"][i].buf
                               = app[q.rsp["dealloc"][i].by].buf[q.rsp["dealloc"][i].op]
                            /\ app[q.rsp["dealloc"][i].by].buf[q.rsp["dealloc"][i].op]
                               \notin Range(head)
          BY DEF DeallocatesOwn
        <4>0. "dealloc" \in Pipes
          BY DEF Pipes
        <4>1. w = "dealloc" /\ q.rsp["dealloc"][i] = a
          BY <3>4, <4>0
        <4> QED
          BY <3>2, <3>3, <3>5, <4>1
      <3>7. ASSUME NEW pipe \in Pipes, NEW i \in DOMAIN q.rsp[pipe], NEW m,
                   m = q.rsp[pipe][i]
            PROVE  /\ i = 1
                   /\ app[m.by].wait /\ Head(app[m.by].todo) = m.op
                   /\ PipeOf(app[m.by].pc, m.op) = pipe
        <4>1. pipe = w /\ i = 1 /\ m = a
          BY <3>4, <3>7
        <4>2. m.by = p /\ m.op = op
          BY <3>3, <4>1
        <4> QED
          BY <3>1, <3>2, <4>1, <4>2
      <3> QED
        BY <3>6, <3>7
    <2> QED
      BY <2>1, <2>2, <2>3 DEF DownInv
  <1> QED
    BY <1>1, SessionInvariance, LockInvariance, PTL

\* Until an application ends where the simulator cannot notice or two start at
\* once: when the lock file is gone nothing is left of the last session, no
\* region, no message in a pipe, no reset in progress.
THEOREM NothingLeftBetween == Spec => []CleanBetweenSessions
  <1>1. (raced \/ LockInv) /\ SessInv => CleanBetweenSessions
    <2>0. SUFFICES ASSUME raced \/ LockInv, SessInv, ~disturbed, sim = "up", lock = "none"
                 PROVE  /\ head = <<>> /\ rst_state = "idle" /\ app_reset_trig = 0
                        /\ \A pipe \in Pipes : q.req[pipe] = <<>> /\ q.rsp[pipe] = <<>>
      BY DEF CleanBetweenSessions
    <2>1. \A p \in Procs : app[p].pc \notin OpenPcs
      BY <2>0, SessionAssumption DEF SessInv, LockInv, HoldsLock
    <2>2. Nothing
      BY <2>0, <2>1 DEF SessInv, UpInv
    <2> QED
      BY <2>2 DEF Nothing, Settled, NoMsgs, NoLine
  <1> QED
    BY <1>1, SessionInvariance, LockInvariance, PTL

=============================================================================
