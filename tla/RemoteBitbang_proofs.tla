------------------------ MODULE RemoteBitbang_proofs ------------------------
(***************************************************************************)
(* The JTAG server implements JtagCommands, for any TAP, any size of the     *)
(* reply buffer and any number of commands.                                  *)
(***************************************************************************)
EXTENDS RemoteBitbang, TLAPS

\* Pins that the design has seen already are no edge.
LEMMA SettledTap ==
    ASSUME NEW t, NEW p
    PROVE  After(t, p, p) = t
  BY DEF After

\* The TAP takes an edge to one of its states.
LEMMA TapType ==
    ASSUME NEW t \in Taps, NEW old \in Pins, NEW new \in Pins
    PROVE  After(t, old, new) \in Taps
  BY JtagAssumption DEF After, Pins, Bits

\* The commands there are.
LEMMA CommandKinds ==
    ASSUME NEW c \in Commands
    PROVE  /\ c.op \in {"pins", "R", "Q", "other"}
           /\ c.to \in Pins
  BY DEF Commands, Pins, High, Bits

\* The first call finds the server without a client.
LEMMA InvInit == Init => Inv
  <1> SUFFICES ASSUME Init
               PROVE  Inv
    OBVIOUS
  <1>1. pins \in Pins /\ wires \in Pins
    BY DEF Init, Pins, High, Bits
  <1>2. commands \in Seq(Commands) /\ replies \in Seq(Bits) /\ Len(replies) <= ReplyBuffer
    BY JtagAssumption DEF Init
  <1>3. sent \in 0..MaxCommands
    BY JtagAssumption DEF Init
  <1>4. TypeOK
    BY <1>1, <1>2, <1>3 DEF Init, TypeOK
  <1>5. Settled /\ QuitEnds
    BY DEF Init, Settled, QuitEnds
  <1>6. QED
    BY <1>4, <1>5 DEF Inv

\* The debugger changes only its side of the socket.
LEMMA DebuggerStep ==
    ASSUME Inv, Connect \/ (\E c \in Commands : Send(c)) \/ TakeReply \/ Close
    PROVE  Inv'
  <1>1. ASSUME Connect \/ Close
        PROVE  Inv'
    BY <1>1 DEF Inv, TypeOK, Settled, QuitEnds, Connect, Close, After
  <1>2. ASSUME NEW c \in Commands, Send(c)
        PROVE  Inv'
    BY <1>2, JtagAssumption DEF Inv, TypeOK, Settled, QuitEnds, Send
  <1>3. ASSUME TakeReply
        PROVE  Inv'
    BY <1>3, JtagAssumption DEF Inv, TypeOK, Settled, QuitEnds, TakeReply, debugger
  <1>4. QED
    BY <1>1, <1>2, <1>3

\* What a command leaves behind, whatever it is.
LEMMA CommandStep ==
    ASSUME Inv, execute_command
    PROVE  Inv'
  <1> DEFINE c == Head(commands)
  <1>1. c \in Commands /\ commands' \in Seq(Commands)
    <2>1. commands \in Seq(Commands) /\ commands # <<>> /\ commands' = Tail(commands)
      BY DEF Inv, TypeOK, execute_command
    <2>2. QED
      BY <2>1
  <1>2. UNCHANGED <<client, sent, tdo, wires, tap>> /\ ~quit
    BY DEF Inv, QuitEnds, execute_command
  <1>3. CASE c.op = "pins" /\ set_pins(c)
    BY <1>1, <1>2, <1>3, CommandKinds DEF Inv, TypeOK, Settled, QuitEnds, set_pins
  <1>4. CASE c.op = "R" /\ Reply
    <2>1. replies \in Seq(Bits) /\ Len(replies) <= ReplyBuffer /\ tdo \in Bits
      BY DEF Inv, TypeOK
    <2>2. replies' \in Seq(Bits) /\ Len(replies') <= ReplyBuffer
      <3>1. CASE Len(replies) < ReplyBuffer /\ replies' = Append(replies, tdo)
        BY <2>1, <3>1, JtagAssumption
      <3>2. CASE UNCHANGED replies
        BY <2>1, <3>2
      <3>3. QED
        BY <1>4, <3>1, <3>2 DEF Reply
    <2>3. pc' \in {"return", "aborted"} /\ UNCHANGED <<pins, quit, client_fd>>
      BY <1>4 DEF Reply
    <2>4. QED
      BY <1>1, <1>2, <2>2, <2>3 DEF Inv, TypeOK, Settled, QuitEnds
  <1>5. CASE c.op = "Q" /\ Disconnect
    BY <1>1, <1>2, <1>5 DEF Inv, TypeOK, Settled, QuitEnds, Disconnect
  <1>6. CASE c.op = "other" /\ pc' = "return" /\ UNCHANGED <<pins, replies, quit, client_fd>>
    BY <1>1, <1>2, <1>6 DEF Inv, TypeOK, Settled, QuitEnds
  <1>7. QED
    BY <1>3, <1>4, <1>5, <1>6 DEF execute_command

\* The other steps of a call.
LEMMA CallStep ==
    ASSUME Inv, Tick \/ accept \/ ReadFails \/ Return
    PROVE  Inv'
  <1>1. CASE Tick
    BY <1>1, JtagAssumption DEF Inv, TypeOK, Settled, QuitEnds, Tick, debugger, Bits
  <1>2. CASE accept
    BY <1>2 DEF Inv, TypeOK, Settled, QuitEnds, accept
  <1>3. CASE ReadFails
    BY <1>3 DEF Inv, TypeOK, Settled, QuitEnds, ReadFails, debugger
  <1>4. CASE Return
    <2>1. tap' \in Taps
      BY <1>4, TapType DEF Inv, TypeOK, Return
    <2>2. QED
      BY <1>4, <2>1 DEF Inv, TypeOK, Settled, QuitEnds, Return, debugger
  <1>5. QED
    BY <1>1, <1>2, <1>3, <1>4

LEMMA InvNext == Inv /\ [Next]_vars => Inv'
  <1>1. ASSUME Inv, UNCHANGED vars
        PROVE  Inv'
    BY <1>1 DEF Inv, TypeOK, Settled, QuitEnds, vars, debugger
  <1>2. QED
    BY <1>1, DebuggerStep, CommandStep, CallStep DEF Next

\* The state of the server and of the debugger keeps its types, a command is only
\* executed on settled pins with the TAP's own bit at hand, and none is read after
\* a Q (remote_bitbang_t::tick and execute_command).
THEOREM ServerInvariant == Spec => []Inv
  BY InvInit, InvNext, PTL DEF Spec

\* The types of the server's state (remote_bitbang.h), for any TAP and any buffer.
THEOREM ServerTypeCorrect == Spec => []TypeOK
  <1>1. Inv => TypeOK
    BY DEF Inv
  <1>2. QED
    BY <1>1, ServerInvariant, PTL

\* One command per call is enough: each finds the design settled.
THEOREM CommandsFindSettledPins == Spec => []Settled
  <1>1. Inv => Settled
    BY DEF Inv
  <1>2. QED
    BY <1>1, ServerInvariant, PTL
-----------------------------------------------------------------------------
(* The refinement.                                                          *)

\* What the debugger sees of the TAP, and of the end of the session.
shownTap == After(tap, wires, pins)
over     == quit \/ pc = "aborted"

\* Both modules mean the same by an edge.
LEMMA SameAfter ==
    ASSUME NEW t, NEW old, NEW new
    PROVE  Jtag!After(t, old, new) = After(t, old, new)
  BY DEF Jtag!After, After

\* A call executes its command as JtagCommands does.
LEMMA ExecuteRefines ==
    ASSUME Inv, execute_command
    PROVE  Jtag!Execute
  <1> DEFINE c == Head(commands)
  <1>1. /\ commands # <<>> /\ commands' = Tail(commands)
        /\ wires = pins /\ tdo = Tdo[tap] /\ ~quit /\ pc = "execute"
        /\ UNCHANGED <<wires, tap>>
    BY DEF Inv, Settled, QuitEnds, execute_command
  <1>2. shownTap = tap /\ ~over
    BY <1>1, SettledTap DEF shownTap, over
  <1>3. CASE c.op = "pins" /\ set_pins(c)
    <2>1. /\ pins' = c.to /\ UNCHANGED <<replies, quit>> /\ pc' = "return"
      BY <1>3 DEF set_pins
    <2>2. shownTap' = Jtag!After(shownTap, pins, c.to)
      BY <1>1, <1>2, <2>1, SameAfter DEF shownTap, After
    <2>3. over' = over
      BY <1>1, <2>1 DEF over
    <2>4. QED
      BY <1>1, <1>2, <1>3, <2>1, <2>2, <2>3 DEF Jtag!Execute, shownTap, over
  <1>4. CASE c.op = "R" /\ Reply
    <2>1. UNCHANGED <<pins, quit>> /\ shownTap' = shownTap
      BY <1>1, <1>4 DEF Reply, shownTap, After
    <2>2. CASE replies' = Append(replies, tdo) /\ pc' = "return"
      <3>1. replies' = Append(replies, Tdo[shownTap]) /\ over' = over
        BY <1>1, <1>2, <2>1, <2>2 DEF over
      <3>2. QED
        BY <1>1, <1>2, <1>4, <2>1, <3>1 DEF Jtag!Execute, shownTap, over
    <2>3. CASE pc' = "aborted" /\ UNCHANGED replies
      <3>1. over' = TRUE
        BY <2>3 DEF over
      <3>2. QED
        BY <1>1, <1>2, <1>4, <2>1, <2>3, <3>1 DEF Jtag!Execute, shownTap, over
    <2>4. QED
      BY <1>4, <2>2, <2>3 DEF Reply
  <1>5. CASE c.op = "Q" /\ Disconnect
    <2>1. UNCHANGED <<pins, replies>> /\ shownTap' = shownTap /\ over' = TRUE
      BY <1>1, <1>5 DEF Disconnect, shownTap, over, After
    <2>2. QED
      BY <1>1, <1>2, <1>5, <2>1 DEF Jtag!Execute, shownTap, over
  <1>6. CASE c.op = "other" /\ pc' = "return" /\ UNCHANGED <<pins, replies, quit, client_fd>>
    <2>1. UNCHANGED <<pins, replies>> /\ shownTap' = shownTap /\ over' = over
      BY <1>1, <1>6 DEF shownTap, over, After
    <2>2. QED
      BY <1>1, <1>2, <1>6, <2>1 DEF Jtag!Execute, shownTap, over
  <1>7. QED
    BY <1>3, <1>4, <1>5, <1>6 DEF execute_command

\* The pins reach the TAP, and a call begins or accepts, without the debugger noticing.
LEMMA QuietRefines ==
    ASSUME Inv, Tick \/ accept \/ Return \/ Connect \/ Close
    PROVE  UNCHANGED <<commands, pins, shownTap, replies, over>>
  <1>1. \/ UNCHANGED <<commands, pins, replies, quit>> /\ pc # "aborted" /\ pc' # "aborted"
        \/ UNCHANGED <<commands, pins, replies, quit, pc>>
    BY DEF Tick, accept, Return, Connect, Close, debugger
  <1>2. over' = over
    BY <1>1 DEF over
  <1>3. CASE Return
    <2>1. shownTap' = shownTap
      <3>1. wires' = pins' /\ tap' = shownTap
        BY <1>3 DEF Return, shownTap
      <3>2. QED
        BY <3>1 DEF shownTap, After
    <2>2. QED
      BY <1>1, <1>2, <2>1
  <1>4. CASE Tick \/ accept \/ Connect \/ Close
    <2>1. UNCHANGED <<pins, wires, tap>>
      BY <1>4 DEF Tick, accept, Connect, Close
    <2>2. shownTap' = shownTap
      BY <2>1 DEF shownTap, After
    <2>3. QED
      BY <1>1, <1>2, <2>2
  <1>5. QED
    BY <1>3, <1>4

\* Every step of the server and of the debugger is a step of JtagCommands or none.
LEMMA StepRefines ==
    ASSUME Inv, [Next]_vars
    PROVE  [Jtag!Next]_(Jtag!jtag)
  <1>1. CASE execute_command
    BY <1>1, ExecuteRefines DEF Jtag!Next
  <1>2. CASE Tick \/ accept \/ Return \/ Connect \/ Close
    BY <1>2, QuietRefines DEF Jtag!jtag, shownTap, over
  <1>3. ASSUME NEW c \in Commands, Send(c)
        PROVE  Jtag!Next
    BY <1>3 DEF Send, Jtag!Send, Jtag!Next, After
  <1>4. CASE TakeReply
    BY <1>4 DEF TakeReply, debugger, Jtag!TakeReply, Jtag!Next, After
  <1>5. CASE ReadFails
    BY <1>5 DEF ReadFails, debugger, Jtag!Lose, Jtag!Next, After
  <1>6. CASE UNCHANGED vars
    <2>1. UNCHANGED <<commands, pins, replies, quit, pc, tap, wires>>
      BY <1>6 DEF vars, debugger
    <2>2. QED
      BY <2>1 DEF Jtag!jtag, After
  <1>7. QED
    BY <1>1, <1>2, <1>3, <1>4, <1>5, <1>6 DEF Next

LEMMA InitRefines == Init => Jtag!Init
  BY TapType DEF Init, Jtag!Init, Pins, Bits, High

\* The debugger may treat the simulated port as one that executes its commands one
\* by one, each on settled pins and with an up-to-date TDO, although pins and TDO
\* pass through calls of jtag_tick and clocks of the design.
THEOREM JtagRefinement == Spec => ImplementsJtagCommands
  BY InitRefines, StepRefines, ServerInvariant, PTL DEF Spec, ImplementsJtagCommands, Jtag!Spec
=============================================================================
