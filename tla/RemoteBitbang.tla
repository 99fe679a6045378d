--------------------------- MODULE RemoteBitbang ---------------------------
(***************************************************************************)
(* gen-collateral/remote_bitbang.cc, remote_bitbang.h and SimJTAG.cc: the    *)
(* JTAG server of the simulator (+jtag_rbb_enable=1).  SimJTAG.v calls       *)
(* jtag_tick() every few clocks; a call accepts a client or executes one     *)
(* command, and the pins it returns reach the design's TAP before the next.  *)
(* The debugger at the other end of the socket is external: it connects,     *)
(* sends, reads its replies and closes as it likes.                          *)
(*                                                                          *)
(* Left out: the set-up of the listening socket (a failure there ends the    *)
(* simulator before its first clock), TRSTn (constant) and errors of the     *)
(* socket calls other than those a debugger causes.                          *)
(***************************************************************************)
EXTENDS Naturals, Sequences

CONSTANTS
    Taps,         \* states of the design's TAP
    Rise,         \* Rise[<<t, tms, tdi>>]: the state after a rising edge of TCK
    Tdo,          \* Tdo[t]: the bit the TAP shows
    ReplyBuffer,  \* replies the socket holds
    MaxCommands   \* bound on the commands the debugger sends

Bits == {0, 1}
Pins == [tck : Bits, tms : Bits, tdi : Bits]
High == [tck |-> 1, tms |-> 1, tdi |-> 1]

\* '0' to '7', 'R' and 'Q', and what execute_command ignores ('B', 'b', 'r', unknown).
Commands == [op : {"pins"}, to : Pins] \cup [op : {"R", "Q", "other"}, to : {High}]

ASSUME JtagAssumption ==
    /\ Rise \in [Taps \X Bits \X Bits -> Taps]
    /\ Tdo \in [Taps -> Bits]
    /\ ReplyBuffer \in Nat /\ MaxCommands \in Nat

VARIABLES
    client,     \* the debugger: "away", "connecting", "connected" or "closed"
    commands,   \* commands in the socket
    replies,    \* replies in the socket
    client_fd,  \* does the server have a client?
    pins,       \* the server's tck, tms and tdi
    quit,
    tdo,        \* TDO as the call got it
    wires,      \* the pins as the design sees them
    tap,        \* the design's TAP
    pc,         \* "idle" between calls, "accept" or "execute" inside, "return", "ended", "aborted"
    sent        \* commands sent so far (bound)

debugger == <<client, commands, sent>>
vars == <<debugger, replies, client_fd, pins, quit, tdo, wires, tap, pc>>

After(t, old, new) == IF old.tck = 0 /\ new.tck = 1 THEN Rise[<<t, new.tms, new.tdi>>] ELSE t

\* SimJTAG.v toggles TCK while the design is in reset.
Init ==
    /\ client = "away" /\ commands = <<>> /\ sent = 0
    /\ replies = <<>>
    /\ client_fd = FALSE
    /\ pins = High /\ quit = FALSE
    /\ tdo \in Bits
    /\ wires \in {w \in Pins : w.tms = 0 /\ w.tdi = 0}
    /\ tap \in Taps
    /\ pc = "idle"
-----------------------------------------------------------------------------
(* The debugger.                                                            *)

Connect ==
    /\ client = "away" /\ client' = "connecting"
    /\ UNCHANGED <<commands, sent, replies, client_fd, pins, quit, tdo, wires, tap, pc>>

Send(c) ==
    /\ client = "connected" /\ sent < MaxCommands
    /\ sent' = sent + 1
    /\ commands' = Append(commands, c)
    /\ UNCHANGED <<client, replies, client_fd, pins, quit, tdo, wires, tap, pc>>

TakeReply ==
    /\ client = "connected" /\ replies # <<>>
    /\ replies' = Tail(replies)
    /\ UNCHANGED <<debugger, client_fd, pins, quit, tdo, wires, tap, pc>>

\* It closes without a Q: it was killed, or the network failed.
Close ==
    /\ client = "connected" /\ client' = "closed"
    /\ UNCHANGED <<commands, sent, replies, client_fd, pins, quit, tdo, wires, tap, pc>>
-----------------------------------------------------------------------------
(* One call of jtag_tick.                                                   *)

\* Fault: the server keeps the TDO it had.
TickWithoutTdo ==
    /\ pc = "idle"
    /\ pc' = IF client_fd THEN "execute" ELSE "accept"
    /\ UNCHANGED <<debugger, replies, client_fd, pins, quit, tdo, wires, tap>>

Tick ==
    /\ pc = "idle"
    /\ IF client_fd
       THEN /\ pc' = "execute" /\ tdo' = Tdo[tap]
       ELSE /\ pc' = "accept" /\ UNCHANGED tdo
    /\ UNCHANGED <<debugger, replies, client_fd, pins, quit, wires, tap>>

\* accept() loops until there is a client.
accept ==
    /\ pc = "accept"
    /\ client = "connecting" /\ client' = "connected"
    /\ client_fd' = TRUE
    /\ pc' = "return"
    /\ UNCHANGED <<commands, sent, replies, pins, quit, tdo, wires, tap>>

set_pins(c) ==
    /\ pins' = c.to
    /\ pc' = "return"
    /\ UNCHANGED <<replies, quit, client_fd>>

\* Fault: a full socket is tried again, as an empty one is in read().
ReplyWaits ==
    /\ Len(replies) < ReplyBuffer
    /\ replies' = Append(replies, tdo) /\ pc' = "return"
    /\ UNCHANGED <<pins, quit, client_fd>>

\* write() on the non-blocking socket fails when the debugger does not read its
\* replies, and may fail when it has gone.
Reply ==
    /\ \/ Len(replies) < ReplyBuffer /\ replies' = Append(replies, tdo) /\ pc' = "return"
       \/ (Len(replies) = ReplyBuffer \/ client = "closed") /\ pc' = "aborted" /\ UNCHANGED replies
    /\ UNCHANGED <<pins, quit, client_fd>>

Disconnect ==
    /\ quit' = TRUE
    /\ client_fd' = FALSE
    /\ pc' = "return"
    /\ UNCHANGED <<pins, replies>>

\* Fault: all pin commands at hand are executed in one call.
ExecuteAll ==
    /\ pc = "execute"
    /\ commands # <<>>
    /\ IF \A i \in DOMAIN commands : commands[i].op = "pins"
       THEN commands' = <<>> /\ set_pins(commands[Len(commands)])
       ELSE /\ commands' = Tail(commands)
            /\ LET c == Head(commands)
               IN \/ c.op = "pins" /\ set_pins(c)
                  \/ c.op = "R" /\ Reply
                  \/ c.op = "Q" /\ Disconnect
                  \/ c.op = "other" /\ pc' = "return" /\ UNCHANGED <<pins, replies, quit, client_fd>>
    /\ UNCHANGED <<client, sent, tdo, wires, tap>>

\* read() loops until there is a command, also when the debugger has closed.
execute_command ==
    /\ pc = "execute"
    /\ commands # <<>>
    /\ commands' = Tail(commands)
    /\ LET c == Head(commands)
       IN \/ c.op = "pins" /\ set_pins(c)
          \/ c.op = "R" /\ Reply
          \/ c.op = "Q" /\ Disconnect
          \/ c.op = "other" /\ pc' = "return" /\ UNCHANGED <<pins, replies, quit, client_fd>>
    /\ UNCHANGED <<client, sent, tdo, wires, tap>>

\* read() fails when the debugger was killed and the connection reset.
ReadFails ==
    /\ pc = "execute" /\ client = "closed"
    /\ pc' = "aborted"
    /\ UNCHANGED <<debugger, replies, client_fd, pins, quit, tdo, wires, tap>>

\* jtag_tick gives the pins to the design, and an exit code once the debugger has quit.
Return ==
    /\ pc = "return"
    /\ pc' = IF quit THEN "ended" ELSE "idle"
    /\ wires' = pins
    /\ tap' = After(tap, wires, pins)
    /\ UNCHANGED <<debugger, replies, client_fd, pins, quit, tdo>>

Next ==
    \/ Connect \/ (\E c \in Commands : Send(c)) \/ TakeReply \/ Close
    \/ Tick \/ accept \/ execute_command \/ ReadFails \/ Return

Spec == Init /\ [][Next]_vars

\* The simulator runs; nothing is assumed of the debugger.
Fairness == WF_vars(Tick) /\ WF_vars(accept) /\ WF_vars(execute_command) /\ WF_vars(Return)

FairSpec == Spec /\ Fairness
-----------------------------------------------------------------------------
(* Properties.                                                              *)

\* The types of the server's and the debugger's state.
TypeOK ==
    /\ client \in {"away", "connecting", "connected", "closed"}
    /\ commands \in Seq(Commands) /\ replies \in Seq(Bits)
    /\ Len(replies) <= ReplyBuffer
    /\ client_fd \in BOOLEAN /\ quit \in BOOLEAN
    /\ pins \in Pins /\ wires \in Pins /\ tdo \in Bits /\ tap \in Taps
    /\ pc \in {"idle", "accept", "execute", "return", "ended", "aborted"}
    /\ sent \in 0..MaxCommands

\* When a command is executed the design has seen all pins before it and the reply
\* at hand is the TAP's bit after them: what "only execute 1" in remote_bitbang.h is for.
Settled ==
    /\ pc = "execute" => wires = pins /\ tdo = Tdo[tap]
    /\ pc = "idle" /\ client_fd => wires = pins

\* Once the debugger has quit no further command is read.
QuitEnds == quit => pc \in {"return", "ended"}

\* The inductive invariant behind the refinement.
Inv == TypeOK /\ Settled /\ QuitEnds

\* Commands take effect one by one, in order, with every edge seen by the TAP and
\* every reply up to date, although pins and TDO pass through calls and clocks.
Jtag == INSTANCE JtagCommands WITH tap <- After(tap, wires, pins), over <- quit \/ pc = "aborted"

ImplementsJtagCommands == Jtag!Spec

\* A command in the socket is executed, unless the session is quit or fails.
CommandsExecuted == commands # <<>> ~> commands = <<>> \/ quit \/ pc = "aborted"

\* What the comment in execute_command says of a read without data: "We'll try
\* again the next call", so the call returns to the simulator.
CallsReturn == pc = "execute" ~> pc # "execute"
=============================================================================
