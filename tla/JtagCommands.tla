---------------------------- MODULE JtagCommands ----------------------------
(***************************************************************************)
(* What a debugger may assume of the simulated JTAG port: its commands take  *)
(* effect one by one, in order and each completely: the TAP has seen every   *)
(* edge of the pins, and a reply is TDO as the commands before it left it.   *)
(***************************************************************************)
EXTENDS Naturals, Sequences

CONSTANTS Commands, Taps, Rise, Tdo, High

VARIABLES
    commands,  \* commands sent and not executed
    pins,      \* TCK, TMS and TDI
    tap,       \* state of the design's TAP
    replies,   \* replies the debugger has not read
    over       \* has the session ended, by a Q or a failure?

jtag == <<commands, pins, tap, replies, over>>

\* The TAP takes TMS and TDI at a rising edge of TCK.
After(t, old, new) == IF old.tck = 0 /\ new.tck = 1 THEN Rise[<<t, new.tms, new.tdi>>] ELSE t

Init ==
    /\ commands = <<>>
    /\ pins = High
    /\ tap \in Taps
    /\ replies = <<>>
    /\ over = FALSE

Send(c) ==
    /\ commands' = Append(commands, c)
    /\ UNCHANGED <<pins, tap, replies, over>>

Execute ==
    /\ commands # <<>> /\ ~over
    /\ commands' = Tail(commands)
    /\ LET c == Head(commands)
       IN \/ /\ c.op = "pins"
             /\ pins' = c.to /\ tap' = After(tap, pins, c.to)
             /\ UNCHANGED <<replies, over>>
          \/ /\ c.op = "R"
             /\ \/ replies' = Append(replies, Tdo[tap]) /\ UNCHANGED over
                \/ over' = TRUE /\ UNCHANGED replies
             /\ UNCHANGED <<pins, tap>>
          \/ /\ c.op = "Q"
             /\ over' = TRUE
             /\ UNCHANGED <<pins, tap, replies>>
          \/ /\ c.op = "other"
             /\ UNCHANGED <<pins, tap, replies, over>>

Lose ==
    /\ over' = TRUE
    /\ UNCHANGED <<commands, pins, tap, replies>>

TakeReply ==
    /\ replies # <<>>
    /\ replies' = Tail(replies)
    /\ UNCHANGED <<commands, pins, tap, over>>

Next == (\E c \in Commands : Send(c)) \/ Execute \/ Lose \/ TakeReply

Spec == Init /\ [][Next]_jtag
=============================================================================
