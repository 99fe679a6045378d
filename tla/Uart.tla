-------------------------------- MODULE Uart --------------------------------
(***************************************************************************)
(* gen-collateral/uart.cc, uart.h and SimUART.cc: the console of the         *)
(* simulated design (UART 0), one call of tick() per clock edge, between the *)
(* queues of UARTAdapter.sv and the simulator's terminal, pipe or PTY.       *)
(*                                                                          *)
(* pc is the position in the clock edge; the SIGINT handler may run between  *)
(* any two steps.  Characters are numbers, typed as 1, 2, ... and sent as    *)
(* 1, 2, ...; a ctrl-C is 0.  Left out: the serial line's bits (a character  *)
(* enters or leaves an adapter queue at once) and the PTY's symbolic link.   *)
(***************************************************************************)
EXTENDS Naturals, Sequences

CONSTANTS
    Depth,       \* characters an adapter queue holds (8)
    OutputRoom,  \* characters the output holds when nobody reads it
    MaxTyped,    \* bound on the characters typed
    MaxSent,     \* bound on the characters the design sends
    MaxPresses   \* bound on the ctrl-C pressed

ASSUME UartAssumption ==
    /\ Depth \in Nat \ {0} /\ OutputRoom \in Nat \ {0}
    /\ MaxTyped \in Nat /\ MaxSent \in Nat /\ MaxPresses \in Nat

CtrlC == 0

Oldest(queue) == IF queue = <<>> THEN <<>> ELSE <<Head(queue)>>
Rest(queue)   == IF queue = <<>> THEN <<>> ELSE Tail(queue)

VARIABLES
    use_pty,      \* the PTY of +uart-pty, or standard input and output
    print_file,   \* is the output a log file (+uartlog)?
    shared_tty,   \* are standard input and output one terminal?
    input,        \* typed and not read
    specialchar,  \* a SIGINT was taken and not passed on
    inp,          \* the character read in this tick, if any
    in_reg,       \* SimUART.v's registers: the character for the design, if any
    out_ready,    \* ... and whether its output is taken
    rxq,          \* the adapter's queue towards the design
    txq,          \* the adapter's queue from the design
    out_valid,    \* was there a character to print when the edge began?
    in_ready,     \* could the adapter take another?
    output,       \* written and not shown yet
    pc,           \* "idle", then "input", "clear", "output", "end"; or "exited"
    typed,        \* characters typed so far (bound)
    got,          \* typed characters the design has taken
    sent,         \* characters the design sent so far (bound)
    shown,        \* characters shown to the user
    presses,      \* ctrl-C pressed so far (bound)
    owed          \* history: has no ctrl-C reached the design since one was pressed?

config  == <<use_pty, print_file, shared_tty>>
design  == <<rxq, txq, got, sent>>
terminal == <<input, typed, output, shown>>
signals == <<specialchar, presses, owed>>
edge    == <<inp, in_reg, out_ready, out_valid, in_ready>>
vars    == <<config, design, terminal, signals, edge, pc>>

\* uart_init's +uart-pty and the constructor's descriptors.
Init ==
    /\ use_pty \in BOOLEAN /\ print_file \in BOOLEAN /\ shared_tty \in BOOLEAN
    /\ input = <<>> /\ typed = 0 /\ output = <<>> /\ shown = 0
    /\ specialchar = FALSE /\ presses = 0 /\ owed = FALSE
    /\ inp = <<>> /\ in_reg = <<>> /\ out_ready = FALSE /\ out_valid = FALSE /\ in_ready = FALSE
    /\ rxq = <<>> /\ txq = <<>> /\ got = 0 /\ sent = 0
    /\ pc = "idle"

\* O_NONBLOCK is set on the input, and the output may be the same open file.
OutputNonBlocking == use_pty \/ shared_tty
-----------------------------------------------------------------------------
(* The user, the reader of the output, and the design.                      *)

Type ==
    /\ typed < MaxTyped
    /\ typed' = typed + 1
    /\ input' = Append(input, typed')
    /\ UNCHANGED <<config, design, output, shown, signals, edge, pc>>

Show ==
    /\ output # <<>>
    /\ output' = Tail(output)
    /\ shown' = shown + 1
    /\ UNCHANGED <<config, design, input, typed, signals, edge, pc>>

WriteBlocked == pc = "output" /\ out_valid /\ ~print_file /\ Len(output) = OutputRoom

\* The handler is installed for standard input only; with a PTY the signal ends
\* the simulator.  A write that blocks ends with EINTR (sa_flags is 0), which tick()
\* takes for a failure.
sighand ==
    /\ presses < MaxPresses /\ pc # "exited"
    /\ presses' = presses + 1
    /\ \/ /\ ~use_pty
          /\ specialchar' = TRUE /\ owed' = TRUE
          /\ UNCHANGED pc
       \/ /\ use_pty \/ (WriteBlocked /\ ~OutputNonBlocking)
          /\ pc' = "exited"
          /\ UNCHANGED <<specialchar, owed>>
    /\ UNCHANGED <<config, design, terminal, edge>>

TakeChar ==
    /\ pc = "idle" /\ rxq # <<>>
    /\ rxq' = Tail(rxq)
    /\ got' = IF Head(rxq) = CtrlC THEN got ELSE got + 1
    /\ UNCHANGED <<config, txq, sent, terminal, signals, edge, pc>>

\* Out of reset the first character takes many clocks over the serial line.
SendChar ==
    /\ pc = "idle" /\ out_ready /\ sent < MaxSent /\ Len(txq) < Depth
    /\ sent' = sent + 1
    /\ txq' = Append(txq, sent')
    /\ UNCHANGED <<config, rxq, got, terminal, signals, edge, pc>>
-----------------------------------------------------------------------------
(* One clock edge.                                                          *)

\* Fault: no place is kept for the character on its way through the register.
ReadyWhileRoom == Len(rxq) < Depth

InReady == Len(rxq) < Depth - 1

\* The register's character enters the queue, and the adapter's signals are sampled.
Edge ==
    /\ pc = "idle" /\ pc' = "input"
    /\ in_ready' = InReady
    /\ out_valid' = (txq # <<>>)
    /\ rxq' = IF Len(rxq) < Depth THEN rxq \o in_reg ELSE rxq
    /\ inp' = <<>>
    /\ UNCHANGED <<config, txq, got, sent, terminal, signals, in_reg, out_ready>>

\* Fault: the special character is taken before the design is asked.
InputUnasked ==
    /\ pc = "input"
    /\ pc' = IF specialchar THEN "clear" ELSE "output"
    /\ IF in_ready
       THEN IF specialchar THEN inp' = <<CtrlC>> /\ UNCHANGED input
            ELSE inp' = Oldest(input) /\ input' = Rest(input)
       ELSE UNCHANGED <<inp, input>>
    /\ UNCHANGED <<config, design, typed, output, shown, signals, in_reg, out_ready, out_valid, in_ready>>

\* tick(): a special character goes first; the read does not block.
Input ==
    /\ pc = "input"
    /\ IF in_ready
       THEN IF specialchar THEN inp' = <<CtrlC>> /\ pc' = "clear" /\ UNCHANGED input
            ELSE inp' = Oldest(input) /\ input' = Rest(input) /\ pc' = "output"
       ELSE pc' = "output" /\ UNCHANGED <<inp, input>>
    /\ UNCHANGED <<config, design, typed, output, shown, signals, in_reg, out_ready, out_valid, in_ready>>

Clear ==
    /\ pc = "clear" /\ pc' = "output"
    /\ specialchar' = FALSE
    /\ UNCHANGED <<config, design, terminal, presses, owed, edge>>

\* A full output blocks the simulator or, when it does not block, ends it.
Output ==
    /\ pc = "output"
    /\ IF ~out_valid THEN pc' = "end" /\ UNCHANGED output
       ELSE IF WriteBlocked THEN OutputNonBlocking /\ pc' = "exited" /\ UNCHANGED output
       ELSE pc' = "end" /\ output' = Append(output, Head(txq))
    /\ UNCHANGED <<config, design, input, typed, shown, signals, edge>>

\* Fault: a tick that reads a character does not tell the design that one was printed.
EndBusy ==
    /\ pc = "end" /\ pc' = "idle"
    /\ in_reg' = inp
    /\ owed' = (owed /\ inp # <<CtrlC>>)
    /\ out_ready' = TRUE
    /\ txq' = IF out_valid /\ out_ready /\ inp = <<>> THEN Tail(txq) ELSE txq
    /\ UNCHANGED <<config, rxq, got, sent, terminal, specialchar, presses, inp, out_valid, in_ready>>

\* The registers take the outputs of the tick; the design's character was taken if
\* the register said so before the edge.
End ==
    /\ pc = "end" /\ pc' = "idle"
    /\ in_reg' = inp
    /\ owed' = (owed /\ inp # <<CtrlC>>)
    /\ out_ready' = TRUE
    /\ txq' = IF out_valid /\ out_ready THEN Tail(txq) ELSE txq
    /\ UNCHANGED <<config, rxq, got, sent, terminal, specialchar, presses, inp, out_valid, in_ready>>

Next ==
    \/ Type \/ Show \/ sighand \/ TakeChar \/ SendChar
    \/ Edge \/ Input \/ Clear \/ Output \/ End

Spec == Init /\ [][Next]_vars

\* The clock runs, the output is read, and the design takes its characters.
Fairness ==
    /\ WF_vars(Edge) /\ WF_vars(Input) /\ WF_vars(Clear) /\ WF_vars(Output) /\ WF_vars(End)
    /\ WF_vars(Show)
    /\ SF_vars(TakeChar)

FairSpec == Spec /\ Fairness
-----------------------------------------------------------------------------
(* Properties.                                                              *)

Numbers(from, to) == [k \in 1..(to - from) |-> from + k]

\* The characters other than ctrl-C are those after from up to to, once and in order.
InOrder(chars, from, to) ==
    /\ \A i, j \in DOMAIN chars :
          i < j /\ chars[i] # CtrlC /\ chars[j] # CtrlC => chars[i] < chars[j]
    /\ {chars[i] : i \in DOMAIN chars} \ {CtrlC} = (from + 1)..to

\* The types of the console's state; the queues stay within their depth.
TypeOK ==
    /\ use_pty \in BOOLEAN /\ print_file \in BOOLEAN /\ shared_tty \in BOOLEAN
    /\ input \in Seq(Nat) /\ rxq \in Seq(Nat) /\ txq \in Seq(Nat) /\ output \in Seq(Nat)
    /\ Len(rxq) <= Depth /\ Len(txq) <= Depth
    /\ inp \in Seq(Nat) /\ Len(inp) <= 1 /\ in_reg \in Seq(Nat) /\ Len(in_reg) <= 1
    /\ {specialchar, owed, out_ready, out_valid, in_ready} \subseteq BOOLEAN
    /\ pc \in {"idle", "input", "clear", "output", "end", "exited"}
    /\ typed \in 0..MaxTyped /\ got \in 0..typed
    /\ sent \in 0..MaxSent /\ shown \in 0..sent
    /\ presses \in 0..MaxPresses

\* Between edges the character read is in the register; within one, it is in inp.
OnTheWay == IF pc = "idle" THEN in_reg ELSE inp

\* Every character typed reaches the design, once and in order, however slowly it
\* takes them and whatever ctrl-C is passed in between.
TypedInOrder == InOrder(rxq \o OnTheWay \o input, got, typed)

\* Has the first of txq been written in this edge already?
Printed == pc = "end" /\ out_valid

\* Every character the design sends is written, once and in order, as long as the
\* simulator lives.
PrintedOnce == pc # "exited" =>
    output \o (IF Printed THEN Rest(txq) ELSE txq) = Numbers(shown, sent)

\* A ctrl-C pressed is never forgotten before one is passed to the design, although
\* the handler may set the flag while a tick takes and clears it.
InterruptKept == owed /\ pc # "exited" => specialchar \/ inp = <<CtrlC>>

\* What the steps of an edge leave for the later ones and for the next edge: the
\* adapter keeps a place for the character that was read, a character that was
\* announced is there to be printed and taken, the register shows what was read, and
\* a ctrl-C that is cleared was taken.
EdgeKept ==
    /\ inp # <<>> => Len(rxq) < Depth
    /\ pc \in {"input", "clear", "output", "end"} =>
          /\ in_ready => Len(rxq) < Depth
          /\ out_valid => txq # <<>>
    /\ txq # <<>> => out_ready
    /\ pc = "idle" => in_reg = inp /\ (owed => specialchar)
    /\ pc = "input" => inp = <<>>
    /\ pc = "clear" => inp = <<CtrlC>>
    /\ shown + Len(output) <= sent

\* What a step of the console relies on.
Inv == TypeOK /\ EdgeKept /\ InterruptKept

\* It does reach the design, if the simulator lives.
InterruptDelivered == owed ~> ~owed \/ pc = "exited"
=============================================================================
