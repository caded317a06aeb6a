------------------------------ MODULE Console ------------------------------
(***************************************************************************)
(* The console (kernel/console.c) and its serial port (kernel/uart.c):     *)
(* readers and writers, the interrupt handler, and the device.             *)
(*                                                                         *)
(* The device is a 16550 with its FIFO enabled: bytes written to THR queue *)
(* up in fifo, LSR_TX_IDLE is set when fifo is empty, and there is one     *)
(* byte of input, rhr.  It interrupts when fifo becomes empty and when     *)
(* input arrives.  Handlers run one at a time: the PLIC gives no other     *)
(* hart the interrupt before it is complete.                               *)
(*                                                                         *)
(* A step is a critical section of cons.lock or uart_tx_lock, or its parts *)
(* where the code looks at the device in between.                          *)
(***************************************************************************)
EXTENDS Integers, Sequences

CONSTANTS
    Reader, Writer, \* processes
    Char,           \* ordinary characters that are typed
    Byte,           \* characters that are written
    Sessions,       \* who uses the console: [reader, writer, key], sets
    MaxN,           \* longest read()
    INPUT_BUF_SIZE,
    UART_TX_BUF_SIZE,
    FifoSize,       \* bytes that THR can hold
    UINT            \* the counters are modulo this

Line == Char \cup {"nl", "D"}
Key == Line \cup {"cr", "U", "H", "del", "P", "nul"}

none == "none"
intr == "intr"

ASSUME ConsoleAssumption ==
    /\ {MaxN, INPUT_BUF_SIZE, UART_TX_BUF_SIZE, FifoSize, UINT} \subseteq Nat \ {0}
    /\ UINT % INPUT_BUF_SIZE = 0 /\ UINT % UART_TX_BUF_SIZE = 0
    /\ UINT > INPUT_BUF_SIZE /\ UINT > UART_TX_BUF_SIZE
    /\ Byte # {} /\ none \notin Writer
    /\ Sessions \subseteq [reader : SUBSET Reader, writer : SUBSET Writer,
                           key : SUBSET Key]

VARIABLES
    session,        \* who uses the console
    buf, r, w, e,   \* cons
    rpc, left,      \* consoleread(): where each reader is, and its n
    target,
    killed,         \* p->killed of readers
    tx, tx_w, tx_r, \* uart_tx_buf and its counters
    txlock,         \* owner of uart_tx_lock
    hand,           \* c of uartstart()
    wpc,            \* where each writer is in consolewrite()
    fifo,           \* THR: bytes with their origin, write() or echo
    sent,           \* the last byte of a write() on the line
    rhr,            \* RHR
    irq,            \* the device asks for an interrupt
    isr,            \* where uartintr() is
    echo, idle      \* bytes consoleintr() has still to echo; LSR as it read it

cons == <<buf, r, w, e>>
readers == <<rpc, left, target, killed>>
uart == <<tx, tx_w, tx_r, txlock, hand, wpc>>
device == <<fifo, sent, rhr, irq>>
handler == <<isr, echo, idle>>
vars == <<cons, readers, uart, device, handler>>

TypeOK ==
    /\ buf \in [0..(INPUT_BUF_SIZE - 1) -> Line]
    /\ {r, w, e, tx_w, tx_r} \subseteq 0..(UINT - 1)
    /\ rpc \in [Reader -> {"user", "read", "sleep", "more"}]
    /\ {left, target} \subseteq [Reader -> 0..MaxN]
    /\ killed \in [Reader -> BOOLEAN]
    /\ tx \in [0..(UART_TX_BUF_SIZE - 1) -> Byte]
    /\ txlock \in Writer \cup {none, intr}
    /\ {hand, sent} \subseteq Byte \cup {none}
    /\ wpc \in [Writer -> {"user", "put", "sleep", "start"}]
    /\ fifo \in Seq([ch : Byte \cup {none}, user : BOOLEAN])
    /\ rhr \in Key \cup {none} /\ irq \in BOOLEAN /\ idle \in BOOLEAN
    /\ isr \in {"off", "get", "start"}
    /\ echo \in 0..(3 * INPUT_BUF_SIZE)

\* consoleinit() and uartinit(), with any characters in the static buffers.
Init ==
    LET ch == CHOOSE c \in Byte : TRUE
    IN  /\ session \in Sessions
        /\ buf = [i \in 0..(INPUT_BUF_SIZE - 1) |-> "nl"]
        /\ r = 0 /\ w = 0 /\ e = 0
        /\ rpc = [p \in Reader |-> "user"]
        /\ left = [p \in Reader |-> 0]
        /\ target = left
        /\ killed = [p \in Reader |-> FALSE]
        /\ tx = [i \in 0..(UART_TX_BUF_SIZE - 1) |-> ch]
        /\ tx_w = 0 /\ tx_r = 0
        /\ txlock = none /\ hand = none
        /\ wpc = [p \in Writer |-> "user"]
        /\ fifo = <<>> /\ sent = ch /\ rhr = none /\ irq = FALSE
        /\ isr = "off" /\ echo = 0 /\ idle = FALSE

plus(a, k) == (a + k) % UINT
minus(a, b) == (a - b) % UINT
-----------------------------------------------------------------------------
(***************************************************************************)
(* consoleread()                                                           *)
(***************************************************************************)
\* cons.lock is held by the handler while it echoes, and by a reader that
\* has more to read.
may_lock(p) ==
    /\ echo = 0
    /\ \A q \in Reader \ {p} : rpc[q] # "more"

read(p, n) ==
    /\ rpc[p] = "user"
    /\ rpc' = [rpc EXCEPT ![p] = "read"]
    /\ left' = [left EXCEPT ![p] = n]
    /\ target' = [target EXCEPT ![p] = n]
    /\ UNCHANGED <<cons, killed, uart, device, handler>>

\* A process that was killed exits, and another one takes its place.
return(p) ==
    /\ rpc' = [rpc EXCEPT ![p] = "user"]
    /\ left' = [left EXCEPT ![p] = 0]
    /\ target' = [target EXCEPT ![p] = 0]
    /\ killed' = [killed EXCEPT ![p] = FALSE]

read_wait(p) ==
    /\ rpc[p] \in {"read", "more"} /\ may_lock(p)
    /\ r = w
    /\ IF killed[p] THEN return(p)
       ELSE /\ rpc' = [rpc EXCEPT ![p] = "sleep"]
            /\ UNCHANGED <<left, target, killed>>
    /\ UNCHANGED <<cons, uart, device, handler>>

\* A ^D after other characters stays, for the next read() to return 0.
saved_D(p) == left[p] < target[p]

read_char(p) ==
    LET c == buf[r % INPUT_BUF_SIZE]
        rest == left[p] - 1
    IN  /\ rpc[p] \in {"read", "more"} /\ may_lock(p)
        /\ r # w
        /\ r' = IF c = "D" /\ saved_D(p) THEN r ELSE plus(r, 1)
        /\ \/ return(p)     \* or either_copyout() failed
           \/ /\ c \notin {"D", "nl"} /\ rest > 0
              /\ rpc' = [rpc EXCEPT ![p] = "more"]
              /\ left' = [left EXCEPT ![p] = rest]
              /\ UNCHANGED <<target, killed>>
        /\ UNCHANGED <<buf, w, e, uart, device, handler>>

kill(p) ==
    /\ rpc[p] # "user" /\ ~killed[p]
    /\ killed' = [killed EXCEPT ![p] = TRUE]
    /\ rpc' = [rpc EXCEPT ![p] = IF @ = "sleep" THEN "read" ELSE @]
    /\ UNCHANGED <<cons, left, target, uart, device, handler>>
-----------------------------------------------------------------------------
(***************************************************************************)
(* uartintr() and consoleintr()                                            *)
(***************************************************************************)
uartintr ==
    /\ irq /\ isr = "off"
    /\ irq' = FALSE
    /\ isr' = "get"
    /\ UNCHANGED <<cons, readers, uart, fifo, sent, rhr, echo, idle>>

\* wakeup(&cons.r)
wakeup_readers_not == UNCHANGED rpc
wakeup_readers == rpc' = [p \in Reader |-> IF rpc[p] = "sleep" THEN "read" ELSE rpc[p]]

room_for_one_more == minus(e, r) <= INPUT_BUF_SIZE
room == minus(e, r) < INPUT_BUF_SIZE

\* The default case.
insert(key) ==
    LET c == IF key = "cr" THEN "nl" ELSE key
    IN  IF key # "nul" /\ room
          THEN /\ buf' = [buf EXCEPT ![e % INPUT_BUF_SIZE] = c]
               /\ e' = plus(e, 1)
               /\ echo' = 1
               /\ IF c \in {"nl", "D"} \/ minus(e', r) = INPUT_BUF_SIZE
                    THEN w' = e' /\ wakeup_readers
                    ELSE UNCHANGED <<w, rpc>>
          ELSE UNCHANGED <<buf, w, e, echo, rpc>>

\* ^U; a line that is not finished has no newline in it.
kill_line ==
    /\ e' = w
    /\ echo' = 3 * minus(e, w)
    /\ UNCHANGED <<buf, w, rpc>>

backspace ==
    /\ e' = IF e = w THEN e ELSE minus(e, 1)
    /\ echo' = IF e = w THEN 0 ELSE 3
    /\ UNCHANGED <<buf, w, rpc>>

consoleintr ==
    /\ isr = "get" /\ echo = 0
    /\ rhr # none
    /\ \A p \in Reader : rpc[p] # "more"
    /\ rhr' = none
    /\ CASE rhr = "U" -> kill_line
         [] rhr \in {"H", "del"} -> backspace
         [] rhr = "P" -> UNCHANGED <<buf, w, e, echo, rpc>>
         [] OTHER -> insert(rhr)
    /\ UNCHANGED <<r, left, target, killed, uart, fifo, sent, irq, isr, idle>>

\* uartputc_sync(): wait for LSR_TX_IDLE, then write THR, which loses the byte
\* if it is full.
THR(b) == fifo' = IF Len(fifo) < FifoSize THEN Append(fifo, b) ELSE fifo

echo_wait ==
    /\ echo > 0 /\ ~idle
    /\ fifo = <<>>
    /\ idle' = TRUE
    /\ UNCHANGED <<cons, readers, uart, device, isr, echo>>

echo_put ==
    /\ idle
    /\ THR([ch |-> none, user |-> FALSE])
    /\ idle' = FALSE
    /\ echo' = echo - 1
    /\ UNCHANGED <<cons, readers, uart, sent, rhr, irq, isr>>

\* No more input: send buffered characters.
intr_start ==
    /\ isr = "get" /\ echo = 0
    /\ rhr = none
    /\ txlock = none
    /\ txlock' = intr
    /\ isr' = "start"
    /\ UNCHANGED <<cons, readers, tx, tx_w, tx_r, hand, wpc, device, echo, idle>>
-----------------------------------------------------------------------------
(***************************************************************************)
(* consolewrite(), uartputc() and uartstart()                              *)
(***************************************************************************)
write(p) ==
    /\ wpc[p] = "user"
    /\ wpc' = [wpc EXCEPT ![p] = "put"]
    /\ UNCHANGED <<cons, readers, tx, tx_w, tx_r, txlock, hand, device, handler>>

\* The end of the string, or either_copyin() failed.
write_done(p) ==
    /\ wpc[p] = "put"
    /\ wpc' = [wpc EXCEPT ![p] = "user"]
    /\ UNCHANGED <<cons, readers, tx, tx_w, tx_r, txlock, hand, device, handler>>

tx_full_late == minus(tx_w, tx_r) > UART_TX_BUF_SIZE
tx_full == tx_w = plus(tx_r, UART_TX_BUF_SIZE)

uartputc(p, c) ==
    /\ wpc[p] = "put" /\ txlock = none
    /\ IF tx_full
         THEN /\ wpc' = [wpc EXCEPT ![p] = "sleep"]
              /\ UNCHANGED <<tx, tx_w, txlock>>
         ELSE /\ wpc' = [wpc EXCEPT ![p] = "start"]
              /\ tx' = [tx EXCEPT ![tx_w % UART_TX_BUF_SIZE] = c]
              /\ tx_w' = plus(tx_w, 1)
              /\ txlock' = p
    /\ UNCHANGED <<cons, readers, tx_r, hand, device, handler>>

\* wakeup(&uart_tx_r)
wakeup_writers == wpc' = [p \in Writer |-> IF wpc[p] = "sleep" THEN "put" ELSE wpc[p]]

uartstart_take ==
    /\ txlock # none /\ hand = none
    /\ tx_w # tx_r /\ fifo = <<>>
    /\ hand' = tx[tx_r % UART_TX_BUF_SIZE]
    /\ tx_r' = plus(tx_r, 1)
    /\ wakeup_writers
    /\ UNCHANGED <<cons, readers, tx, tx_w, txlock, device, handler>>

uartstart_put ==
    /\ hand # none
    /\ THR([ch |-> hand, user |-> TRUE])
    /\ hand' = none
    /\ UNCHANGED <<cons, readers, tx, tx_w, tx_r, txlock, wpc, sent, rhr, irq, handler>>

\* Nothing to send, or THR is full; then uartputc() or uartintr() returns.
uartstart_return ==
    /\ txlock # none /\ hand = none
    /\ tx_w = tx_r \/ fifo # <<>>
    /\ txlock' = none
    /\ wpc' = [p \in Writer |-> IF p = txlock THEN "put" ELSE wpc[p]]
    /\ isr' = IF txlock = intr THEN "off" ELSE isr
    /\ UNCHANGED <<cons, readers, tx, tx_w, tx_r, hand, device, echo, idle>>
-----------------------------------------------------------------------------
(***************************************************************************)
(* The device.                                                             *)
(***************************************************************************)
type(c) ==
    /\ rhr = none
    /\ rhr' = c /\ irq' = TRUE
    /\ UNCHANGED <<cons, readers, uart, fifo, sent, handler>>

transmit ==
    /\ fifo # <<>>
    /\ fifo' = Tail(fifo)
    /\ irq' = (irq \/ fifo' = <<>>)
    /\ sent' = IF Head(fifo).user THEN Head(fifo).ch ELSE sent
    /\ UNCHANGED <<cons, readers, uart, rhr, handler>>

Next ==
    /\ UNCHANGED session
    /\ \/ \E p \in session.reader :
            \/ read_wait(p) \/ read_char(p) \/ kill(p)
            \/ \E n \in 1..MaxN : read(p, n)
       \/ uartintr \/ consoleintr \/ echo_wait \/ echo_put \/ intr_start
       \/ \E p \in session.writer :
            write(p) \/ write_done(p) \/ \E c \in Byte : uartputc(p, c)
       \/ uartstart_take \/ uartstart_put \/ uartstart_return
       \/ transmit \/ \E c \in session.key : type(c)

\* The kernel and the device make progress.  THR is empty for much longer than
\* a CPU that polls LSR takes to see it: strong fairness.
Fairness ==
    /\ WF_vars(uartintr) /\ WF_vars(consoleintr) /\ WF_vars(echo_put)
    /\ SF_vars(echo_wait) /\ WF_vars(intr_start)
    /\ WF_vars(uartstart_take) /\ WF_vars(uartstart_put) /\ WF_vars(uartstart_return)
    /\ WF_vars(transmit)
    /\ \A p \in Reader : WF_vars(read_wait(p)) /\ WF_vars(read_char(p))

Spec == Init /\ [][Next]_<<session, vars>> /\ Fairness
-----------------------------------------------------------------------------
(***************************************************************************)
(* Properties.                                                             *)
(***************************************************************************)
Slice(from, to) == [k \in 1..minus(to, from) |-> buf[plus(from, k - 1) % INPUT_BUF_SIZE]]

Editor == INSTANCE LineEditor WITH
    Char <- Line, End <- {"nl", "D"}, Size <- INPUT_BUF_SIZE,
    line <- Slice(w, e), out <- Slice(r, w)

\* consoleintr() and consoleread() together are a line editor: through the
\* wrap of the ring and of the counters, ^U and backspace never take back
\* what was delivered or may be read, and a full buffer loses only what is
\* typed then.
ConsoleIsEditor == Editor!Spec

\* The bytes of write() that are not on the line yet.
InFlight ==
    LET user == SelectSeq(fifo, LAMBDA b : b.user)
    IN  [k \in DOMAIN user |-> user[k].ch]
          \o (IF hand = none THEN <<>> ELSE <<hand>>)
          \o [k \in 1..minus(tx_w, tx_r) |-> tx[plus(tx_r, k - 1) % UART_TX_BUF_SIZE]]

Output == INSTANCE Fifo WITH
    Val <- Byte, Size <- UART_TX_BUF_SIZE + FifoSize, q <- InFlight, got <- sent

\* Each byte that uartputc() accepts is sent once and in order, though echoed
\* bytes are written to THR by a CPU that does not hold uart_tx_lock.
OutputIsFifo == Output!Spec

\* A reader sleeps only while no line is ready, and a writer only while the
\* buffer is full and uartstart() is still to be called for it.
ConsoleSleepers ==
    /\ \A p \in Reader : rpc[p] = "sleep" => r = w
    /\ \A p \in Writer : wpc[p] = "sleep" =>
         \/ txlock # none
         \/ tx_full /\ (fifo # <<>> \/ irq \/ isr = "get")

\* A writer that waits for room in the output buffer gets on once typing
\* stops: until then uartintr() may find more input, or THR taken by an echo,
\* whenever it would send.
WriterGetsOn ==
    <>[](rhr = none) =>
        \A p \in Writer : wpc[p] = "sleep" ~> wpc[p] # "sleep"
=============================================================================
