----------------------------- MODULE SerialLine -----------------------------
(***************************************************************************)
(* The ring buffers of firmware/lib/rbuf/src/rbuf.c, the serial line of    *)
(* firmware/lib/serial/src/serial.c on top of them, and the interrupts of  *)
(* the UART driver.                                                        *)
(*                                                                         *)
(* A ring has its semaphore, but a pend never blocks an interrupt handler, *)
(* which thus runs in the middle of the task's operation on the same ring. *)
(* The task's operations are therefore split where they read or write what *)
(* the handler writes.                                                     *)
(* Characters are numbered in the order in which they come: 0 is the       *)
(* content of memory no character was written to.                          *)
(***************************************************************************)
EXTENDS Integers, Sequences

CONSTANT
  RbufSize       \* SERIAL_RX_RBUF_SIZE and SERIAL_TX_RBUF_SIZE

ASSUME RbufAssumption == RbufSize \in Nat \ {0}

VARIABLES
  rbuf_rx, rbuf_tx,   \* rbuf_t
  sem_rx,        \* tokens of the semaphore: characters announced
  uart,          \* the transmitter runs
  received,      \* history: the number of the last character on the line
  written,       \* history: the number of the last character put in rbuf_tx
  filled,        \* history: rbuf_rx was full once
  lastRead,      \* history: the last character that was read
  lastSent       \* history: the latest character that was transmitted

rxvars == <<rbuf_rx, sem_rx, received, filled, lastRead>>
txvars == <<rbuf_tx, uart, written, lastSent>>
linevars == <<rxvars, txvars>>

Index == 0 .. RbufSize - 1

rbuf_init == [buffer |-> [i \in Index |-> 0], head |-> 0, tail |-> 0, full |-> FALSE]

(* Mutant of Following: the index does not wrap around. *)
FollowingNoWrap(i) == i + 1

Following(i) == (i + 1) % RbufSize

rbuf_empty(r) == ~r.full /\ r.head = r.tail

rbuf_size(r) ==
  IF r.full THEN RbufSize
  ELSE IF r.head >= r.tail THEN r.head - r.tail
  ELSE RbufSize + r.head - r.tail

-----------------------------------------------------------------------------
(* rbuf_put and rbuf_get of a handler, which no task interrupts.             *)

Store(r, c) == [r EXCEPT !.buffer[r.head] = c, !.head = Following(r.head)]

Put(r, c) ==
  IF r.full THEN r ELSE LET s == Store(r, c) IN [s EXCEPT !.full = (s.head = s.tail)]

Char(r) == r.buffer[r.tail]

Advance(r) == [r EXCEPT !.tail = Following(r.tail)]

Get(r) == [Advance(r) EXCEPT !.full = FALSE]

-----------------------------------------------------------------------------
(* Mutant of RxChar: nothing announces the character that fills the ring. *)
RxCharUnannounced ==
  /\ received' = received + 1
  /\ rbuf_rx' = Put(rbuf_rx, received + 1)
  /\ filled' = (filled \/ rbuf_rx'.full)
  /\ sem_rx' = IF rbuf_rx'.full THEN sem_rx ELSE sem_rx + 1
  /\ UNCHANGED <<lastRead, txvars>>

(* Mutant of RxChar: the put announces the character as well. *)
RxCharTwice ==
  /\ received' = received + 1
  /\ rbuf_rx' = Put(rbuf_rx, received + 1)
  /\ filled' = (filled \/ rbuf_rx'.full)
  /\ sem_rx' = IF rbuf_rx.full THEN sem_rx + 1 ELSE sem_rx + 2
  /\ UNCHANGED <<lastRead, txvars>>

(* serial_rx_char: the token is released whether or not the character fits. *)
RxChar ==
  /\ received' = received + 1
  /\ rbuf_rx' = Put(rbuf_rx, received + 1)
  /\ filled' = (filled \/ rbuf_rx'.full)
  /\ sem_rx' = sem_rx + 1
  /\ UNCHANGED <<lastRead, txvars>>

(* serial_tx_char of a driver that asks for the next character. *)
TxChar ==
  /\ ~rbuf_empty(rbuf_tx)
  /\ rbuf_tx' = Get(rbuf_tx)
  /\ lastSent' = IF Char(rbuf_tx) > lastSent THEN Char(rbuf_tx) ELSE lastSent
  /\ UNCHANGED <<rxvars, written>>

(* The interrupt at the end of a character.  Without another one the driver  *)
(* calls serial_tx_done, whose test finds the ring empty as well, and stops. *)
UartIrq ==
  /\ uart
  /\ \/ TxChar /\ UNCHANGED uart
     \/ /\ rbuf_empty(rbuf_tx)
        /\ uart' = FALSE
        /\ UNCHANGED <<rbuf_tx, written, lastSent, rxvars>>

(* Mutant of StartTx: the transmitter is started by a full ring only. *)
StartTxFull ==
  IF uart \/ ~rbuf_tx.full
  THEN UNCHANGED linevars
  ELSE TxChar /\ uart' = TRUE

(* uart_start_tx, with the interrupts disabled. *)
StartTx ==
  IF uart \/ rbuf_empty(rbuf_tx)
  THEN UNCHANGED linevars
  ELSE TxChar /\ uart' = TRUE

-----------------------------------------------------------------------------
(* The task's rbuf_put into rbuf_tx, after it found the ring not full: the   *)
(* character and head; the comparison of head and tail; full.                *)

TaskStore ==
  /\ rbuf_tx' = Store(rbuf_tx, written + 1)
  /\ written' = written + 1
  /\ UNCHANGED <<rxvars, uart, lastSent>>

TaskSetFull(same) ==
  /\ rbuf_tx' = [rbuf_tx EXCEPT !.full = same]
  /\ UNCHANGED <<rxvars, uart, written, lastSent>>

(* The task's rbuf_get from rbuf_rx: the character and tail; then full. *)

TaskTake ==
  /\ rbuf_rx' = Advance(rbuf_rx)
  /\ lastRead' = Char(rbuf_rx)
  /\ UNCHANGED <<sem_rx, received, filled, txvars>>

(* Mutant of TaskClearFull: full stays. *)
TaskClearFullNever == UNCHANGED linevars

TaskClearFull ==
  /\ rbuf_rx' = [rbuf_rx EXCEPT !.full = FALSE]
  /\ UNCHANGED <<sem_rx, received, filled, lastRead, txvars>>

(* dpl_sem_pend of serial_read *)
Pend ==
  /\ sem_rx > 0
  /\ sem_rx' = sem_rx - 1
  /\ UNCHANGED <<rbuf_rx, received, filled, lastRead, txvars>>

-----------------------------------------------------------------------------
LineInit ==
  /\ rbuf_rx = rbuf_init /\ rbuf_tx = rbuf_init
  /\ sem_rx = 0
  /\ uart = FALSE
  /\ received = 0 /\ written = 0 /\ lastRead = 0 /\ lastSent = 0
  /\ filled = FALSE

Rbuf == [buffer : [Index -> Nat], head : Index, tail : Index, full : BOOLEAN]

LineTypeOK ==
  /\ rbuf_rx \in Rbuf /\ rbuf_tx \in Rbuf
  /\ sem_rx \in Nat
  /\ {uart, filled} \subseteq BOOLEAN
  /\ {received, written, lastRead, lastSent} \subseteq Nat
=============================================================================
