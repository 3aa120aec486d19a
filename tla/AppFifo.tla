-------------------------------- MODULE AppFifo --------------------------------
(***************************************************************************)
(* The byte FIFO of the SDK (app_fifo.c): a buffer whose size is a power   *)
(* of two and two positions that only ever grow, each an unsigned integer  *)
(* of PosRange values.  The position modulo the size is the index into the *)
(* buffer; full and empty are told apart by the difference of the two.     *)
(*                                                                         *)
(* The operators say what each access of a FIFO computes; a module that    *)
(* uses one decides which of them happen in one step.                      *)
(***************************************************************************)
EXTENDS Integers, Sequences

CONSTANTS
    BufSize,   \* size of the buffer, 1024 in the application
    PosRange   \* number of values of a position, 2^32 in the code

ASSUME BufSizeAssumption == BufSize \in Nat /\ BufSize >= 2
ASSUME PosRangeAssumption ==
    PosRange \in Nat /\ PosRange >= 2 * BufSize /\ PosRange % BufSize = 0

buf_size_mask == BufSize - 1

Positions == 0 .. PosRange - 1

Fifos(Bytes) == [buf : [0 .. buf_size_mask -> Bytes],
                 read_pos : Positions, write_pos : Positions]

(* app_fifo_init: the positions start over, the old bytes stay in the      *)
(* buffer.                                                                 *)
Initialised(f) == [f EXCEPT !.read_pos = 0, !.write_pos = 0]

(* write_pos - read_pos in unsigned arithmetic, as fifo_length computes    *)
(* it from the two values it has loaded.                                   *)
Distance(read, write) == (write - read + PosRange) % PosRange

fifo_length(f) == Distance(f.read_pos, f.write_pos)

AfterUnwrapped(pos) == pos + 1   \* slip
After(pos) == (pos + 1) % PosRange

ByteAt(f, pos) == f.buf[pos % BufSize]

StoreAt(f, pos, byte) == [f EXCEPT !.buf[pos % BufSize] = byte]

(* app_fifo_put and app_fifo_get by a caller that is not interrupted. *)
Full(f)  == fifo_length(f) > buf_size_mask
Empty(f) == fifo_length(f) = 0

PutBehind(f, byte) ==   \* slip
    [StoreAt(f, After(f.write_pos), byte) EXCEPT !.write_pos = After(@)]
fifo_put(f, byte) == [StoreAt(f, f.write_pos, byte) EXCEPT !.write_pos = After(@)]

OnlyPeeked(f) == f   \* slip
fifo_get(f) == [f EXCEPT !.read_pos = After(@)]

(* The bytes in the FIFO, oldest first. *)
BytesIn(f) == [i \in 1 .. fifo_length(f) |-> ByteAt(f, f.read_pos + i - 1)]
=============================================================================
