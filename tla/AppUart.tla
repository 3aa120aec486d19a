-------------------------------- MODULE AppUart --------------------------------
(***************************************************************************)
(* The serial port of the application: the UART driver (nrf_drv_uart.c),   *)
(* the byte FIFOs on top of it (app_uart_fifo.c), the application's event  *)
(* handler (main.c) and the main loop that gets the bytes of packets and   *)
(* puts the bytes of replies (uart_config_task.c).                         *)
(*                                                                         *)
(* The main loop is cut at its accesses to what the interrupt handler      *)
(* changes as well: the positions of the FIFOs are volatile, one load or   *)
(* store each.  A pass of the interrupt handler is one step, for nothing   *)
(* of the program interrupts it; a pass that finds two events counts as    *)
(* two passes.                                                             *)
(*                                                                         *)
(* Bytes are numbered: the i-th byte that comes over the line is i, and so *)
(* is the i-th byte the main loop puts.                                    *)
(***************************************************************************)
EXTENDS AppFifo

CONSTANTS
    MaxRx,    \* bytes that come over the line at most
    MaxTx,    \* bytes the main loop puts at most
    RxdDepth, \* bytes the UART itself holds, 6 in the chip
    Traffics  \* the kinds of traffic

(* rx bytes come, tx bytes are put; the other side sends some bytes ahead   *)
(* of what the main loop has got; with errors, bytes may be spoiled on the *)
(* line or come too fast for the UART.                                     *)
Traffic == [rx : 0 .. MaxRx, tx : 0 .. MaxTx, ahead : Nat \ {0}, errors : BOOLEAN]

ASSUME UartAssumption ==
    /\ MaxRx \in Nat /\ MaxTx \in Nat
    /\ RxdDepth \in Nat \ {0}
    /\ Traffics \subseteq Traffic

VARIABLES
    traffic,  \* the traffic of this behaviour
    m_rx_fifo, m_tx_fifo,
    m_cb,      \* the driver's control block, m_cb of nrf_drv_uart.c
    tx_buffer, \* the byte handed to the driver
    hw,        \* the registers of the UART
    main,      \* where the main loop is, and what it has loaded
    arrived,   \* bytes that came over the line so far
    put,       \* bytes the main loop has tried to put so far
    got,       \* history: what the main loop got
    out        \* history: what went out on the line

fifos   == <<m_rx_fifo, m_tx_fifo>>
port    == <<m_cb, tx_buffer, hw>>
history == <<arrived, put, got, out>>
uartVars == <<traffic, fifos, port, main, history>>

NoByte    == 0
UartBytes == 0 .. (IF MaxRx > MaxTx THEN MaxRx ELSE MaxTx)

Places ==
    {"idle", "get_full", "get_rx", "get_read", "get_write", "get_byte", "get_load", "get_store",
     "reply", "put_read", "put_write", "put_byte", "put_load", "put_store", "put_busy",
     "pop_read", "pop_write", "pop_byte", "pop_load", "pop_store", "tx_start"}

UartTypeOK ==
    /\ traffic \in Traffic
    /\ m_rx_fifo \in Fifos(UartBytes) /\ m_tx_fifo \in Fifos(UartBytes)
    /\ m_cb \in [rx_buffer_length : 0 .. 1, rx_secondary_buffer_length : 0 .. 1,
                 tx_buffer_length : 0 .. 1]
    /\ tx_buffer \in UartBytes
    /\ hw \in [rxd : Seq(UartBytes), rxdrdy : BOOLEAN, error : BOOLEAN, rx_int : BOOLEAN,
               txd : UartBytes, txdrdy : BOOLEAN]
    /\ main \in [at : Places, pos : Positions, byte : UartBytes]
    /\ arrived \in 0 .. MaxRx /\ put \in 0 .. MaxTx
    /\ got \in Seq(UartBytes) /\ out \in Seq(UartBytes)

(* After app_uart_init: the receiver runs and waits for one byte. *)
InitialCb == [rx_buffer_length |-> 1, rx_secondary_buffer_length |-> 0, tx_buffer_length |-> 0]
InitialHw == [rxd |-> <<>>, rxdrdy |-> FALSE, error |-> FALSE, rx_int |-> TRUE,
              txd |-> NoByte, txdrdy |-> FALSE]
EmptyFifo == [buf |-> [i \in 0 .. buf_size_mask |-> NoByte], read_pos |-> 0, write_pos |-> 0]

UartInit ==
    /\ traffic \in Traffics
    /\ m_rx_fifo = EmptyFifo /\ m_tx_fifo = EmptyFifo
    /\ m_cb = InitialCb
    /\ tx_buffer = NoByte
    /\ hw = InitialHw
    /\ main = [at |-> "idle", pos |-> 0, byte |-> NoByte]
    /\ arrived = 0 /\ put = 0
    /\ got = <<>> /\ out = <<>>

-----------------------------------------------------------------------------
(* nrf_drv_uart_rx(rx_buffer, 1): waits for one byte, or for a second one   *)
(* after that.  Both go to the same byte of memory.                        *)
RxBusy(cb) == cb.rx_buffer_length # 0 /\ cb.rx_secondary_buffer_length # 0

RxRequested(cb) ==
    IF cb.rx_buffer_length # 0
    THEN [cb EXCEPT !.rx_secondary_buffer_length = 1]
    ELSE [cb EXCEPT !.rx_buffer_length = 1, !.rx_secondary_buffer_length = 0]

(* The driver has its byte: it goes on with the second buffer, or has none  *)
(* left and disables the interrupt of the receiver.                        *)
RxCompleted(cb) ==
    [cb EXCEPT !.rx_buffer_length = cb.rx_secondary_buffer_length,
               !.rx_secondary_buffer_length = 0]

(* Reading RXD: the next byte of the UART's own FIFO moves up and is        *)
(* announced again.                                                        *)
RxdReadOnce(h) == [h EXCEPT !.rxd = Tail(@), !.rxdrdy = FALSE]   \* slip
RxdRead(h) == [h EXCEPT !.rxd = Tail(@), !.rxdrdy = Len(h.rxd) > 1]

(* nrf_drv_uart_tx: the byte goes to TXD. *)
TxStarted(h, byte) == [h EXCEPT !.txd = byte, !.txdrdy = FALSE]

-----------------------------------------------------------------------------
(* The line and the UART. *)

InFlight == fifo_length(m_rx_fifo) + Len(hw.rxd)

(* A byte comes over the line. *)
LineByte ==
    /\ arrived < traffic.rx
    /\ InFlight < traffic.ahead
    /\ Len(hw.rxd) < RxdDepth
    /\ arrived' = arrived + 1
    /\ hw' = [hw EXCEPT !.rxd = Append(@, arrived + 1), !.rxdrdy = @ \/ hw.rxd = <<>>]
    /\ UNCHANGED <<fifos, m_cb, tx_buffer, main, put, got, out>>

(* A byte comes with a framing error, or finds no room in the UART. *)
LostByte ==
    /\ traffic.errors
    /\ arrived < traffic.rx
    /\ arrived' = arrived + 1
    /\ hw' = [hw EXCEPT !.error = TRUE]
    /\ UNCHANGED <<fifos, m_cb, tx_buffer, main, put, got, out>>

(* The byte in TXD is out. *)
ByteSent ==
    /\ hw.txd # NoByte
    /\ out' = Append(out, hw.txd)
    /\ hw' = [hw EXCEPT !.txd = NoByte, !.txdrdy = TRUE]
    /\ UNCHANGED <<fifos, m_cb, tx_buffer, main, arrived, put, got>>

-----------------------------------------------------------------------------
(* UART0_IRQHandler. *)

(* RXDRDY: the byte goes through rx_buffer into the FIFO, or nowhere if the *)
(* FIFO is full; the driver is asked for the next one if there is room.    *)
RxDone ==
    /\ hw.rx_int /\ hw.rxdrdy /\ ~hw.error
    /\ m_rx_fifo' = IF Full(m_rx_fifo) THEN m_rx_fifo ELSE fifo_put(m_rx_fifo, Head(hw.rxd))
    /\ m_cb' = IF Full(m_rx_fifo') THEN RxCompleted(m_cb) ELSE RxRequested(RxCompleted(m_cb))
    /\ hw' = [RxdRead(hw) EXCEPT !.rx_int = m_cb'.rx_buffer_length # 0]
    /\ UNCHANGED <<m_tx_fifo, tx_buffer, main, history>>

CommErrorIgnored ==   \* slip
    /\ hw.rx_int /\ hw.error
    /\ m_cb' = [m_cb EXCEPT !.rx_buffer_length = 0, !.rx_secondary_buffer_length = 0]
    /\ hw' = [hw EXCEPT !.error = FALSE, !.rx_int = FALSE]
    /\ UNCHANGED <<fifos, tx_buffer, main, history>>

(* ERROR: the application's event handler shuts the driver down and sets    *)
(* everything up again, whatever the main loop is doing.                   *)
CommError ==
    /\ hw.rx_int /\ hw.error
    /\ m_cb' = InitialCb
    /\ hw' = InitialHw
    /\ m_rx_fifo' = Initialised(m_rx_fifo)
    /\ m_tx_fifo' = Initialised(m_tx_fifo)
    /\ UNCHANGED <<tx_buffer, main, history>>

TxDoneStops ==   \* slip
    /\ hw.txdrdy
    /\ m_cb' = [m_cb EXCEPT !.tx_buffer_length = 0]
    /\ hw' = [hw EXCEPT !.txdrdy = FALSE]
    /\ UNCHANGED <<fifos, tx_buffer, main, history>>

(* TXDRDY: the next byte of the FIFO goes out. *)
TxDone ==
    /\ hw.txdrdy
    /\ IF m_cb.tx_buffer_length = 0 \/ Empty(m_tx_fifo)
       THEN /\ m_cb' = [m_cb EXCEPT !.tx_buffer_length = 0]
            /\ hw' = [hw EXCEPT !.txdrdy = FALSE]
            /\ UNCHANGED <<m_tx_fifo, tx_buffer>>
       ELSE LET byte == ByteAt(m_tx_fifo, m_tx_fifo.read_pos)
            IN /\ tx_buffer' = byte
               /\ m_tx_fifo' = fifo_get(m_tx_fifo)
               /\ hw' = TxStarted(hw, byte)
               /\ UNCHANGED m_cb
    /\ UNCHANGED <<m_rx_fifo, main, history>>

-----------------------------------------------------------------------------
(* The main loop.  Places named get_ are in app_uart_get, put_ in            *)
(* app_uart_put, pop_ in the app_fifo_get with which a put starts a          *)
(* transmission, tx_ in nrf_drv_uart_tx.                                     *)

Load(from, to, pos) == main.at = from /\ main' = [main EXCEPT !.at = to, !.pos = pos]
Go(from, to)        == main.at = from /\ main' = [main EXCEPT !.at = to]

(* A position is loaded: to compute a length, or to be stored one higher. *)
LoadPosition ==
    /\ \/ Load("idle", "get_full", m_rx_fifo.read_pos)
       \/ Load("get_read", "get_write", m_rx_fifo.read_pos)
       \/ Load("get_load", "get_store", m_rx_fifo.read_pos)
       \/ Load("put_read", "put_write", m_tx_fifo.read_pos)
       \/ Load("put_load", "put_store", m_tx_fifo.write_pos)
       \/ Load("pop_read", "pop_write", m_tx_fifo.read_pos)
       \/ Load("pop_load", "pop_store", m_tx_fifo.read_pos)
    /\ UNCHANGED <<fifos, port, history>>

(* app_uart_get: one byte short of full the driver is asked for a byte. *)
GetFull ==
    /\ Go("get_full", IF Distance(main.pos, m_rx_fifo.write_pos) = buf_size_mask
                      THEN "get_rx" ELSE "get_read")
    /\ UNCHANGED <<fifos, port, history>>

(* The driver still waits for two bytes: NRF_ERROR_NOT_FOUND. *)
GetRx ==
    /\ Go("get_rx", IF RxBusy(m_cb) THEN "idle" ELSE "get_read")
    /\ m_cb' = IF RxBusy(m_cb) THEN m_cb ELSE RxRequested(m_cb)
    /\ hw' = [hw EXCEPT !.rx_int = TRUE]
    /\ UNCHANGED <<fifos, tx_buffer, history>>

GetEmpty ==
    /\ Go("get_write", IF Distance(main.pos, m_rx_fifo.write_pos) = 0 THEN "idle" ELSE "get_byte")
    /\ UNCHANGED <<fifos, port, history>>

GetByte ==
    /\ main.at = "get_byte"
    /\ main' = [main EXCEPT !.at = "get_load", !.byte = ByteAt(m_rx_fifo, m_rx_fifo.read_pos)]
    /\ UNCHANGED <<fifos, port, history>>

(* A byte that completes a packet makes the main loop reply. *)
GetStore ==
    /\ \E to \in {"idle", "reply"} : Go("get_store", to)
    /\ m_rx_fifo' = [m_rx_fifo EXCEPT !.read_pos = After(main.pos)]
    /\ got' = Append(got, main.byte)
    /\ UNCHANGED <<m_tx_fifo, port, arrived, put, out>>

(* CfgUARTSendData: one app_uart_put for each byte, whatever it returns. *)
ReplyByte ==
    /\ put < traffic.tx
    /\ Go("reply", "put_read")
    /\ put' = put + 1
    /\ UNCHANGED <<fifos, port, arrived, got, out>>

ReplyEnd == Go("reply", "idle") /\ UNCHANGED <<fifos, port, history>>

(* app_uart_put: NRF_ERROR_NO_MEM if the FIFO is full. *)
PutFull ==
    /\ Go("put_write", IF Distance(main.pos, m_tx_fifo.write_pos) <= buf_size_mask
                       THEN "put_byte" ELSE "reply")
    /\ UNCHANGED <<fifos, port, history>>

PutByte ==
    /\ Go("put_byte", "put_load")
    /\ m_tx_fifo' = StoreAt(m_tx_fifo, m_tx_fifo.write_pos, put)
    /\ UNCHANGED <<m_rx_fifo, port, history>>

PutStore ==
    /\ Go("put_store", "put_busy")
    /\ m_tx_fifo' = [m_tx_fifo EXCEPT !.write_pos = After(main.pos)]
    /\ UNCHANGED <<m_rx_fifo, port, history>>

(* nrf_drv_uart_tx_in_progress: the interrupt handler will take the byte,   *)
(* or nothing is being sent and this call has to start.                    *)
PutBusy ==
    /\ Go("put_busy", IF m_cb.tx_buffer_length # 0 THEN "reply" ELSE "pop_read")
    /\ UNCHANGED <<fifos, port, history>>

PopEmpty ==
    /\ Go("pop_write", IF Distance(main.pos, m_tx_fifo.write_pos) = 0 THEN "reply" ELSE "pop_byte")
    /\ UNCHANGED <<fifos, port, history>>

PopByte ==
    /\ Go("pop_byte", "pop_load")
    /\ tx_buffer' = ByteAt(m_tx_fifo, m_tx_fifo.read_pos)
    /\ UNCHANGED <<fifos, m_cb, hw, history>>

PopStore ==
    /\ Go("pop_store", "tx_start")
    /\ m_tx_fifo' = [m_tx_fifo EXCEPT !.read_pos = After(main.pos)]
    /\ UNCHANGED <<m_rx_fifo, port, history>>

(* nrf_drv_uart_tx. *)
TxStart ==
    /\ Go("tx_start", "reply")
    /\ m_cb' = [m_cb EXCEPT !.tx_buffer_length = 1]
    /\ hw' = TxStarted(hw, tx_buffer)
    /\ UNCHANGED <<fifos, tx_buffer, history>>

MainLoop ==
    \/ LoadPosition
    \/ GetFull \/ GetRx \/ GetEmpty \/ GetByte \/ GetStore
    \/ ReplyByte \/ ReplyEnd
    \/ PutFull \/ PutByte \/ PutStore \/ PutBusy
    \/ PopEmpty \/ PopByte \/ PopStore \/ TxStart

(* The traffic stays what it was at the start. *)
Kept(A) == A /\ UNCHANGED traffic

UartNext == Kept(LineByte \/ LostByte \/ ByteSent \/ RxDone \/ CommError \/ TxDone \/ MainLoop)

(* The main loop never blocks, an enabled interrupt is served, and a byte   *)
(* in TXD goes out.  Nobody has to send anything.                          *)
UartFairness ==
    /\ WF_uartVars(Kept(MainLoop)) /\ WF_uartVars(Kept(ByteSent))
    /\ WF_uartVars(Kept(RxDone)) /\ WF_uartVars(Kept(CommError)) /\ WF_uartVars(Kept(TxDone))

UartSpec == UartInit /\ [][UartNext]_uartVars /\ UartFairness

-----------------------------------------------------------------------------
(* Received bytes that the main loop has not got, and bytes it has put that *)
(* are not out yet, each oldest first.                                     *)
RxPending == BytesIn(m_rx_fifo) \o hw.rxd

TxPending ==
    (IF hw.txd # NoByte THEN <<hw.txd>> ELSE <<>>)
      \o (IF main.at = "tx_start" THEN <<tx_buffer>> ELSE <<>>)
      \o BytesIn(m_tx_fifo)

(* What came over the line reaches the main loop in order, each byte once,  *)
(* although interrupt and main loop work on the FIFO without a lock.  No    *)
(* byte is lost as long as the other side sends no more ahead than the     *)
(* FIFO holds.  (Claimed for a line without errors: see GetsOnlyReceived.)  *)
Ample == traffic.ahead <= BufSize

RxStream == INSTANCE Stream WITH
    Item <- 1 .. MaxRx, lossy <- ~Ample,
    pending <- (IF traffic.errors THEN <<>> ELSE RxPending),
    taken <- (IF traffic.errors THEN <<>> ELSE got)
RxInOrder == RxStream!Spec

(* What app_uart_put has taken goes out in order, and all of it. *)
TxStream == INSTANCE Stream WITH
    Item <- 1 .. MaxTx, lossy <- FALSE,
    pending <- (IF traffic.errors THEN <<>> ELSE TxPending),
    taken <- (IF traffic.errors THEN <<>> ELSE out)
TxInOrder == TxStream!Spec

(* The receiver waits for a byte unless the FIFO is full or one byte short  *)
(* of it, and its interrupt is enabled exactly when it waits: it never     *)
(* stays off once the main loop has made room (uart_event_handler,         *)
(* app_uart_get).  With errors on the line this is claimed of fewer bytes  *)
(* than fill the FIFO: the handler of an error sets the positions back     *)
(* while the main loop may be about to store one of them, and if the FIFO  *)
(* is filled again before that store, the receiver stays off.              *)
ReceiverArmed ==
    /\ hw.rx_int = (m_cb.rx_buffer_length # 0)
    /\ ~hw.rx_int /\ (traffic.errors => arrived < BufSize)
         => fifo_length(m_rx_fifo) >= buf_size_mask

(* Once no more bytes come, every byte that came has been got, if the other *)
(* side stays two bytes short of the FIFO's size, and every byte that was  *)
(* put has gone out.  (One byte short of it app_uart_get may refuse for     *)
(* ever, see GetRx: the driver takes no third request, and no byte comes    *)
(* that would change it.)                                                  *)
RxDelivered ==
    ~traffic.errors /\ traffic.ahead <= BufSize - 2 => <>[](RxPending = <<>>)
TxDelivered == ~traffic.errors => <>[](TxPending = <<>>)

(* app_uart.h: NRF_SUCCESS "If a byte has been received": what the main     *)
(* loop gets are bytes that came, each once and in their order.            *)
GetsOnlyReceived ==
    \A i \in DOMAIN got : /\ got[i] \in 1 .. arrived
                          /\ i > 1 => got[i - 1] < got[i]
=============================================================================
