------------------------------ MODULE MCProtocols ------------------------------
(***************************************************************************)
(* Bounds for CfgParser, HostFrames and AppTimer.  The three share nothing *)
(* and are checked side by side: the initial state chooses the one that    *)
(* runs, the other two rest.                                               *)
(***************************************************************************)
EXTENDS CfgParser, HostFrames, AppTimer

CONSTANTS fast, slow

UpTo(n) == UNION {[1 .. k -> Byte] : k \in 1 .. n}
Exactly(n) == [1 .. n -> Byte]

(* With bytes of the data changed, any data; with all other kinds of noise, *)
(* a few of either length without a start code.                            *)
PacketContents == [kind \in {"data", "any"} |->
    IF kind = "data" THEN UpTo(lenMax) ELSE {<<1>>, <<2>>, <<0, 2>>, <<2, 2>>}]
ReplyContents  == Exactly(2)

PacketBounds == [kind \in {"data", "any"} |-> 2]

(* With bytes changed, and without. *)
ReplyBounds == [changed \in BOOLEAN |-> IF changed THEN 2 ELSE 4]

(* Two timers whose times drift past each other. *)
TwoTimers == {fast, slow}
Intervals == [t \in TwoTimers |-> IF t = fast THEN 9 ELSE 13]

VARIABLE component

allVars == <<component, parserVars, framesVars, timerVars>>

MCInit ==
    /\ component \in {"packets", "replies", "timers"}
    /\ ParserInit /\ FramesInit /\ TimerInit
    /\ component # "packets" => noise = "data"
    /\ component # "replies" => ~spoils

MCNext ==
    \/ component = "packets" /\ ParserNext /\ UNCHANGED <<component, framesVars, timerVars>>
    \/ component = "replies" /\ FramesNext /\ UNCHANGED <<component, parserVars, timerVars>>
    \/ component = "timers" /\ TimerNext /\ UNCHANGED <<component, parserVars, framesVars>>

MCSpec == MCInit /\ [][MCNext]_allVars

(* Sums, positions and queues stay within the fields the code declares for  *)
(* them (CfgParserPacket, comTempBuffer, app_timer.c).                     *)
ProtocolsTypeOK == ParserTypeOK /\ FramesTypeOK /\ TimerTypeOK
=============================================================================
