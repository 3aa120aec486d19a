---------------------------- MODULE Protocols_proofs ----------------------------
(***************************************************************************)
(* Proofs about the three components of MCProtocols side by side: each     *)
(* makes its own steps or none, so that what is proved of each in          *)
(* SerialLine_proofs and AppTimer_proofs holds of the three together.      *)
(***************************************************************************)
EXTENDS MCProtocols, SerialLine_proofs, AppTimer_proofs

LEMMA ProtocolsBegin == MCInit => ParserInit /\ FramesInit /\ TimerInit
BY DEF MCInit

(* A step of one component leaves the other two alone. *)
LEMMA ProtocolsStep ==
    [MCNext]_allVars =>
        [ParserNext]_parserVars /\ [FramesNext]_framesVars /\ [TimerNext]_timerVars
BY DEF MCNext, allVars

LEMMA EachProtocolOnItsOwn ==
    MCSpec =>
        /\ ParserInit /\ [][ParserNext]_parserVars
        /\ FramesInit /\ [][FramesNext]_framesVars
        /\ TimerInit /\ [][TimerNext]_timerVars
BY ProtocolsBegin, ProtocolsStep, PTL DEF MCSpec

(* Sums, positions, queues and the timer list stay within the fields the    *)
(* code declares for them, whichever component runs (CfgParserPacket,      *)
(* comTempBuffer, app_timer.c).                                            *)
THEOREM ProtocolsTypeCorrect == MCSpec => []ProtocolsTypeOK
<1>1. ParserSpec => []ParserTypeOK
  BY ParserTypeCorrect
<1>2. FramesSpec => []FramesTypeOK
  BY ToolTypeCorrect
<1>3. TimerInit /\ [][TimerNext]_timerVars => []TimerTypeOK
  BY TimerInvariant, TimerInvTyped, PTL
<1>4. ParserTypeOK /\ FramesTypeOK /\ TimerTypeOK => ProtocolsTypeOK
  BY DEF ProtocolsTypeOK
<1> QED
  BY <1>1, <1>2, <1>3, <1>4, EachProtocolOnItsOwn, PTL DEF ParserSpec, FramesSpec
=============================================================================
