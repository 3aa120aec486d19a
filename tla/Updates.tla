-------------------------------- MODULE Updates --------------------------------
(***************************************************************************)
(* What the tool, the device and its bootloader promise together to a user *)
(* who presses Download only when all has settled: nothing but the file    *)
(* the user asked for last is ever offered to the bootloader, what is on   *)
(* offer stays on offer until it is installed, and nothing else is         *)
(* installed.  To a user who hurries nothing is promised any more.         *)
(***************************************************************************)
CONSTANTS
    Files,
    NoFile,
    EmptyOffers  \* whether the bootloader may meet an offer of nothing

VARIABLES
    wanted,     \* the file that the user asked for last
    offered,    \* the file on offer to the bootloader
    installed,  \* the application of the device
    rushed      \* whether the user has hurried

Init ==
    /\ wanted \in Files /\ installed \in Files
    /\ offered = NoFile
    /\ rushed = FALSE

Ask ==
    /\ offered = NoFile
    /\ wanted' \in Files
    /\ UNCHANGED <<offered, installed>>

Offer ==
    /\ offered = NoFile
    /\ offered' = wanted
    /\ UNCHANGED <<wanted, installed>>

Install ==
    /\ offered # NoFile
    /\ installed' = offered
    /\ offered' = NoFile
    /\ UNCHANGED wanted

(* An offer of nothing costs the old application. *)
Lose ==
    /\ EmptyOffers /\ offered = NoFile
    /\ installed' = NoFile
    /\ UNCHANGED <<wanted, offered>>

Next ==
    \/ rushed'
    \/ ~rushed /\ (Ask \/ Offer \/ Install \/ Lose)

Spec == Init /\ [][Next]_<<wanted, offered, installed, rushed>>
=============================================================================
