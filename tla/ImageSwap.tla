------------------------------- MODULE ImageSwap -------------------------------
(***************************************************************************)
(* What the bootloader promises about the application bank, with no flash  *)
(* pages, queue or states in it: an application is started only when it is *)
(* whole, an offered image replaces the old one before anything is         *)
(* started, and the offer is withdrawn only once the new image is whole.   *)
(* Power can go at any moment.                                             *)
(***************************************************************************)
VARIABLES
    app,      \* what the bank holds: "old", "partial" or "new"
    pending,  \* the external flash offers an image to install
    running   \* an application has been started

vars == <<app, pending, running>>

TypeOK ==
    /\ app \in {"old", "partial", "new"}
    /\ pending \in BOOLEAN
    /\ running \in BOOLEAN

Init ==
    /\ app = "old"
    /\ pending \in BOOLEAN
    /\ running = FALSE

(* Part of the bank is erased, written or left in pieces. *)
Overwrite ==
    /\ pending /\ ~running
    /\ app' = "partial"
    /\ UNCHANGED <<pending, running>>

Complete ==
    /\ pending /\ ~running
    /\ app = "partial"
    /\ app' = "new"
    /\ UNCHANGED <<pending, running>>

Withdraw ==
    /\ pending /\ app = "new"
    /\ pending' = FALSE
    /\ UNCHANGED <<app, running>>

Start ==
    /\ ~running
    /\ app = "new" \/ (app = "old" /\ ~pending)
    /\ running' = TRUE
    /\ UNCHANGED <<app, pending>>

(* A reset; the offer may be going while it happens. *)
Stop ==
    /\ running
    /\ running' = FALSE
    /\ pending' = pending \/ (app = "new" /\ pending' = FALSE)
    /\ UNCHANGED app

Next == Overwrite \/ Complete \/ Withdraw \/ Start \/ Stop

Spec == Init /\ [][Next]_vars
=============================================================================
