---------------------------- MODULE NavAbstract ----------------------------
(***************************************************************************)
(* What the navigation engine promises (spec.md 4.3, 5, 7), without its   *)
(* timers: the screen the device shows, whether the session is unlocked   *)
(* and whether an operation is in flight.                                  *)
(*                                                                         *)
(* A poll may take several transitions of the spec's table at once (a     *)
(* refresh to home and a button, an auto-lock and a status poll), so the  *)
(* abstract steps are stated as what a step may do to each variable:      *)
(* the navigation moves between home and the info pages, aborts and       *)
(* clears but never unlocks or starts anything; the screensaver is only   *)
(* entered by a lock that clears the session; only the firmware's dialogs *)
(* unlock the session and start operations.                                *)
(***************************************************************************)

EXTENDS Naturals

VARIABLES screen, unlocked, busy

vars == <<screen, unlocked, busy>>

Page(n) == [s |-> "Info", page |-> n]
Home == [s |-> "Home", page |-> 0]
Screensaver == [s |-> "Screensaver", page |-> 0]
Dialog == [s |-> "Dialog", page |-> 0]
Off == [s |-> "Off", page |-> 0]

InfoPages == {Page(n) : n \in 1..4}

Screens == {Home, Screensaver, Dialog, Off} \cup InfoPages

TypeOK ==
    /\ screen \in Screens
    /\ unlocked \in BOOLEAN
    /\ busy \in BOOLEAN

\* A flag that a step may clear but not set.
MayClear(b) == b' \in {b, FALSE}

\* Home and the info pages, reached from any screen by a refresh, the
\* buttons, the timeout, a wake or a status event, which may abort and clear.
Navigate ==
    /\ screen # Off
    /\ screen' \in {Home} \cup InfoPages
    /\ MayClear(unlocked)
    /\ MayClear(busy)

\* A poll that leaves the screen as it is; a cancel may abort.
Stay ==
    /\ screen # Off
    /\ UNCHANGED <<screen, unlocked>>
    /\ MayClear(busy)

\* Auto-lock with a transport present: the session is cleared first.
Lock ==
    /\ screen # Off
    /\ screen' = Screensaver
    /\ unlocked' = FALSE
    /\ MayClear(busy)

\* Auto-lock without transport: power-off.
PowerOff ==
    /\ screen # Off
    /\ screen' = Off
    /\ unlocked' = FALSE
    /\ busy' = FALSE

\* The firmware's dialogs: showing one, unlocking on one, starting an
\* operation from an unlocked session, returning home when it ends.
ShowDialog ==
    /\ screen # Off
    /\ screen' = Dialog
    /\ UNCHANGED <<unlocked, busy>>

Unlock ==
    /\ screen # Off
    /\ screen' = Dialog
    /\ unlocked' = TRUE
    /\ UNCHANGED busy

Start ==
    /\ screen # Off
    /\ unlocked /\ ~busy
    /\ screen' = Dialog
    /\ busy' = TRUE
    /\ UNCHANGED unlocked

Finish ==
    /\ screen # Off
    /\ screen' = Home
    /\ MayClear(unlocked)
    /\ busy' = FALSE

PowerOn ==
    /\ screen = Off
    /\ screen' = Home
    /\ unlocked' = FALSE
    /\ busy' = FALSE

Init == screen = Home /\ ~unlocked /\ ~busy

Next ==
    \/ Navigate \/ Stay \/ Lock \/ PowerOff
    \/ ShowDialog \/ Unlock \/ Start \/ Finish \/ PowerOn

Spec == Init /\ [][Next]_vars

=============================================================================
