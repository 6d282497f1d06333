----------------------------- MODULE MCHomeInfo -----------------------------
(***************************************************************************)
(* HomeInfo instantiated for TLC.  One model time unit is one second: the *)
(* status poll runs every unit and the info pages time out after 10 units, *)
(* the literals of layoutHomeInfo().  At most one unit passes between two  *)
(* polls (the main loop polls every few milliseconds), so every threshold *)
(* is reached by a poll and none is jumped over.                           *)
(***************************************************************************)
EXTENDS HomeInfo

MCMaxStep == 1
MCInfoTimeout == 10
MCLogoPeriod == 1
\* An auto-lock delay longer than the info timeout, so that the lock timer
\* restarted on leaving the info pages is still running when they time out.
MCAutoLockDelay == 12

\* Stamps that never wrap (the 64-bit time of spec 5).
MCTimerMod == 0

\* uint32 stamps, with 2^32 ms scaled down to 6 units: the info pages time
\* out after 3 and the device locks after 5, the largest delay that one
\* unit between polls cannot jump over.
MCWrapMod == 6
MCWrapInfoTimeout == 3
MCWrapAutoLockDelay == 5

\* Every combination of edges in one poll: the code's priorities between
\* UpUp, DownUp and NoUp, and NoUp seen again by the cancel check.
MCEdgeSetsAll == SUBSET Buttons

\* At most one edge per poll: for the wrap run, where only the absence
\* of input matters in the end.
MCEdgeSetsSingle == {{}} \cup {{e} : e \in Buttons}

=============================================================================
