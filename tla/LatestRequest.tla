---------------------------- MODULE LatestRequest ----------------------------
(***************************************************************************)
(* What a view promises about the answers it shows when its requests       *)
(* overlap: requests are numbered, and what is on display comes from the   *)
(* newest request there was when its answer arrived.  An answer that was   *)
(* overtaken is dropped, so the display never goes back to an older one    *)
(* while the view stays mounted.                                           *)
(***************************************************************************)
EXTENDS Naturals

VARIABLES mounted,   \* the view
          asked,     \* the number of its newest request; 0: none yet
          shown      \* the request whose answer is on display; 0: none

Init == asked = 0 /\ shown = 0

\* One callback may send more than one request.
Ask ==
  /\ asked' > asked
  /\ UNCHANGED <<mounted, shown>>

Show ==
  /\ shown < asked
  /\ shown' = asked
  /\ UNCHANGED <<mounted, asked>>

\* Another view takes the place of this one, and may ask at once.
Mount ==
  /\ mounted' # mounted
  /\ asked' \in {0, 1}
  /\ shown' = 0

Next == Ask \/ Show \/ Mount

Spec == Init /\ [][Next]_<<mounted, asked, shown>>
==============================================================================
