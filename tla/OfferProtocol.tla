---------------------------- MODULE OfferProtocol ---------------------------
(***************************************************************************)
(* What an offer letter promises both sides: it is made once, answered at  *)
(* most once and not after it lapsed, signed after it was accepted, and    *)
(* verified after it was signed.  Nothing is promised of an offer two      *)
(* requests dealt with at the same time, except that it stays one.         *)
(***************************************************************************)
CONSTANT Offer

VARIABLE phase

\* Each phase of an offer with those it may go to next.
Successors ==
    [absent    |-> {"open", "lapsed", "contested"},
     open      |-> {"accepted", "rejected", "lapsed", "contested"},
     lapsed    |-> {"contested"},
     accepted  |-> {"signed", "contested"},
     rejected  |-> {"contested"},
     signed    |-> {"verified", "contested"},
     verified  |-> {"contested"},
     contested |-> {}]

ProtocolInit == phase = [o \in Offer |-> "absent"]

Advance(o) ==
    \E ph \in Successors[phase[o]] : phase' = [phase EXCEPT ![o] = ph]

\* An overlap contests every offer made on the application at once.
Contest ==
    \E S \in SUBSET Offer :
        phase' = [o \in Offer |-> IF o \in S THEN "contested" ELSE phase[o]]

ProtocolNext == Contest \/ \E o \in Offer : Advance(o)

Protocol == ProtocolInit /\ [][ProtocolNext]_phase
=============================================================================
