------------------------ MODULE SubscriptionLifecycle ------------------------
(***************************************************************************)
(* What a subscription may do, seen from outside: it is opened at checkout *)
(* (a walk-in: the company had nothing active) or put in the queue, it     *)
(* goes live, it ends, and it may come back.  A walk-in is never put in    *)
(* the queue, never returns to checkout, and is not live before a payment  *)
(* of its own was settled.  Settling a payment takes an intent that Stripe *)
(* charged; which one, and for what, is not looked at.                     *)
(***************************************************************************)
CONSTANTS Sub, Intent

VARIABLES
    phase,   \* absent, checkout, waiting, live or over
    walkIn,
    charged, \* the intents Stripe has charged
    settled  \* the subscriptions a payment was settled for

lifecycleVars == <<phase, walkIn, charged, settled>>

LifecycleInit ==
    /\ phase = [s \in Sub |-> "absent"]
    /\ walkIn = {}
    /\ charged = {}
    /\ settled = {}

Become(s, ph) == phase' = [phase EXCEPT ![s] = ph]

Open(s) ==
    /\ phase[s] = "absent"
    /\ Become(s, "checkout")
    /\ walkIn' = walkIn \cup {s}
    /\ UNCHANGED <<charged, settled>>

Enqueue(s) ==
    /\ phase[s] = "absent" \/ s \notin walkIn
    /\ Become(s, "waiting")
    /\ UNCHANGED <<walkIn, charged, settled>>

Charge(i) ==
    /\ charged' = charged \cup {i}
    /\ UNCHANGED <<phase, walkIn, settled>>

Settle(s) ==
    /\ phase[s] # "absent"
    /\ charged # {}
    /\ settled' = settled \cup {s}
    /\ UNCHANGED <<phase, walkIn, charged>>

GoLive(s) ==
    /\ phase[s] # "absent"
    /\ s \in walkIn => s \in settled
    /\ Become(s, "live")
    /\ UNCHANGED <<walkIn, charged, settled>>

End(s) ==
    /\ phase[s] # "absent"
    /\ Become(s, "over")
    /\ UNCHANGED <<walkIn, charged, settled>>

LifecycleNext ==
    \/ \E s \in Sub : Open(s) \/ Enqueue(s) \/ Settle(s) \/ GoLive(s) \/ End(s)
    \/ \E i \in Intent : Charge(i)

Lifecycle == LifecycleInit /\ [][LifecycleNext]_lifecycleVars
=============================================================================
