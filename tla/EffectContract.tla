--------------------------- MODULE EffectContract ---------------------------
(***************************************************************************)
(* What an effect is to the two sides of the broker.  To the machine it is *)
(* started once and settled at most once.  To the host it is a request     *)
(* that is open for some of the time the effect is in progress, several    *)
(* times over if the answer has to be repaired, and that is closed no      *)
(* later than the effect settles.  Only an effect the machine forgets may  *)
(* leave its request open, until the run is wound up.                      *)
(***************************************************************************)
CONSTANT Effect

VARIABLES
  life,   \* per effect: new, busy, done or forgotten
  open    \* the effects the host has an open request for

Init == life = [p \in Effect |-> "new"] /\ open = {}

Begin(p) ==
  /\ life[p] = "new"
  /\ life' = [life EXCEPT ![p] = "busy"]
  /\ UNCHANGED open

Exchange(p) ==
  /\ life[p] = "busy"
  /\ open' \in {open \cup {p}, open \ {p}}
  /\ UNCHANGED life

Settle(p) ==
  /\ life[p] \in {"new", "busy"}
  /\ life' = [life EXCEPT ![p] = "done"]
  /\ open' = open \ {p}

Forget(p) ==
  /\ life[p] = "busy"
  /\ life' = [life EXCEPT ![p] = "forgotten"]
  /\ UNCHANGED open

WindUp ==
  /\ life' = [p \in Effect |-> IF life[p] = "busy" THEN "done" ELSE life[p]]
  /\ open' = {}

Next ==
  \/ \E p \in Effect : Begin(p) \/ Exchange(p) \/ Settle(p) \/ Forget(p)
  \/ WindUp

Spec == Init /\ [][Next]_<<life, open>>

=============================================================================
