------------------------------ MODULE Consent ------------------------------
(***************************************************************************)
(* What the approval ledger promises, whatever its callers do: content is  *)
(* offered, consent is given to the content on offer, a consent is taken   *)
(* up once, and only content that was consented to takes effect, at most   *)
(* once.  Changing the offer drops the consent; an offer that was replaced *)
(* is inert.                                                               *)
(***************************************************************************)
EXTENDS Naturals

CONSTANTS Approvals, Actions, NULL

VARIABLES
  offer,    \* the content on offer
  grant,    \* the content consented to, or NULL
  phase,    \* absent, open, taken (an attempt was made) or retired (replaced)
  effect,   \* the content that took effect, or NULL
  ran       \* how many times it took effect

vars == <<offer, grant, phase, effect, ran>>

Init ==
  /\ offer = [a \in Approvals |-> NULL]
  /\ grant = [a \in Approvals |-> NULL]
  /\ phase = [a \in Approvals |-> "absent"]
  /\ effect = [a \in Approvals |-> NULL]
  /\ ran = [a \in Approvals |-> 0]

\* New content is put on offer; an earlier consent does not cover it.
Offer(a) ==
  /\ phase[a] \in {"absent", "open"}
  /\ phase' = [phase EXCEPT ![a] = "open"]
  /\ \E action \in Actions \cup {NULL} : offer' = [offer EXCEPT ![a] = action]
  /\ grant' = [grant EXCEPT ![a] = NULL]
  /\ UNCHANGED <<effect, ran>>

\* Consent to what is on offer, or its withdrawal.
Decide(a) ==
  /\ phase[a] = "open"
  /\ \E consented \in {offer[a], NULL} : grant' = [grant EXCEPT ![a] = consented]
  /\ UNCHANGED <<offer, phase, effect, ran>>

\* A consent is taken up.  From here on it can be neither changed nor renewed.
Take(a) ==
  /\ phase[a] = "open" /\ grant[a] # NULL /\ grant[a] = offer[a]
  /\ phase' = [phase EXCEPT ![a] = "taken"]
  /\ UNCHANGED <<offer, grant, effect, ran>>

\* The content consented to takes effect.
TakeEffect(a) ==
  /\ phase[a] = "taken" /\ ran[a] = 0
  /\ effect' = [effect EXCEPT ![a] = grant[a]]
  /\ ran' = [ran EXCEPT ![a] = 1]
  /\ UNCHANGED <<offer, grant, phase>>

\* The same content is put on offer again, under a new identity and without
\* consent; the old offer is retired.
Replace(a, b) ==
  /\ phase[a] \in {"open", "taken"} /\ phase[b] = "absent"
  /\ phase' = [phase EXCEPT ![a] = "retired", ![b] = "open"]
  /\ offer' = [offer EXCEPT ![b] = offer[a]]
  /\ grant' = [grant EXCEPT ![b] = NULL]
  /\ UNCHANGED <<effect, ran>>

Next ==
  \/ \E a \in Approvals : Offer(a) \/ Decide(a) \/ Take(a) \/ TakeEffect(a)
  \/ \E a, b \in Approvals : Replace(a, b)

Spec == Init /\ [][Next]_vars
=============================================================================
