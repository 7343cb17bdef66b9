---------------------------- MODULE TableSeating ----------------------------
(***************************************************************************)
(* What a dine-in restaurant promises about its tables, with QR codes,    *)
(* rows, locks and requests left out: a party sits down at a table only   *)
(* when the last one is through, a guest joins one party at a time, and   *)
(* both are decided and done in one step.  DineInSessions implements it.  *)
(***************************************************************************)
CONSTANTS
  Guests,    \* customers
  Tables,    \* table numbers
  Sessions,  \* names of visits
  None       \* no table

VARIABLES
  stage,  \* stage[s]: "new", "dining", "paying" or "over"
  spot,   \* the table of each visit
  party   \* the guests who take part in it

seating == <<stage, spot, party>>

Init ==
  /\ stage = [s \in Sessions |-> "new"]
  /\ spot = [s \in Sessions |-> None]
  /\ party = [s \in Sessions |-> {}]

Underway(s) == stage[s] \in {"dining", "paying"}
Vacant(t) == \A s \in Sessions : Underway(s) => spot[s] # t
AwayFrom(g, s) == \A r \in Sessions \ {s} : Underway(r) => g \notin party[r]

SitDown(s, t, g) ==
  /\ stage[s] = "new" /\ Vacant(t) /\ AwayFrom(g, s)
  /\ stage' = [stage EXCEPT ![s] = "dining"]
  /\ spot' = [spot EXCEPT ![s] = t]
  /\ party' = [party EXCEPT ![s] = {g}]

\* Joining a visit that has just ended does no harm.
Join(s, g) ==
  /\ stage[s] # "new" /\ AwayFrom(g, s)
  /\ party' = [party EXCEPT ![s] = @ \union {g}]
  /\ UNCHANGED <<stage, spot>>

Leave(s, g) ==
  /\ party' = [party EXCEPT ![s] = @ \ {g}]
  /\ UNCHANGED <<stage, spot>>

Bill(s) ==
  /\ stage[s] = "dining"
  /\ stage' = [stage EXCEPT ![s] = "paying"]
  /\ UNCHANGED <<spot, party>>

Resume(s) ==
  /\ stage[s] = "paying"
  /\ stage' = [stage EXCEPT ![s] = "dining"]
  /\ UNCHANGED <<spot, party>>

Close(s) ==
  /\ stage[s] = "paying"
  /\ stage' = [stage EXCEPT ![s] = "over"]
  /\ UNCHANGED <<spot, party>>

Next ==
  \E s \in Sessions :
    \/ \E t \in Tables, g \in Guests : SitDown(s, t, g)
    \/ \E g \in Guests : Join(s, g) \/ Leave(s, g)
    \/ Bill(s) \/ Resume(s) \/ Close(s)

Spec == Init /\ [][Next]_seating

-----------------------------------------------------------------------------

\* What follows from these rules: a table is one party's, and a guest is of
\* one party.
NothingShared ==
  \A r, s \in Sessions :
    Underway(r) /\ Underway(s) /\ r # s => spot[r] # spot[s] /\ party[r] \intersect party[s] = {}

=============================================================================
