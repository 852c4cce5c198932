----------------------------- MODULE ChargeBook -----------------------------
(***************************************************************************)
(* What the budget ledger promises: one book of charges against one limit, *)
(* changed one row at a time.  A charge is reserved before its request may *)
(* be sent; only a request that was never marked as dispatched gives its   *)
(* reservation back; a settled charge never exceeds what was reserved.     *)
(***************************************************************************)
EXTENDS Naturals, Functions

CONSTANTS Writers, Reservation, Limit

VARIABLES
  book,  \* the state of each writer's row
  quote, \* what the provider's usage came to
  sent   \* requests the provider has been asked

States == {"none", "prepared", "dispatched", "unknown", "settled", "released"}
Held   == {"prepared", "dispatched", "unknown"}

\* originalCharge.
Charge(b, q, w) ==
  CASE b[w] \in Held      -> Reservation[w]
    [] b[w] = "settled"   -> q[w]
    [] OTHER              -> 0

Total(charges) == FoldFunction(+, 0, charges)

\* The law of a sum over the writers, for charges in S: it is 0 of nothing, and
\* changing one charge changes it by as much.
Additive(S) ==
  /\ Total([w \in Writers |-> 0]) = 0
  /\ \A f, g \in [Writers -> S], w \in Writers :
       /\ Total(f) \in Nat
       /\ (\A v \in Writers \ {w} : f[v] = g[v]) => Total(f) + g[w] = Total(g) + f[w]

\* summarizeBudget: the accounted upper bound.
Accounted(b, q) == Total([w \in Writers |-> Charge(b, q, w)])

Init == book = [w \in Writers |-> "none"] /\ quote = [w \in Writers |-> 0] /\ sent = {}

Row(w, from, to) ==
  /\ book[w] \in from /\ book' = [book EXCEPT ![w] = to]
  /\ UNCHANGED <<quote, sent>>

Reserve(w) == Accounted(book, quote) + Reservation[w] <= Limit /\ Row(w, {"none"}, "prepared")
Settle(w)  == quote[w] <= Reservation[w] /\ Row(w, Held, "settled")
Send(w)    == /\ book[w] = "dispatched"
              /\ sent' = sent \cup {w} /\ UNCHANGED <<book, quote>>
Quote(w)   == /\ w \in sent /\ book[w] # "settled"
              /\ quote' \in [Writers -> Nat] /\ \A v \in Writers \ {w} : quote'[v] = quote[v]
              /\ UNCHANGED <<book, sent>>

Next == \E w \in Writers :
  \/ Reserve(w) \/ Settle(w) \/ Send(w) \/ Quote(w)
  \/ Row(w, {"prepared"}, "dispatched")
  \/ Row(w, {"prepared"}, "released")
  \/ Row(w, {"dispatched", "unknown"}, "unknown")

Spec == Init /\ [][Next]_<<book, quote, sent>>
=============================================================================
