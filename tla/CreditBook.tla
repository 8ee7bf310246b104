------------------------------ MODULE CreditBook ------------------------------
(***************************************************************************)
(* What the token ledger promises, seen from outside: tokens come in as    *)
(* numbered credits, the entries against a credit are only ever added to,  *)
(* and every token of a credit leaves at most once, either by being        *)
(* debited or by lapsing at its expiry, unless the credit is doubtful:     *)
(* sessions that overlapped have written it over each other.  How a debit  *)
(* picks its credits, the wallet totals and the database sessions are left *)
(* to TokenLedger, which implements this module.                           *)
(***************************************************************************)
EXTENDS Naturals

CONSTANT Credits          \* identifiers of the ledger's credit entries

VARIABLES
  issued,                 \* tokens of each credit entry, 0 before it exists
  debited,                \* tokens debit entries have allocated to it
  lapsed,                 \* tokens expire entries have taken from it
  doubtful                \* credits of which an update was lost

bookVars == <<issued, debited, lapsed, doubtful>>

Init ==
  /\ issued = [c \in Credits |-> 0]
  /\ debited = [c \in Credits |-> 0]
  /\ lapsed = [c \in Credits |-> 0]
  /\ doubtful = {}

\* A credit becomes doubtful for good.
MoreDoubtful == doubtful \subseteq doubtful' /\ doubtful' \subseteq Credits

Issue ==
  /\ issued' \in [Credits -> Nat]
  /\ \A c \in Credits : issued[c] # 0 => issued'[c] = issued[c]
  /\ UNCHANGED <<debited, lapsed, doubtful>>

\* `to` is `from` with some entries raised, above its limit only if it is doubtful.
RaisedWithin(from, to, limit) ==
  /\ to \in [Credits -> Nat]
  /\ \A c \in Credits : from[c] <= to[c]
  /\ \A c \in Credits \ doubtful' : to[c] <= limit[c]

Debit ==
  /\ RaisedWithin(debited, debited', [c \in Credits |-> issued[c] - lapsed[c]])
  /\ MoreDoubtful
  /\ UNCHANGED <<issued, lapsed>>

Lapse ==
  /\ RaisedWithin(lapsed, lapsed', [c \in Credits |-> issued[c] - debited[c]])
  /\ MoreDoubtful
  /\ UNCHANGED <<issued, debited>>

\* A job that failed has overwritten an update, without an entry of its own.
Overwrite ==
  /\ MoreDoubtful
  /\ UNCHANGED <<issued, debited, lapsed>>

Next == Issue \/ Debit \/ Lapse \/ Overwrite

Spec == Init /\ [][Next]_bookVars
===============================================================================
