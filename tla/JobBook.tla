-------------------------------- MODULE JobBook --------------------------------
(***************************************************************************)
(* What sync_jobs promises to the services that create jobs in it: a       *)
(* dedupe_key gets one row and keeps it for ever, and the handler of a job *)
(* runs only after the job has become due.  It may then run any number of  *)
(* times, at any time.                                                     *)
(***************************************************************************)
EXTENDS Naturals

CONSTANT Jobs

VARIABLES
  book,             \* the rows: "none", then "future", then "due"
  runs              \* how often each handler has run

bookVars == <<book, runs>>

BookInit ==
  /\ book = [j \in Jobs |-> "none"]
  /\ runs = [j \in Jobs |-> 0]

Add(j, when) ==
  /\ book[j] = "none"
  /\ when \in {"future", "due"}
  /\ book' = [book EXCEPT ![j] = when]

Ripen(j) ==
  /\ book[j] = "future"
  /\ book' = [book EXCEPT ![j] = "due"]
  /\ UNCHANGED runs

Run(j) ==
  /\ book[j] = "due"
  /\ runs' = [runs EXCEPT ![j] = @ + 1]
  /\ UNCHANGED book

BookNext ==
  \E j \in Jobs :
    \/ \E when \in {"future", "due"} : Add(j, when) /\ UNCHANGED runs
    \/ Ripen(j)
    \/ Run(j)

BookSpec == BookInit /\ [][BookNext]_bookVars
================================================================================
