----------------------------- MODULE FillLedger -----------------------------
(***************************************************************************)
(* What the live side promises about executions, whatever the connection   *)
(* does: the venue reports executions, each with a quantity, and a process *)
(* books a report at most once, only after it was made, for the quantity   *)
(* the venue gave.  Reports may stay unbooked; a new process starts with   *)
(* an empty book.                                                          *)
(***************************************************************************)
EXTENDS Naturals, Functions

CONSTANTS Reports,     \* names of reports
          Quantity     \* quantities a report can carry

VARIABLES reported,    \* the quantity of each report made so far
          booked,      \* the reports this process has booked
          total        \* the quantity this process has booked

ledgerVars == <<reported, booked, total>>

LedgerInit == reported = << >> /\ booked = {} /\ total = 0

Report(r, q) ==
  /\ r \notin DOMAIN reported
  /\ reported' = [x \in DOMAIN reported \cup {r} |-> IF x = r THEN q ELSE reported[x]]
  /\ UNCHANGED <<booked, total>>

Book(r) ==
  /\ r \in DOMAIN reported \ booked
  /\ booked' = booked \cup {r}
  /\ total' = total + reported[r]
  /\ UNCHANGED reported

NewBook == booked' = {} /\ total' = 0 /\ UNCHANGED reported

LedgerNext ==
  \/ \E r \in Reports, q \in Quantity : Report(r, q)
  \/ \E r \in Reports : Book(r)
  \/ NewBook

LedgerSpec == LedgerInit /\ [][LedgerNext]_ledgerVars
=============================================================================
