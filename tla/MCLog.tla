------------------------------- MODULE MCLog --------------------------------
(***************************************************************************)
(* Instances of Log for model checking.                                    *)
(***************************************************************************)
EXTENDS LogProps

\* two operations and a crash; an operation against a reader; a crash in recovery
CrashBudgets == {[ops |-> 2, reads |-> 0, crashes |-> 1],
                 [ops |-> 1, reads |-> 1, crashes |-> 1],
                 [ops |-> 1, reads |-> 0, crashes |-> 2]}

\* one operation and enough reads to go once around a small cache
EvictBudgets == {[ops |-> 1, reads |-> 3, crashes |-> 0]}
=============================================================================
