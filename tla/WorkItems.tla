------------------------------ MODULE WorkItems ------------------------------
(***************************************************************************)
(* What hss_thread.h promises its callers: every function issued between   *)
(* hss_thread_init and hss_thread_done is performed exactly once, at some  *)
(* time before hss_thread_done returns, in no particular order.            *)
(* HssThread implements this specification.                                *)
(***************************************************************************)
CONSTANT Items

VARIABLES status,    \* of each request: "new", "issued" or "performed"
          returned   \* hss_thread_done has returned

vars == <<status, returned>>

Init == /\ status = [i \in Items |-> "new"]
        /\ returned = FALSE

Issue(i) == /\ ~returned
            /\ status[i] = "new"
            /\ status' = [status EXCEPT ![i] = "issued"]
            /\ UNCHANGED returned

Perform(i) == /\ status[i] = "issued"
              /\ status' = [status EXCEPT ![i] = "performed"]
              /\ UNCHANGED returned

Return == /\ ~returned
          /\ \A i \in Items : status[i] # "issued"
          /\ returned' = TRUE
          /\ UNCHANGED status

Next == \/ \E i \in Items : Issue(i) \/ Perform(i)
        \/ Return

Spec == Init /\ [][Next]_vars /\ \A i \in Items : WF_vars(Perform(i))
=============================================================================
