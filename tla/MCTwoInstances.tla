--------------------------- MODULE MCTwoInstances ---------------------------
(***************************************************************************)
(* Two instances on one chain, whose invoice is cancelled, with and without *)
(* a replacement, while the gateway reports what it knows.  All of both are *)
(* too many states.  Of an invoice only the first attempt may succeed late; *)
(* one that is attempted a second time, or of which a report overtook an    *)
(* instance or a request, is not cancelled; and once one was cancelled the  *)
(* method stays, nothing is reported and nothing succeeds late.             *)
(***************************************************************************)
EXTENDS MCInvoiceCollection

\* What was asked for is settled, and an instance or the request does not know.
Overtaken ==
    \/ \E r \in Runs : run[r].op \in {"send", "wait", "record", "ask", "decide", "resend"}
                       /\ status[run[r].a] \notin UNSETTLED
    \/ \E a \in Attempts : (a \in flight \/ charge[a] \in {"pending", "succeeded-late"})
           /\ status[a] \notin UNSETTLED

\* Bound on the steps.
OneCourse ==
    /\ issued' > 1 \/ cancelled' =>
        /\ \A a \in Attempts : a[2] > 1 => status'[a] = "none"
        /\ UNCHANGED active
        /\ UNCHANGED <<issued, cancelled>> \/ ~Overtaken
        /\ UNCHANGED <<run, issued, cancelled>> => UNCHANGED status
        /\ \A a \in Attempts : charge'[a] # charge[a] => charge[a] \in {"none", "pending"}
    /\ \A a \in Attempts : charge'[a] = "succeeded-late" => a[2] = 1
=============================================================================
