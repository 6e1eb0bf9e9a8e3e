---------------------------- MODULE EffectLedger ----------------------------
(***************************************************************************)
(* What the interactive client promises about the two effects it can have  *)
(* on Arbora: at most one submission, whose outcome is either a binding or *)
(* a lasting "unknown", and cancellations of the bound task that are asked *)
(* for first and of which at most one is unsettled.                        *)
(***************************************************************************)
CONSTANTS Correlation, None

VARIABLES submission,   \* the one message/send
          cancel,       \* the tasks/cancel under way, if any
          bound         \* the binding: None, then one correlation for good

vars == <<submission, cancel, bound>>

Submissions == {"none", "outstanding", "acknowledged", "unknown"}
Cancels     == {"idle", "asked", "outstanding", "unknown"}

TypeOK == /\ submission \in Submissions
          /\ cancel \in Cancels
          /\ bound \in Correlation \cup {None}

Init == /\ submission \in {"none", "outstanding"}
        /\ cancel = "idle"
        /\ bound = None

Submit == /\ submission = "none" /\ bound = None
          /\ submission' = "outstanding"
          /\ UNCHANGED <<cancel, bound>>

Acknowledge == /\ submission = "outstanding"
               /\ submission' = "acknowledged"
               /\ bound' \in Correlation
               /\ UNCHANGED cancel

LoseSubmission == /\ submission = "outstanding"
                  /\ submission' = "unknown"
                  /\ UNCHANGED <<cancel, bound>>

\* The first accepted read of a task selected by its identifier.
Learn == /\ submission = "none" /\ bound = None
         /\ bound' \in Correlation
         /\ UNCHANGED <<submission, cancel>>

Settled == submission # "outstanding" /\ bound # None

Ask == /\ Settled /\ cancel = "idle" /\ cancel' = "asked"
       /\ UNCHANGED <<submission, bound>>

Withdraw == /\ cancel = "asked" /\ cancel' = "idle"
            /\ UNCHANGED <<submission, bound>>

Cancel == /\ cancel = "asked" /\ cancel' = "outstanding"
          /\ UNCHANGED <<submission, bound>>

\* A matching acknowledgement, or anything else that ends the request.
Confirmed == /\ cancel = "outstanding" /\ cancel' = "idle"
             /\ UNCHANGED <<submission, bound>>

LoseCancel == /\ cancel = "outstanding" /\ cancel' = "unknown"
              /\ UNCHANGED <<submission, bound>>

\* An accepted read of the task: a new cancellation may be asked for.
Reconciled == /\ cancel = "unknown" /\ cancel' = "idle"
              /\ UNCHANGED <<submission, bound>>

Next == \/ Submit \/ Acknowledge \/ LoseSubmission \/ Learn
        \/ Ask \/ Withdraw \/ Cancel \/ Confirmed \/ LoseCancel \/ Reconciled

\* A submission does not stay outstanding.
Spec == Init /\ [][Next]_vars /\ WF_vars(Acknowledge \/ LoseSubmission)

\* The next-state part alone, for the refinement that is proved.
SafeSpec == Init /\ [][Next]_vars
=============================================================================
