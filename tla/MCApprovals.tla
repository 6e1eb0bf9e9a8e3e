----------------------------- MODULE MCApprovals -----------------------------
(***************************************************************************)
(* Instance of the approvals for TLC.  For the decisions: two requests,    *)
(* three writes, two to the same path and one without a path, and a        *)
(* command, which is not granted.  For what is read before one: all texts  *)
(* of up to two characters, paths with a control character and with what   *)
(* it is written as, and two digests.  A preview depends on the request    *)
(* alone, so the previews are walked through before the session connects.  *)
(***************************************************************************)
EXTENDS CodingApproval, ApprovalPreview
CONSTANTS i1, i2, w1, w2, w3, run1, path1, digest1, none, alice
MCIds == {i1, i2}
MCWrites == {w1, w2, w3}
MCCommands == {run1}
MCTarget == [content \in MCWrites \cup MCCommands |->
               IF content = w3 THEN none ELSE IF content = run1 THEN digest1 ELSE path1]
MCGranted == {"WriteText"}
MCActors == {alice}

Header(session, id) == [session |-> session, id |-> id, root |-> <<"u">>]

MCCharacters == {"TAB", "CR", "LF", "ESC", "\\", "t", "u", "{1b}"}
MCControls == {"ESC"}
MCHex == [c \in MCControls |-> "{1b}"]
MCTexts == UNION {[1 .. n -> {"LF", "ESC", "\\"}] : n \in 0 .. 2}
MCDecimal == <<"one", "two">>
MCPaths == {<<"TAB">>, <<"\\", "t">>, <<"CR">>, <<"LF">>, <<"ESC">>, <<"\\", "u", "{1b}">>}
MCDigests == {"one", "two"}
MCHeaders == {Header(<<"t">>, <<"u">>), Header(<<"u">>, <<"t">>), Header(<<>>, <<"t", "LF">>)}

First == [header |-> Header(<<"t">>, <<"u">>),
          content |-> [kind |-> "command", command |-> <<"CR">>, directory |-> <<"CR">>,
                       danger |-> <<"CR">>, digest |-> "one"]]

ApprovalsInit == DecisionInit /\ PreviewInit

ApprovalsNext ==
  \/ shown = First /\ DecisionNext /\ UNCHANGED shown
  \/ DecisionInit /\ PreviewNext /\ UNCHANGED decisionVars

ApprovalsSpec == ApprovalsInit /\ [][ApprovalsNext]_<<decisionVars, shown>>
=============================================================================
