---------------------------- MODULE MCStreamPipe ----------------------------
(* Small instances of StreamPipe: answers with a call, a block that is no  *)
(* call, a card, a filtered tag, an image, a link to the upstream and one  *)
(* to elsewhere, a call with a link in its arguments, texts that end in    *)
(* the beginning of a tag and in half a scheme, cut in chunks every way.   *)
EXTENDS StreamPipe

Say(text) == [think |-> FALSE, text |-> text]
Think(text) == [think |-> TRUE, text |-> text]

MCAnswers ==
  { <<Think(<<"r">>), Say(<<"x", "<", "tool>", "call", "<", "/tool>", "x">>)>>,
    <<Say(<<"x", "![", "img)", "<">>)>>,
    <<Say(<<"<", "card", "x", "<", "/card>", "x">>)>>,
    <<Say(<<"<", "drop", ">", "<", "/drop>", "x">>), Think(<<"r">>)>>,
    <<Say(<<"<", "tool>", "x", "<", "/tool>", "x">> \o Link \o <<"x">>)>>,
    <<Say(Scheme \o <<"x", "ht">>)>>,
    <<Say(<<"<", "tool>", "call">> \o Link \o <<"<", "/tool>", "<", "tool>", "call">>)>> }

ASSUME AnswersLabelled == Labelled

Ask(stream, tools, think) == [stream |-> stream, tools |-> tools, think |-> think]
MCRequests ==
  {Ask(TRUE, TRUE, TRUE), Ask(TRUE, FALSE, TRUE), Ask(FALSE, TRUE, TRUE), Ask(FALSE, FALSE, FALSE)}

MCBothFilters == {"card", "drop"}

(* An answer whose link the flow's parser holds until the end. *)
LateAnswers == {<<Say(<<"<", "tool>">> \o Link \o <<"x">>)>>,
                <<Say(<<"x">> \o Link \o <<"x">>)>>,
                <<Say(<<"x", "![", "img)", "x">>)>>}

=============================================================================
