------------------------- MODULE MCQuestionInsight -------------------------
EXTENDS QuestionInsight

OneDisputed == <<"accepted", "disputed", "declined">>
TwoDisputed == <<"disputed", "disputed", "accepted">>
AllDisputed == <<"disputed", "disputed", "disputed">>

Full == [sufficient |-> TRUE, driver |-> TRUE]
StatusOnly == [sufficient |-> TRUE, driver |-> FALSE]
Reading(reopen, decline, capture) == [reopen |-> reopen, decline |-> decline, capture |-> capture]
NewMeaning(q) == Reading({}, {}, (q :> Full))
Quiet == [m \in Messages |-> {}]

\* New evidence and reopened questions among answers, until the window ends.
Mixed == [known |-> Questions, messages |-> 3, partials |-> {OneDisputed},
          evaluations |-> [m \in Messages |-> {NewMeaning(1), Reading({2, 3}, {}, (3 :> Full))}],
          drops |-> 1, faults |-> 1, ends |-> TRUE]
\* A status, and in another message the refusal to say what drives it.
Collecting == [Mixed EXCEPT !.known = {1, 2}, !.drops = 0, !.faults = 0,
    !.evaluations = [m \in Messages |-> {Reading({}, {}, (3 :> StatusOnly)), Reading({}, {3}, <<>>)}]]
\* A long dispute: two statements are corrected one after the other.
Dispute == [known |-> Questions, messages |-> 5, partials |-> {TwoDisputed},
            evaluations |-> Quiet, drops |-> 0, faults |-> 0, ends |-> FALSE]
\* A question that is reported, told anew in the third message and confirmed again.
Again == [Dispute EXCEPT !.partials = {}, !.evaluations = [Quiet EXCEPT ![3] = {NewMeaning(1)}]]
\* Every statement is disputed.
DisputesOfAll == [Dispute EXCEPT !.partials = {AllDisputed}, !.messages = 3]

AllMixes == {Mixed, Collecting, Dispute, Again}
OnlyDisputesOfAll == {DisputesOfAll}
=============================================================================
