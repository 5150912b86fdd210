--------------------------- MODULE MCSignoffGate ---------------------------
(* An instance of SignoffGate for TLC: one lock document that PI and Director sign. *)
EXTENDS SignoffGate

TheDocs == {"lock"}
TheRequired == [d \in TheDocs |-> {"pi", "director"}]
TheRoles == {"pi", "director"}

Token(role, r, id) == [role |-> role, target |-> "lock", verdict |-> "APPROVE", run |-> r, receipt |-> id]
Line(tokens, claims) == [doc |-> "lock", tokens |-> tokens, claims |-> claims, malformed |-> FALSE]
TheLines == {Line({Token("pi", 1, "c1")}, {"pi"}), Line({Token("director", 1, "self")}, {}), Line({}, {"pi"})}

Approve == <<"lock", "APPROVE">>
Sent == [role |-> "pi", nested |-> FALSE, dictated |-> {}]
TheDispatches == [c1 |-> {Sent, [Sent EXCEPT !.nested = TRUE], [Sent EXCEPT !.dictated = {Approve}],
                          [Sent EXCEPT !.role = "general-purpose"]},
                  c2 |-> {Sent}]
Result(isError, attests) == [isError |-> isError, attests |-> attests]
TheResults == [c1 |-> {Result(FALSE, <<Approve>>), Result(TRUE, <<Approve>>)},
               c2 |-> {Result(FALSE, <<<<"lock", "MODIFY">>, <<"lock", "REJECT">>>>)}]
TheRunOf == [c1 |-> 1, c2 |-> 2]
=============================================================================
