---------------------------- MODULE MCReplayBundle ----------------------------
(***************************************************************************)
(* The traces and policies of the bundle's run: each trace takes another   *)
(* way through the derivation.                                             *)
(***************************************************************************)
EXTENDS ReplayBundle, TLC

Exp(cells)  == [kind |-> "experiment", cells |-> cells]
Dead(cells) == [kind |-> "dead_end", cells |-> cells]
Claim(s, children) == [subject |-> s, children |-> children]
Good(claims)       == [form |-> "good", claims |-> claims]

Answered == Exp(<<"report", "randomization", "power", "generalization">>)
Unanswered == Exp(<<"report", "randomization", "generalization">>)

\* Evidence against a claim from a dead end, from a second experiment that
\* leaves a question open and from one that answers them all.
Against == Good(<<Claim("r", <<Answered, Dead(<<"shift">>)>>),
                  Claim("s", <<Answered, Exp(<<"report", "power", "shift">>)>>),
                  Claim("u", <<Answered, Exp(<<"report", "power", "randomization", "shift">>)>>)>>)

\* A question answered from a dead end or not at all, and a failure to
\* generalize beside the answer and before it.
Answering == Good(<<Claim("r", <<Unanswered, Dead(<<"power">>)>>),
                    Claim("s", <<Unanswered, Dead(<<>>)>>),
                    Claim("u", <<Answered, Exp(<<"failure">>)>>),
                    Claim("v", <<Dead(<<"failure">>), Answered>>)>>)

\* One subject under two claims, and what the checker's loader or the
\* derivation refuses.
Siblings  == Good(<<Claim("s", <<Unanswered>>),
                    Claim("s", <<Answered, Dead(<<"failure", "shift">>)>>)>>)
Doubled   == Good(<<Claim("s", <<Exp(<<"report", "report">>)>>)>>)
Orphan    == Good(<<Claim("s", <<Exp(<<"power">>), Dead(<<"power">>)>>)>>)
Malformed == [form |-> "malformed", claims |-> <<>>]
Misshapen == [form |-> "misshapen", claims |-> <<>>]

MCTraceOf ==
  [against |-> Against, answering |-> Answering, siblings |-> Siblings, doubled |-> Doubled,
   orphan |-> Orphan, malformed |-> Malformed, misshapen |-> Misshapen]

MCTraces == {"against"}
MCEdits  == {"answering", "siblings", "doubled", "orphan", "malformed", "misshapen"}

Question(pred, m) == [asks |-> pred, mandatory |-> m]

\* examples/E1/empirical-v1.policy.lara, a revision that asks less, and one
\* with a second scheme of the same shape.
E1 == [questions  |-> <<Question("randomized", TRUE), Question("powered", TRUE),
                        Question("generalizes", TRUE)>>,
       exceptions |-> {"distribution_shift"},
       contraries |-> {<<"generalizes", "not_generalizes">>,
                       <<"not_generalizes", "generalizes">>},
       matching   |-> 1]
Relaxed == [E1 EXCEPT !.questions[2].mandatory = FALSE]
Crowded == [E1 EXCEPT !.matching = 2]

MCPolicyOf == [E1 |-> E1, relaxed |-> Relaxed, crowded |-> Crowded]
MCPolicies == DOMAIN MCPolicyOf

\* The runs of the elaborator are alike.
Alike == Permutations(Elabs)
=============================================================================
