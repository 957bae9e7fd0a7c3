---- MODULE MCClaimLedger ----
(***************************************************************************)
(* Four user messages, a reply, a self-talk and an initiative; a direct    *)
(* statement D1 that the reply repeats word for word, one that a message   *)
(* says word for word (D2), one that begins to hold at time 2 (F1), and a  *)
(* meta statement M1.                                                      *)
(***************************************************************************)
EXTENDS ClaimErasure

CONSTANTS m1, m2, m3, m4, r1, s1, i1

MCEvents   == {m1, m2, m3, m4, r1, s1, i1}
MCTypeOf   == [e \in MCEvents |-> CASE e = r1 -> "resident_message" [] e = s1 -> "self_talk"
                                     [] e = i1 -> "outbound_initiative" [] OTHER -> "user_message"]
MCTrustOf  == [e \in MCEvents |-> "trusted"]
MCTextOf   == [e \in MCEvents |-> CASE e = m3 -> "D2" [] e = r1 -> "D1" [] OTHER -> e]
MCRendered == [D1 |-> "{D1}", D2 |-> "{D2}", F1 |-> "{F1}", M1 |-> "{M1}"]
MCStatements == {"D1", "D2", "F1", "M1"}
MCKindOf   == [D1 |-> "direct", D2 |-> "direct", F1 |-> "direct", M1 |-> "meta"]
MCValidFrom == [D1 |-> 0, D2 |-> 0, F1 |-> 2, M1 |-> 0]
MCLimits   == [interval |-> 1, consecutive |-> 1, hour |-> 2, day |-> 4, hourly |-> 1, daily |-> 2,
               suppression |-> 1, minimumInterval |-> 1, initiativeHourly |-> 1, initiativeDaily |-> 1,
               maxStaleness |-> 1]
MCGapBefore == {m3}
MCRelevant  == {"D1", "M1", "F1"}
MCDerivable == {"D2"}

Stated(stmt)       == [stmt |-> stmt, grade |-> "stated"]
Says(stmts)        == [k \in DOMAIN stmts |-> Stated(stmts[k])]
Step(event, stmts) == [event |-> event, out |-> Says(stmts)]

MCOutputs == {Says(<<>>), Says(<<"D2">>), Says(<<"D1", "M1">>)}

Closed(es) == {<<e, "none">> : e \in es}
Seed(told, open, steps, aligned) ==
    [policy |-> "v4", log |-> told, answered |-> Closed({e \in Range(told) : MCTypeOf[e] = "user_message"} \ open),
     steps |-> steps, aligned |-> aligned, intents |-> {}, talk |-> NoTalk, autos |-> <<>>, commits |-> 0]

\* What an earlier process has left: the dialogue run of m3 and an initiative.
Waiting ==
    [step |-> "waiting", run |-> 0, msg |-> m3, policy |-> "v4", persona |-> 0,
     events |-> {m2, m3}, selected |-> {1}, prompt |-> {1}, seen |-> <<>>]
Left(claim) ==
    [trigger |-> Trigger("future_to_current", "none", claim, 0), run |-> 1, step |-> "waiting", policy |-> "v4",
     claims |-> {claim}, seen |-> <<>>, asOf |-> 1, preempted |-> FALSE, failures |-> 0]

Three(stmts) == <<Step(m1, stmts), Step(m2, stmts), Step(m3, stmts)>>
MCSeeds ==
    { \* nothing yet
      Seed(<<>>, {}, <<>>, {}),
      \* a pair ready for an alignment
      Seed(<<m1, m2, m3>>, {}, Three(<<"D1", "M1">>), {}),
      \* a settled claim about the future and the meta claim it settled on
      Seed(<<m1, m2, m3>>, {}, Three(<<"F1", "M1">>), {<<1, 2>>}),
      \* the same with a run about the claim that waits for its next attempt
      [Seed(<<m1, m2, m3>>, {}, Three(<<"F1", "M1">>), {<<1, 2>>}) EXCEPT !.autos = <<Left(1)>>, !.commits = 1],
      \* both, for a replacement
      [Seed(<<m1, m2, m3>>, {}, Three(<<"D1", "M1", "F1">>), {<<3, 2>>}) EXCEPT !.commits = 2],
      \* two settled claims in conflict
      [Seed(<<m1, m2, m3>>, {}, Three(<<"D1", "M1", "F1">>), {<<1, 2>>, <<3, 2>>}) EXCEPT
           !.intents = {[new |-> 1, old |-> 3, seq |-> 1, policy |-> "v4"]}, !.commits = 1],
      \* a message whose reply waits for its next attempt
      [Seed(<<m1, m2, m3>>, {m3}, <<Step(m1, <<"D1">>), Step(m2, <<"D1">>)>>, {}) EXCEPT !.talk = Waiting],
      \* two messages with different claims, one not yet extracted
      Seed(<<m1, m2, m3>>, {}, <<Step(m1, <<"M1">>), Step(m2, <<"D1">>)>>, {}),
      \* the memory policy before self-talk was known
      [Seed(<<m1>>, {}, <<Step(m1, <<"D1">>)>>, {}) EXCEPT !.policy = "v2"] }
====
