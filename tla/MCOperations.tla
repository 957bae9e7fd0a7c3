---------------------------- MODULE MCOperations ---------------------------
(* Two processes; five kinds of behaviour, told apart by what they may spend *)
EXTENDS Operations, TLC

Ready == [resident |-> "active", policy |-> "v4", configured |-> "none", saved |-> {"s1"},
          predicates |-> {}]
Source(head, refs, registered, service) ==
    [exists |-> TRUE, head |-> head, main |-> head, hot |-> FALSE, refs |-> refs,
     shared |-> MaxHead, registered |-> registered, service |-> service]

NoBudget == [commands |-> 0, allowed |-> {}, publications |-> 0, starts |-> 0, stops |-> 0,
             requests |-> 0, listeners |-> 0, events |-> 0, faults |-> 0]

\* Commands only, interrupted twice (once in a directory whose pipeline is not
\* registered).
Artifacts(faults) == [NoBudget EXCEPT !.commands = 4, !.publications = 3, !.faults = faults,
    !.allowed = {"backup", "restore", "export", "plan", "decide", "apply"}]

\* The commands that change a directory in place, between and after the others.
Maintenance == [NoBudget EXCEPT !.commands = 3, !.publications = 2, !.faults = 1,
    !.allowed = Commands \cup {"restore", "diagnose"}]

\* A server and the commands of either process, and two servers.
Serving == [NoBudget EXCEPT !.commands = 1, !.publications = 1, !.starts = 1,
    !.stops = 1, !.requests = 1, !.faults = 2, !.allowed = {"backup", "export", "apply"}]
Owner == [NoBudget EXCEPT !.commands = 1, !.starts = 1, !.allowed = {"activate", "select"}]
TwoServers == [NoBudget EXCEPT !.starts = 2, !.stops = 1, !.requests = 1, !.faults = 1]

\* One server with listeners and voice, and one that is stopped under them.
Streaming == {[NoBudget EXCEPT !.starts = 1, !.listeners = 2],
              [NoBudget EXCEPT !.starts = 1, !.listeners = 1, !.events = 1],
              [NoBudget EXCEPT !.starts = 1, !.listeners = 1, !.stops = 1]}

\* A historical policy, a selection that is not valid, sessions of two policies,
\* a predicate that blocks.
Unready == {[Ready EXCEPT !.policy = "v3"], [Ready EXCEPT !.configured = "invalid"],
            [Ready EXCEPT !.saved = {"s1", "s2"}], [Ready EXCEPT !.predicates = BlockingRules]}

MCScenarios ==
    {[budget |-> Artifacts(2), source |-> Source(1, 1, TRUE, Ready)],
     [budget |-> Artifacts(1), source |-> Source(1, 1, FALSE, Ready)]}
    \cup {[budget |-> Maintenance, source |-> Source(1, 1, TRUE, Ready)]}
    \cup {[budget |-> Serving, source |-> Source(1, 1, FALSE, s)] : s \in {Ready, NoService}}
    \cup {[budget |-> Owner, source |-> Source(0, 0, FALSE, s)] : s \in Unready}
    \cup {[budget |-> TwoServers, source |-> Source(1, 1, TRUE, Ready)]}
    \cup {[budget |-> b, source |-> Source(0, 0, TRUE, Ready)] : b \in Streaming}

Symmetry == Permutations(Proc) \cup Permutations(Listener)
============================================================================
