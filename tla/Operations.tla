----------------------------- MODULE Operations ----------------------------
(***************************************************************************)
(* The processes of one host around one data directory: administration     *)
(* processes that run finite commands and manage a dialogue server, each   *)
(* with its runtime, its event stream and its publications.  They meet in  *)
(* the locks, the data directories and the published artifacts.            *)
(***************************************************************************)
EXTENDS ServeLifecycle

CONSTANT Scenarios      \* what a behaviour may spend, and the source it starts from

\* The commits of a source that no journal accompanies are in its main file.
ASSUME ScenarioAssumption ==
    \A s \in Scenarios :
        /\ DOMAIN s.source = DOMAIN NoDir
        /\ s.source = [field \in DOMAIN NoDir |-> s.source[field]]
        /\ s.source.exists \in BOOLEAN /\ s.source.hot \in BOOLEAN
        /\ s.source.head \in Nat /\ s.source.main \in Nat
        /\ s.source.hot \/ s.source.main = s.source.head

vars == <<dirs, hostlock, space, pubs, job, reported, budget, runtime, hub>>

Init ==
    /\ \E s \in Scenarios :
         /\ budget = s.budget
         /\ dirs = [d \in Dirs |-> IF d = "source" THEN s.source ELSE NoDir]
    /\ hostlock = [d \in Dirs |-> Free]
    /\ space = [name \in Names |-> Free]
    /\ pubs = <<>> /\ reported = {}
    /\ job = [p \in Proc |-> NoJob]
    /\ runtime = [p \in Proc |-> NoRuntime]
    /\ hub = [p \in Proc |-> NoHub]

\* Execute: the admission token is held from AllowCommand to the result.
Execute(p) ==
    /\ AllowCommand(p) /\ BeginCommand(p)
    /\ UNCHANGED <<runtime, hub>>

Running(p) == CommandStep(p) /\ UNCHANGED <<runtime, hub>>

\* An utterance lands, and its worker is called back.
Reply(p, c) ==
    /\ Admits(p) /\ R(p).workers = "active"
    /\ Commits(R(p).dir)
    /\ ResidentCommitted(p, c, dirs[R(p).dir].head + 1)
    /\ UNCHANGED <<runtime, hostlock, budget, artifactVars, space>>

Stream(p) == UNCHANGED <<runtime, dirs, lockVars, artifactVars>>

Notify(p) ==
    /\ R(p).workers = "active" /\ Spend("events")
    /\ PublishProvisional(p) \/ PublishStatus(p) \/ PublishError(p)
    /\ Stream(p)

Callback(p) ==
    /\ \/ \E c \in Callers :
            \/ PublishCommitted(p, c)
            \/ observe(p, c, R(p).speech = "started")
            \/ EnqueueCommitted(p, c)
       \/ \E l \in Listener : DropOldest(p, l) \/ Resend(p, l)
    /\ Stream(p) /\ UNCHANGED budget

Speak(p) ==
    /\ \/ R(p).speech = "started" /\ R(p).gate = "open" /\ TakeRequest(p)
       \/ \E event \in H(p).speaking : PublishAudio(p, event) \/ SynthesisFails(p, event)
    /\ Stream(p) /\ UNCHANGED budget

Listen(p) ==
    \E l \in Listener :
      /\ \/ /\ R(p).phase = "serving" /\ Spend("listeners")
            /\ \E audio \in BOOLEAN : SubscribeWithCapabilities(p, l, audio)
         \/ /\ Receive(p, l) \/ Unsubscribe(p, l)
            /\ UNCHANGED budget
      /\ Stream(p)

Next ==
    \E p \in Proc :
        \/ Execute(p) \/ Running(p) \/ RuntimeStep(p) \/ Submit(p) \/ Exit(p)
        \/ (\E c \in Callers : Reply(p, c))
        \/ Notify(p) \/ Callback(p) \/ Speak(p) \/ Listen(p)

Spec == Init /\ [][Next]_vars
============================================================================
