------------------------------ MODULE SceneRun ------------------------------
(***************************************************************************)
(* Scenes run from the page (runScene in app/page.tsx): a scene may extend *)
(* itself by another one, at once, and be followed by a next one, after a  *)
(* time.  What it may run after, the periods and the state flag are tests  *)
(* on the way.  Levels and fades of the channels are left out.             *)
(***************************************************************************)
EXTENDS Naturals, Sequences, SequencesExt

CONSTANTS
    SceneIds,    \* the scenes
    SceneRules,  \* rules a scene may have
    PressMax     \* bound of the model: presses of a button

SceneAssumption ==
    /\ SceneIds \subseteq Nat \ {0} /\ PressMax \in Nat
    /\ SceneRules \subseteq
         [extender : SceneIds \cup {0}, extenderFirst : BOOLEAN,
          next : SceneIds \cup {0}, fresh : BOOLEAN, previous : SceneIds \cup {0},
          flag : {"none", "set", "clear", "require-set", "require-clear"}]

VARIABLES
    rules,    \* the scenes as configured; fresh is beginNewSequence
    last,     \* lastSceneRun
    flagged,  \* whether the state flag is set
    timers,   \* next scenes that are due, each with its chain
    presses   \* history: presses so far

sceneVars == <<rules, last, flagged, timers, presses>>

SceneTypeOK ==
    /\ rules \in [SceneIds -> SceneRules]
    /\ last \in SceneIds \cup {0} /\ flagged \in BOOLEAN
    /\ \A n \in DOMAIN timers :
          timers[n] \in [scene : SceneIds, chain : SUBSET SceneIds]
    /\ presses \in 0..PressMax

SceneInit ==
    /\ rules \in [SceneIds -> SceneRules]
    /\ last = 0 /\ flagged = FALSE /\ timers = <<>> /\ presses = 0

-----------------------------------------------------------------------------
\* The tests of a scene; inPeriod are those whose period rule is satisfied.
MayRun(s, state, inPeriod) ==
    /\ rules[s].previous \in {0, state.last}
    /\ s \in inPeriod
    /\ rules[s].flag = "require-set" => state.flagged
    /\ rules[s].flag = "require-clear" => ~state.flagged

\* Faulty variant: the next scene is not told what its chain has run.
FollowedUnchained(s, chain, state) ==
    IF rules[s].next = 0 THEN state
    ELSE [state EXCEPT !.timers =
             Append(@, [scene |-> rules[s].next, chain |-> {}])]

\* A scene that begins a new sequence forgets its chain.
Followed(s, chain, state) ==
    IF rules[s].next = 0 THEN state
    ELSE [state EXCEPT !.timers =
             Append(@, [scene |-> rules[s].next,
                        chain |-> IF rules[s].fresh THEN {} ELSE chain])]

\* The scene's own levels, and its flag.
Performed(s, state) ==
    [state EXCEPT !.last = s,
                  !.flagged = rules[s].flag = "set" \/ (@ /\ rules[s].flag # "clear")]

\* runScene: from the chain that led to a scene and the state the scenes
\* before it have left to the state it leaves, with the timers it adds.
Untimed == [last : SceneIds \cup {0}, flagged : BOOLEAN, timers : {<<>>}]
Ran(inPeriod) ==
    LET ran[s \in SceneIds \cup {0}, visited \in SUBSET SceneIds, state \in Untimed] ==
            LET chain == visited \cup {s}
                extended(st) == ran[rules[s].extender, chain, st]
            IN  IF s = 0 \/ s \in visited \/ ~MayRun(s, state, inPeriod) THEN state
                ELSE Followed(s, chain,
                       IF rules[s].extenderFirst THEN Performed(s, extended(state))
                       ELSE extended(Performed(s, state)))
    IN  ran

RunScene(s, chain, due) ==
    \E inPeriod \in SUBSET SceneIds :
        LET before == [last |-> last, flagged |-> flagged, timers |-> <<>>]
            final == Ran(inPeriod)[s, chain, before]
        IN  last' = final.last /\ flagged' = final.flagged /\ timers' = due \o final.timers

\* pressSceneButton, live, on a button with a scene.
PressScene(s) ==
    /\ presses < PressMax /\ presses' = presses + 1
    /\ RunScene(s, {}, timers)
    /\ UNCHANGED rules

\* The times differ from scene to scene: any of the timers may be first.
NextScene ==
    /\ \E n \in DOMAIN timers : RunScene(timers[n].scene, timers[n].chain, RemoveAt(timers, n))
    /\ UNCHANGED <<rules, presses>>

SceneNext == NextScene \/ \E s \in SceneIds : PressScene(s)
SceneSpec == SceneInit /\ [][SceneNext]_sceneVars
SceneFairness == WF_sceneVars(NextScene)

-----------------------------------------------------------------------------
(* Properties *)

\* Where a scene may lead, at once or in time.
Leads(s) == {rules[s].next, rules[s].extender} \ {0}
OnCircle(s) ==
    \A set \in SUBSET SceneIds :
        /\ Leads(s) \subseteq set
        /\ \A t \in set : Leads(t) \subseteq set
        => s \in set

\* Scenes that lead to one another in a circle do not run for ever, from
\* however many presses, unless one that begins a new sequence is among them.
FreshEnds == \A s \in SceneIds : rules[s].fresh => ~OnCircle(s)
ChainsEnd == FreshEnds ~> timers = <<>>
=============================================================================
