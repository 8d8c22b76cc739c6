--------------------------- MODULE IdentityScenes ---------------------------
(***************************************************************************)
(* The WebGL scenes of the public pages: identity objects (marks and       *)
(* seals) that build their scene once they come into view, one object per  *)
(* animation frame.                                                        *)
(*                                                                         *)
(* An object's effect runs again whenever what it depends on changes; the  *)
(* scene, the flags and the timer belong to one run of it, while the tasks *)
(* that build scenes wait in a queue that all objects share and outlive    *)
(* the run that scheduled them.                                            *)
(*                                                                         *)
(* The observer's callback goes by the first of the reports it is handed   *)
(* (entries[0]).  When an object came into view and the report that it was *)
(* out of view has not been delivered yet, the callback passes the newer   *)
(* report over: the object is on screen with no scene, no task to build    *)
(* one and no failure shown, until it is scrolled again.  The run keeps    *)
(* note of that (missed), and the properties say what holds otherwise.     *)
(***************************************************************************)
EXTENDS Naturals, Sequences, FiniteSets, SequencesExt

CONSTANTS
    Objects,
    Cycling,     \* the objects a tier deck shows, replaced at each tick of its timer
    MaxRuns,     \* bound: per object the runs of its effect
    MaxQueued,   \* bound: tasks that wait
    Losable,     \* bound: the objects whose context the browser takes away
    Nothing

ASSUME IdentityScenesAssumption == /\ MaxQueued \in Nat \ {0} /\ {Cycling, Losable} \subseteq SUBSET Objects
                                   /\ MaxRuns \in [Objects -> Nat \ {0}]

VARIABLES
    noWebGL,   \* the store's switch
    hidden,    \* the tab is in the background: it draws no frame
    mounted,   \* per object whether its page is shown
    started,   \* per object how often its effect has run
    effect,    \* per object the run in force, or Nothing
    onscreen,  \* per object whether it is in view
    report,    \* per object the first of the reports not delivered yet, or Nothing
    scene,     \* per object and run the scene it built, or Nothing
    mode,      \* per object what the page shows of it
    queue      \* sceneConstructionQueue: the tasks to build a scene

sceneVars == <<noWebGL, hidden, mounted, started, effect, onscreen, report, scene, mode, queue>>

Runs   == UNION {1..MaxRuns[o] : o \in Objects}
Scene  == [paused: BOOLEAN, lost: BOOLEAN, frames: Nat]

\* visible is the flag the handler keeps; missed, which the code has no trace of, says whether the
\* last callback passed over a report that said otherwise.
Effect == [run: Runs, visible: BOOLEAN, missed: BOOLEAN, settled: BOOLEAN, timer: BOOLEAN, bound: BOOLEAN]

ASSUME NothingAssumption == Nothing \notin Scene /\ Nothing \notin Effect /\ Nothing \notin BOOLEAN

-----------------------------------------------------------------------------
(* ProvenanceIdentityScene. *)

\* A new scene asks for its first frame.
NewScene == [paused |-> FALSE, lost |-> FALSE, frames |-> 1]

\* pause cancels the frame that was asked for last.
Pause(s) == [s EXCEPT !.paused = TRUE, !.frames = IF @ = 0 THEN 0 ELSE @ - 1]

\* Mutant: it asks for a frame though one is on its way.
ResumeAnyway(s) == [s EXCEPT !.paused = FALSE, !.frames = @ + 1]

Resume(s) == IF s.paused THEN [s EXCEPT !.paused = FALSE, !.frames = @ + 1] ELSE s

\* A frame asks for the next one, also while the context is lost and nothing is drawn.
Animate(s) == IF s.paused THEN [s EXCEPT !.frames = @ - 1] ELSE s

-----------------------------------------------------------------------------
(* The effect of R5IdentityObject. *)

Current(o) == effect[o] # Nothing
Built(o)   == Current(o) /\ scene[o][effect[o].run] # Nothing
Queued(o)  == Current(o) /\ <<o, effect[o].run>> \in ToSet(queue)
Free(o)    == started[o] < MaxRuns[o]

\* A run observes its host afresh; without WebGL it only shows the fallback.
NewRun(o) == [run |-> started[o] + 1, visible |-> FALSE, missed |-> FALSE, settled |-> FALSE, timer |-> TRUE, bound |-> FALSE]

\* The clean-up of the run in force and, for the objects in S, the next run.  An object whose
\* component is a new one starts from the fallback, one that goes on shows what it showed.
Rerun(gone, S, fresh, without) ==
    LET starts == IF without THEN {} ELSE S
    IN  /\ \A o \in starts : Free(o)
        /\ started' = [o \in Objects |-> IF o \in starts THEN started[o] + 1 ELSE started[o]]
        /\ effect'  = [o \in Objects |-> IF o \in starts THEN NewRun(o)
                                         ELSE IF o \in gone THEN Nothing ELSE effect[o]]
        /\ scene'   = [o \in Objects |-> IF o \in gone /\ Current(o)
                                         THEN [scene[o] EXCEPT ![effect[o].run] = Nothing] ELSE scene[o]]
        /\ report'  = [o \in Objects |-> IF o \in starts THEN onscreen[o] ELSE IF o \in gone THEN Nothing ELSE report[o]]
        /\ mode'    = [o \in Objects |-> IF o \in fresh \/ (o \in S /\ without) THEN "fallback" ELSE mode[o]]

Shown == {o \in Objects : mounted[o]}

Mount(o) ==
    /\ ~mounted[o] /\ mounted' = [mounted EXCEPT ![o] = TRUE]
    /\ Rerun({}, {o}, {o}, noWebGL)
    /\ UNCHANGED <<noWebGL, hidden, onscreen, queue>>

Unmount(o) ==
    /\ mounted[o] /\ mounted' = [mounted EXCEPT ![o] = FALSE]
    /\ Rerun({o}, {}, {o}, noWebGL) /\ onscreen' = [onscreen EXCEPT ![o] = FALSE]
    /\ UNCHANGED <<noWebGL, hidden, queue>>

\* The deck shows its next tier as a new component in the old one's place.
ActiveTier(o) ==
    /\ o \in Cycling /\ mounted[o] /\ onscreen[o]
    /\ Rerun({o}, {o}, {o}, noWebGL)
    /\ UNCHANGED <<noWebGL, hidden, mounted, onscreen, queue>>

\* The preference for less motion is one the objects' effects depend on; the hero's is told of it.
PreferReducedMotion ==
    /\ ~hidden /\ ~noWebGL /\ Shown # {} /\ Rerun(Shown, Shown, {}, FALSE)
    /\ UNCHANGED <<noWebGL, hidden, mounted, onscreen, queue>>

Scroll(o) ==
    /\ ~hidden /\ mounted[o] /\ onscreen' = [onscreen EXCEPT ![o] = ~@]
    /\ report' = IF Current(o) /\ report[o] = Nothing THEN [report EXCEPT ![o] = ~onscreen[o]] ELSE report
    /\ UNCHANGED <<noWebGL, hidden, mounted, started, effect, scene, mode, queue>>

\* Mutant: what is shown as live needs no scene.
UnlessLive(o) == IF mode[o] = "live" THEN queue ELSE Append(queue, <<o, effect[o].run>>)

CreateScene(o) == IF Built(o) THEN queue ELSE Append(queue, <<o, effect[o].run>>)

\* The observer's callback is handed all reports and goes by the first.
Notify(o) ==
    /\ Current(o) /\ report[o] # Nothing /\ Len(queue) < MaxQueued
    /\ LET visible == report[o]
           r       == effect[o].run
       IN  /\ effect' = [effect EXCEPT ![o].visible = visible, ![o].missed = visible # onscreen[o]]
           /\ queue'  = IF visible THEN CreateScene(o) ELSE queue
           /\ scene'  = IF ~Built(o) THEN scene
                        ELSE [scene EXCEPT ![o][r] = IF visible THEN Resume(@) ELSE Pause(@)]
    /\ report' = [report EXCEPT ![o] = Nothing]
    /\ UNCHANGED <<noWebGL, hidden, mounted, started, onscreen, mode>>

\* Mutant: a task builds its scene whatever became of the run that scheduled it.
EvenIfDisposed(o, r) == scene[o][r] = Nothing

\* A task builds a scene if its run is still in force and has none.
Wanted(o, r) == Current(o) /\ effect[o].run = r /\ scene[o][r] = Nothing

\* Mutant: a scene that is finished after its object left the view goes on drawing.
Running(o) == NewScene

Fresh(o) == IF Current(o) /\ ~effect[o].visible THEN Pause(NewScene) ELSE NewScene

\* Mutant: a task that throws breaks the chain of the ones that wait for it.
IfBuilt(ok) == IF ok THEN Tail(queue) ELSE <<>>

Popped(ok) == Tail(queue)

\* The head of the queue runs in an animation frame; the constructor may throw.
Build ==
    /\ queue # <<>> /\ ~hidden
    /\ LET o == Head(queue)[1]
           r == Head(queue)[2]
       IN  \E ok \in IF Wanted(o, r) THEN BOOLEAN ELSE {TRUE} :
             /\ queue' = Popped(ok)
             /\ IF ~Wanted(o, r) THEN UNCHANGED <<effect, scene, mode>>
                ELSE /\ effect' = [effect EXCEPT ![o] = IF @ = Nothing THEN Nothing ELSE [@ EXCEPT !.settled = TRUE]]
                     /\ scene'  = IF ok THEN [scene EXCEPT ![o][r] = Fresh(o)] ELSE scene
                     /\ mode'   = [mode EXCEPT ![o] = IF ok THEN "live" ELSE "failed"]
    /\ UNCHANGED <<noWebGL, hidden, mounted, started, onscreen, report>>

Known(o) == Built(o) \/ effect[o].settled

\* The timer polls for the scene it is to listen to.
BindTimer(o) ==
    /\ Current(o) /\ effect[o].timer /\ Known(o)
    /\ effect' = [effect EXCEPT ![o].timer = FALSE, ![o].bound = Built(o)]
    /\ UNCHANGED <<noWebGL, hidden, mounted, started, onscreen, report, scene, mode, queue>>

Frame(o) ==
    /\ ~hidden /\ Built(o) /\ scene[o][effect[o].run].frames > 0
    /\ scene' = [scene EXCEPT ![o][effect[o].run] = Animate(@)]
    /\ UNCHANGED <<noWebGL, hidden, mounted, started, effect, onscreen, report, mode, queue>>

\* The browser takes the context of a scene away, and gives it back.
Context(o, lost) ==
    /\ o \in Losable /\ Built(o) /\ scene[o][effect[o].run].lost = ~lost
    /\ scene' = [scene EXCEPT ![o][effect[o].run].lost = lost]
    /\ mode'  = IF effect[o].bound THEN [mode EXCEPT ![o] = IF lost THEN "failed" ELSE "live"] ELSE mode
    /\ UNCHANGED <<noWebGL, hidden, mounted, started, effect, onscreen, report, queue>>

SetNoWebGL ==
    /\ ~hidden /\ noWebGL' = ~noWebGL
    /\ Rerun(Shown, Shown, {}, noWebGL')
    /\ UNCHANGED <<hidden, mounted, onscreen, queue>>

Visibility ==
    /\ hidden' = ~hidden
    /\ UNCHANGED <<noWebGL, mounted, started, effect, onscreen, report, scene, mode, queue>>

ScenesInit ==
    /\ noWebGL = FALSE /\ hidden = FALSE
    /\ mounted  = [o \in Objects |-> FALSE] /\ started = [o \in Objects |-> 0]
    /\ effect   = [o \in Objects |-> Nothing] /\ onscreen = [o \in Objects |-> FALSE]
    /\ report = [o \in Objects |-> Nothing]
    /\ scene    = [o \in Objects |-> [r \in Runs |-> Nothing]]
    /\ mode     = [o \in Objects |-> "fallback"] /\ queue = <<>>

ScenesNext ==
    \/ \E o \in Objects : Mount(o) \/ Unmount(o) \/ ActiveTier(o) \/ Scroll(o) \/ Notify(o)
                          \/ BindTimer(o) \/ Frame(o) \/ \E lost \in BOOLEAN : Context(o, lost)
    \/ Build \/ PreferReducedMotion \/ SetNoWebGL \/ Visibility

\* Timers fire, and a tab that is shown draws its frames.
ScenesSpec == ScenesInit /\ [][ScenesNext]_sceneVars /\ WF_sceneVars(Build) /\ \A o \in Objects : WF_sceneVars(BindTimer(o))

ScenesTypeOK ==
    /\ {noWebGL, hidden} \subseteq BOOLEAN
    /\ mounted \in [Objects -> BOOLEAN]
    /\ started \in [Objects -> Runs \cup {0}] /\ effect \in [Objects -> Effect \cup {Nothing}]
    /\ onscreen \in [Objects -> BOOLEAN]
    /\ report \in [Objects -> BOOLEAN \cup {Nothing}]
    /\ \A o \in Objects, r \in Runs : scene[o][r] \in Scene \cup {Nothing}
    /\ mode \in [Objects -> {"fallback", "live", "failed"}]
    /\ queue \in Seq(Objects \X Runs) /\ Len(queue) <= MaxQueued

-----------------------------------------------------------------------------
(* Properties. *)

\* A scene draws in one loop: it waits for exactly one frame while it runs and for none while it
\* is paused, however often it is resumed.  (pause, resume, animate.)
OneLoop ==
    \A o \in Objects, r \in Runs :
        scene[o][r] # Nothing => scene[o][r].frames = IF scene[o][r].paused THEN 0 ELSE 1

\* A scene belongs to the run of the effect that is in force: none is built for, or left to, a page
\* that is gone, a mode that is off or a component that was replaced.  (disposed in createScene.)
NoOrphan ==
    \A o \in Objects, r \in Runs :
        scene[o][r] # Nothing => Current(o) /\ effect[o].run = r /\ mounted[o] /\ ~noWebGL

\* An object draws exactly while the flag its observer's callback keeps says so, also if it left the
\* view while its scene was waiting to be built.  (`if (!visible) scene.pause()`.)
DrawsInView == \A o \in Objects : Built(o) => scene[o][effect[o].run].paused = ~effect[o].visible

\* What the callback knows of an object is what is so: every report is delivered, and none of those
\* that came together with an older one was passed over.
Told(o) == report[o] = Nothing /\ ~effect[o].missed

\* An object on screen draws, or has a task to build its scene, or shows that it failed, whatever
\* became of the tasks before its own and however its runs replaced each other, once the callback
\* was told that it is there.  (createScene and scene.resume in the observer's callback.)
ShownOrComing ==
    \A o \in Objects : Current(o) /\ onscreen[o] /\ Told(o) =>
        \/ Built(o) /\ ~scene[o][effect[o].run].paused
        \/ Queued(o) \/ mode[o] = "failed"

InForce(o, r) == Current(o) /\ effect[o].run = r
Waits(o, r)   == InForce(o, r) /\ effect[o].visible /\ ~effect[o].settled
Polls(o, r)   == InForce(o, r) /\ effect[o].settled /\ effect[o].timer

\* An object whose callback says it is in view gets its scene, or shows that it failed, in a tab that
\* stays in the foreground, whatever becomes of the tasks before its own, and the timer that waits
\* for a construction ends once it was tried, also if it failed; the timer of an object that never
\* came into view polls on until the clean-up.  (the promise chain of scheduleSceneConstruction, the
\* comment on constructionSettled.)
QueueSettles ==
    /\ \A o \in Objects, r \in Runs : Waits(o, r) ~> ~Waits(o, r) \/ hidden
    /\ \A o \in Objects, r \in Runs : Polls(o, r) ~> ~Polls(o, r)
=============================================================================
