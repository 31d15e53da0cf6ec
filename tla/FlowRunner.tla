------------------------------ MODULE FlowRunner ------------------------------
(***************************************************************************)
(* One run of a flow (operator/src/openxr_operator/runner.py): the parse   *)
(* gate (flow.py), the interpreter with its sub-flows and repeats, settle  *)
(* (settle.py), the driver's own capability gate (godot_driver.py), the    *)
(* run bundle (artifacts.py) and the exit code (cli.py).                   *)
(*                                                                         *)
(* The interpreter is Python recursion; here it is a stack of frames, the  *)
(* bottom one the top-level flow.  Only its commands are recorded as steps.*)
(* A request to the engine is answered, fails (timeout, mismatch, error    *)
(* reply: DriverError), or meets a connection that went away while nobody  *)
(* listened: send raises ConnectionClosed, which is no DriverError.        *)
(***************************************************************************)
EXTENDS Naturals, Sequences, FiniteSets, Selectors

CONSTANTS Scenes,         \* what the engine may show when the tree is asked for
          Files,          \* flow files
          Main,           \* the one given on the command line
          Libraries,      \* what the files may hold: functions from Files to flows
          StableSamples,  \* stable_samples
          MaxDepth        \* the interpreter's recursion limit, in flows and repeats

ASSUME MainAssumption == Main \in Files
ASSUME BoundsAssumption == StableSamples \in Nat \ {0} /\ MaxDepth \in Nat \ {0}
ASSUME ScenesAssumption == \A s \in Scenes : IsTree(s)

(* A command is [cmd, wellformed, file, here, times, body, sel]: file and  *)
(* here (when.platform holds) are for run_flow, times and body for repeat, *)
(* sel for the commands that take a selector; settle_fail is settle with   *)
(* on_timeout: fail.  It is well-formed if its arguments are there and of  *)
(* the right type, and every pattern that is compared is one: the parser   *)
(* looks at none of this.                                                  *)
MUTATING_COMMANDS == {"press", "move_controller"}
COMMANDS == MUTATING_COMMANDS \cup {"launch", "settle", "settle_fail", "capture", "assert_visible",
                                    "assert_property", "run_flow", "repeat", "wait_until"}

(* Flows are lists of commands, every run_flow names a file, and no repeat *)
(* holds another repeat that does anything: a bound of the model.          *)
IsCommandList(cs) == /\ cs \in Seq(ToSet(cs))
                     /\ \A i \in DOMAIN cs : cs[i].file \in Files /\ cs[i].times \in Nat

ASSUME LibrariesAssumption ==
    \A l \in Libraries : \A f \in Files :
        /\ IsCommandList(l[f].commands)
        /\ \A i \in DOMAIN l[f].commands :
              LET body == l[f].commands[i].body IN
              /\ IsCommandList(body)
              /\ \A j \in DOMAIN body : body[j].body = <<>>

VARIABLES lib,       \* file -> [capabilities, commands]
          phase,     \* load, running, manifest, junit, escaped, over
          stack,     \* frames: flow, commands, at, left (rounds of a repeat)
          steps,     \* statuses of the recorded steps
          bundle,    \* manifest, junit: what has been written
          chan,      \* the connection: up or gone
          waiting, late, seen, stable, settled,    \* settle and wait_until
          scene,     \* the scene whose tree the command at hand was sent; NoScene before
          found,     \* what its selector is resolved to on that tree
          effects,   \* mutations that reached the engine: [cmd, by]
          raised,    \* the exception that escaped run
          exit,      \* exit code; 9 for a traceback (1 for the shell), 99 before the end
          trouble    \* history: something failed or was refused

NoScene == <<>>
waitVars == <<waiting, late, seen, stable, settled, scene, found>>
vars == <<lib, phase, stack, steps, bundle, chan, waitVars, effects, raised, exit, trouble>>

Init == /\ lib \in Libraries
        /\ phase = "load" /\ stack = <<>> /\ steps = <<>> /\ bundle = {}
        /\ chan = "up"
        /\ waiting = FALSE /\ late = FALSE /\ seen = <<>> /\ stable = 0 /\ settled = FALSE
        /\ scene = NoScene /\ found = NoNode
        /\ effects = {} /\ raised = "none" /\ exit = 99 /\ trouble = FALSE

-----------------------------------------------------------------------------
(* parse_flow.  A sub-flow's file is not looked at.                        *)

ValidCommand(c, caps) == c.cmd \in COMMANDS /\ (c.cmd \in MUTATING_COMMANDS => c.cmd \in caps)

Accepted(f) ==
    LET flow == lib[f] IN
    \A i \in DOMAIN flow.commands :
        LET c == flow.commands[i] IN
        /\ ValidCommand(c, flow.capabilities)
        /\ \A j \in DOMAIN c.body : ValidCommand(c.body[j], flow.capabilities)

(* The driver is made with the top-level flow's capabilities.              *)
LooseGate(cmd) == TRUE
DriverGrants(cmd) == cmd \in lib[Main].capabilities

-----------------------------------------------------------------------------
Top == stack[Len(stack)]
Command == Top.commands[Top.at]
FrameDone == Top.at > Len(Top.commands)
Frame(f, commands, rounds) == [flow |-> f, commands |-> commands, at |-> 1, left |-> rounds]
At(names) == phase = "running" /\ ~FrameDone /\ Command.cmd \in names

(* The command is done; one of the top-level flow is recorded.             *)
EveryDepth == TRUE
TopLevel == Len(stack) = 1

(* The step is in the list, but commands.jsonl cannot be written.          *)
Unrecorded(status) ==
    /\ steps' = Append(steps, status)
    /\ phase' = "escaped" /\ raised' = "OSError" /\ trouble' = TRUE
    /\ UNCHANGED stack

Passes(status) ==
    \/ /\ stack' = [stack EXCEPT ![Len(stack)].at = @ + 1]
       /\ steps' = IF TopLevel THEN Append(steps, status) ELSE steps
       /\ UNCHANGED <<phase, raised, trouble>>
    \/ TopLevel /\ Unrecorded(status)

(* What _execute catches stops the run at the top-level step, however deep.*)
GoesOn(status) == status # "error"
Stops(status) == TRUE

Fails(status) ==
    \/ /\ steps' = Append(steps, status)
       /\ trouble' = TRUE
       /\ IF Stops(status)
          THEN /\ phase' = "manifest"
               /\ UNCHANGED stack
          ELSE /\ stack' = <<[stack[1] EXCEPT !.at = @ + 1]>>
               /\ UNCHANGED phase
       /\ UNCHANGED raised
    \/ Unrecorded(status)

(* What it does not catch leaves run, and nothing more is written.         *)
Escapes(exception) ==
    /\ phase' = "escaped" /\ raised' = exception /\ trouble' = TRUE
    /\ UNCHANGED <<stack, steps>>

(* The arguments are used as they stand.  KeyError is for its like too:    *)
(* ValueError, TypeError, AttributeError, re.error.                        *)
Readable == Command.wellformed
Trips == ~Readable /\ Escapes("KeyError")

(* A request that does not bring the answer the command goes on with.      *)
NoAnswer == \/ chan = "up" /\ Fails("error")
            \/ chan = "gone" /\ Escapes("ConnectionClosed")

-----------------------------------------------------------------------------
(* cli.main: nothing runs unless the flow parses and connect succeeds.     *)
Load ==
    /\ phase = "load"
    /\ \/ /\ Accepted(Main) /\ chan = "up"
          /\ phase' = "running"
          /\ stack' = <<Frame(Main, lib[Main].commands, 1)>>
          /\ UNCHANGED <<raised, trouble>>
       \/ /\ phase' = "escaped" /\ trouble' = TRUE
          /\ raised' \in IF Accepted(Main) THEN {"DriverError", "OSError"}
                                           ELSE {"FlowRejected", "TypeError"}
          /\ UNCHANGED stack
    /\ UNCHANGED <<lib, steps, bundle, chan, waitVars, effects, exit>>

(* launch starts a process, is not configured, or finds no such program.   *)
Launch ==
    /\ At({"launch"})
    /\ Passes("passed") \/ Fails("error") \/ Escapes("OSError")
    /\ UNCHANGED <<lib, bundle, chan, waitVars, effects, exit>>

(* _tree: the request for the scene's tree, and a file of the bundle; the  *)
(* wait of wait_until is over if either fails.  The selector is resolved on*)
(* the tree as it came; to wait_until an absent node is no error.          *)
SelectorCommands == {"assert_visible", "assert_property", "wait_until"}

Patient(sel) == [k \in {"optional"} \cup DOMAIN sel |->
                    IF k = "optional" THEN TRUE ELSE sel[k]]
Wanted == IF Command.cmd = "wait_until" THEN Patient(Command.sel) ELSE Command.sel
Resolved(s) == Resolve(Serialize(s), Wanted)

Tree ==
    /\ At(SelectorCommands) /\ (waiting <=> Command.cmd = "wait_until")
    /\ scene = NoScene
    /\ \/ chan = "up" /\ Escapes("OSError") /\ waiting' = FALSE /\ UNCHANGED <<scene, found>>
       \/ Trips /\ waiting' = FALSE /\ UNCHANGED <<scene, found>>
       \/ NoAnswer /\ waiting' = FALSE /\ UNCHANGED <<scene, found>>
       \/ /\ Readable /\ chan = "up"
          /\ scene' \in Scenes /\ found' = Resolved(scene')
          /\ UNCHANGED <<waiting, phase, stack, steps, raised, trouble>>
    /\ UNCHANGED <<lib, bundle, chan, late, seen, stable, settled, effects, exit>>

(* The command goes on with what was found, and keeps no tree.             *)
IsFound(r) == r.is = "node"
IsVisible(r) == r.is = "node" /\ scene[r.node].visible
Forgets == scene' = NoScene /\ found' = NoNode

AssertVisible ==
    /\ At({"assert_visible"}) /\ scene # NoScene
    /\ \/ (IsVisible(found) \/ found.is = "none") /\ Passes("passed")
       \/ IsFound(found) /\ ~IsVisible(found) /\ Fails("failed")
       \/ found.is = "error" /\ Fails("error")
    /\ Forgets
    /\ UNCHANGED <<lib, bundle, chan, waiting, late, seen, stable, settled, effects, exit>>

(* The value is read with a second request, of whatever is there by then;  *)
(* an absent node fails the assertion even where absence is allowed.       *)
AssertProperty ==
    /\ At({"assert_property"}) /\ scene # NoScene
    /\ \/ IsFound(found) /\ chan = "up" /\ (Passes("passed") \/ Fails("failed"))
       \/ IsFound(found) /\ NoAnswer
       \/ found.is = "none" /\ Fails("failed")
       \/ found.is = "error" /\ Fails("error")
    /\ Forgets
    /\ UNCHANGED <<lib, bundle, chan, waiting, late, seen, stable, settled, effects, exit>>

Capture ==
    /\ At({"capture"})
    /\ \/ chan = "up" /\ (Passes("passed") \/ Escapes("OSError"))
       \/ NoAnswer
    /\ UNCHANGED <<lib, bundle, chan, waitVars, effects, exit>>

(* move_controller and press: the driver's gate, which looks at the values *)
(* too, comes before the request.  A request that failed may have reached  *)
(* the engine.                                                             *)
Mutate ==
    /\ At(MUTATING_COMMANDS)
    /\ LET effect == [cmd |-> Command.cmd, by |-> Top.flow] IN
       \/ Trips /\ UNCHANGED effects
       \/ /\ ~DriverGrants(Command.cmd) \/ ~Readable
          /\ Escapes("ActionRejected")
          /\ UNCHANGED effects
       \/ /\ DriverGrants(Command.cmd) /\ Readable /\ chan = "up"
          /\ effects' = effects \cup {effect}
          /\ Passes("passed") \/ Fails("error")
       \/ /\ DriverGrants(Command.cmd) /\ Readable
          /\ NoAnswer
          /\ UNCHANGED effects
    /\ UNCHANGED <<lib, bundle, chan, waitVars, exit>>

NeverOverdue == FALSE
Overdue == late

(* wait_until polls the tree until the node shows or the time is over.     *)
WaitStart ==
    /\ At({"wait_until"}) /\ ~waiting
    /\ waiting' = TRUE /\ late' = FALSE
    /\ UNCHANGED <<lib, phase, stack, steps, bundle, chan, seen, stable, settled, scene, found,
                   effects, raised, exit, trouble>>

WaitPoll ==
    /\ At({"wait_until"}) /\ scene # NoScene
    /\ \/ IsVisible(found) /\ Passes("passed") /\ waiting' = FALSE
       \/ found.is = "error" /\ Fails("error") /\ waiting' = FALSE
       \/ /\ ~IsVisible(found) /\ found.is # "error"
          /\ \/ Overdue /\ Fails("failed") /\ waiting' = FALSE
             \/ ~Overdue /\ UNCHANGED <<waiting, phase, stack, steps, raised, trouble>>
    /\ Forgets
    /\ UNCHANGED <<lib, bundle, chan, late, seen, stable, settled, effects, exit>>

(* wait_for_settle: a first frame, then frames until stable_samples in a   *)
(* row are close to the one before, or the time is over.  A picture is its *)
(* fingerprint on a scale on which neighbours differ less than threshold;  *)
(* PIL may be unable to read one.                                          *)
Pictures == 0..2
Close(p, q) == p <= q + 1 /\ q <= p + 1
LastOf(s) == s[Len(s)]
Recent(s) == SubSeq(s, IF Len(s) > StableSamples + 1 THEN Len(s) - StableSamples ELSE 1, Len(s))

BadPicture == chan = "up" /\ Escapes("UnidentifiedImageError")

SettleStart ==
    /\ At({"settle", "settle_fail"}) /\ ~waiting
    /\ \/ /\ Readable /\ chan = "up"
          /\ waiting' = TRUE /\ late' = FALSE /\ stable' = 0 /\ settled' = FALSE
          /\ \E p \in Pictures : seen' = <<p>>
          /\ UNCHANGED <<phase, stack, steps, raised, trouble>>
       \/ /\ Trips \/ (Readable /\ (NoAnswer \/ BadPicture))
          /\ UNCHANGED <<waiting, late, seen, stable, settled>>
    /\ UNCHANGED <<lib, bundle, chan, scene, found, effects, exit>>

NeverResets(p) == IF Close(p, LastOf(seen)) THEN stable + 1 ELSE stable
Streak(p) == IF Close(p, LastOf(seen)) THEN stable + 1 ELSE 0

SettleSample ==
    /\ At({"settle", "settle_fail"}) /\ waiting
    /\ \/ /\ chan = "up"
          /\ \E p \in Pictures :
                /\ seen' = Recent(Append(seen, p))
                /\ stable' = Streak(p)
          /\ settled' = (stable' >= StableSamples)
          /\ waiting' = ~(settled' \/ Overdue)
          /\ \/ waiting' /\ UNCHANGED <<phase, stack, steps, raised, trouble>>
             \/ settled' /\ Passes("passed")
             \/ ~settled' /\ Overdue /\ Command.cmd = "settle" /\ Passes("passed")
             \/ ~settled' /\ Overdue /\ Command.cmd = "settle_fail" /\ Fails("failed")
       \/ (NoAnswer \/ BadPicture) /\ waiting' = FALSE /\ UNCHANGED <<seen, stable, settled>>
    /\ UNCHANGED <<lib, bundle, chan, late, scene, found, effects, exit>>

(* run_flow: skipped on another platform; else the file is parsed now.     *)
RunFlow ==
    /\ At({"run_flow"})
    /\ \/ Trips
       \/ Readable /\ ~Command.here /\ Passes("skipped")
       \/ /\ Readable /\ Command.here /\ ~Accepted(Command.file)
          /\ Escapes("FlowRejected") \/ Escapes("TypeError")
       \/ /\ Readable /\ Command.here /\ Accepted(Command.file) /\ Len(stack) = MaxDepth
          /\ Escapes("RecursionError")
       \/ /\ Readable /\ Command.here /\ Accepted(Command.file) /\ Len(stack) < MaxDepth
          /\ stack' = Append(stack, Frame(Command.file, lib[Command.file].commands, 1))
          /\ UNCHANGED <<phase, steps, raised, trouble>>
    /\ UNCHANGED <<lib, bundle, chan, waitVars, effects, exit>>

Repeat ==
    /\ At({"repeat"})
    /\ \/ Trips
       \/ Readable /\ Command.times = 0 /\ Passes("passed")
       \/ /\ Readable /\ Command.times > 0 /\ Len(stack) = MaxDepth
          /\ Escapes("RecursionError")
       \/ /\ Readable /\ Command.times > 0 /\ Len(stack) < MaxDepth
          /\ stack' = Append(stack, Frame(Top.flow, Command.body, Command.times))
          /\ UNCHANGED <<phase, steps, raised, trouble>>
    /\ UNCHANGED <<lib, bundle, chan, waitVars, effects, exit>>

(* The end of a frame: the next round, or the command it belongs to is done*)
(* and, if that is a top-level one, recorded; at the bottom, the run is.   *)
FrameEnds ==
    /\ phase = "running" /\ FrameDone
    /\ \/ /\ Top.left > 1
          /\ stack' = [stack EXCEPT ![Len(stack)] = Frame(Top.flow, Top.commands, Top.left - 1)]
          /\ UNCHANGED <<phase, steps, raised, trouble>>
       \/ /\ Top.left = 1 /\ Len(stack) > 1
          /\ stack' = [SubSeq(stack, 1, Len(stack) - 1) EXCEPT ![Len(stack) - 1].at = @ + 1]
          /\ steps' = IF Len(stack) = 2 THEN Append(steps, "passed") ELSE steps
          /\ UNCHANGED <<phase, raised, trouble>>
       \/ /\ Top.left = 1 /\ Len(stack) = 2
          /\ Unrecorded("passed")
       \/ /\ Top.left = 1 /\ Len(stack) = 1
          /\ phase' = "manifest"
          /\ UNCHANGED <<stack, steps, raised, trouble>>
    /\ UNCHANGED <<lib, bundle, chan, waitVars, effects, exit>>

-----------------------------------------------------------------------------
(* run's end, and main's.                                                  *)

WriteManifest ==
    /\ phase = "manifest"
    /\ \/ phase' = "junit" /\ bundle' = bundle \cup {"manifest"} /\ UNCHANGED <<raised, trouble>>
       \/ phase' = "escaped" /\ raised' = "OSError" /\ trouble' = TRUE /\ UNCHANGED bundle
    /\ UNCHANGED <<lib, stack, steps, chan, waitVars, effects, exit>>

AllStepsBut(s, bad) == \A i \in DOMAIN s : s[i] # bad
IgnoresErrors(s) == AllStepsBut(s, "failed")
NoneFailed(s) == AllStepsBut(s, "failed") /\ AllStepsBut(s, "error")

WriteJunit ==
    /\ phase = "junit"
    /\ \/ /\ phase' = "over" /\ bundle' = bundle \cup {"junit"}
          /\ exit' = IF NoneFailed(steps) THEN 0 ELSE 1
          /\ UNCHANGED <<raised, trouble>>
       \/ /\ phase' = "escaped" /\ raised' = "OSError" /\ trouble' = TRUE
          /\ UNCHANGED <<bundle, exit>>
    /\ UNCHANGED <<lib, stack, steps, chan, waitVars, effects>>

Escaped ==
    /\ phase = "escaped"
    /\ phase' = "over"
    /\ exit' = IF raised \in {"FlowRejected", "DriverError"} THEN 2 ELSE 9
    /\ UNCHANGED <<lib, stack, steps, bundle, chan, waitVars, effects, raised, trouble>>

(* The engine exits or closes the connection; time passes.                 *)
EngineGone ==
    /\ phase \in {"load", "running"} /\ chan = "up"
    /\ chan' = "gone"
    /\ UNCHANGED <<lib, phase, stack, steps, bundle, waitVars, effects, raised, exit, trouble>>

Elapse ==
    /\ waiting /\ ~late
    /\ late' = TRUE
    /\ UNCHANGED <<lib, phase, stack, steps, bundle, chan, waiting, seen, stable, settled,
                   scene, found, effects, raised, exit, trouble>>

-----------------------------------------------------------------------------
Run == \/ Load \/ Launch \/ Tree \/ AssertVisible \/ AssertProperty \/ Capture \/ Mutate
       \/ WaitStart \/ WaitPoll \/ SettleStart \/ SettleSample
       \/ RunFlow \/ Repeat \/ FrameEnds
       \/ WriteManifest \/ WriteJunit \/ Escaped

Next == Run \/ EngineGone \/ Elapse

Spec == Init /\ [][Next]_vars

(* The one thread runs, every request has a deadline, and clocks advance.  *)
LiveSpec == Spec /\ WF_vars(Run) /\ WF_vars(Elapse)

-----------------------------------------------------------------------------
(* Properties.                                                             *)

(* Types, and that recorded steps are the top-level commands so far.       *)
TypeOK ==
    /\ phase \in {"load", "running", "manifest", "junit", "escaped", "over"}
    /\ chan \in {"up", "gone"} /\ bundle \subseteq {"manifest", "junit"}
    /\ waiting \in BOOLEAN /\ late \in BOOLEAN /\ settled \in BOOLEAN /\ trouble \in BOOLEAN
    /\ scene # NoScene => At(SelectorCommands) /\ <<>> \in DOMAIN scene
    /\ stable \in Nat /\ Len(seen) <= StableSamples + 1
    /\ effects \subseteq [cmd : MUTATING_COMMANDS, by : Files]
    /\ \A i \in DOMAIN steps : steps[i] \in {"passed", "skipped", "failed", "error"}
    /\ Len(stack) <= MaxDepth
    /\ phase = "running" => stack[1].flow = Main /\ Len(steps) = stack[1].at - 1

(* A mutation reaches the engine only if the header of the top-level flow  *)
(* and that of the sub-flow it stands in both grant it: a sub-flow cannot  *)
(* give itself what its caller has not (flow.py:8-11, cli.py:69-72).       *)
SubflowsCannotWiden ==
    \A e \in effects : e.cmd \in lib[Main].capabilities /\ e.cmd \in lib[e.by].capabilities

(* Exit code 0 means every top-level command ran and nothing anywhere      *)
(* failed; exit code 1 that something did, and that the bundle says so     *)
(* (runner.py:96-99, cli.py:87-95).                                        *)
ExitTellsTheTruth ==
    /\ exit = 0 => ~trouble /\ Len(steps) = Len(lib[Main].commands)
    /\ exit = 1 => trouble /\ bundle = {"manifest", "junit"}

(* After a failure, at whatever depth, no mutation reaches the engine that *)
(* had not reached it before (runner.py:7, 48-50).                         *)
NothingAfterFailure == [][trouble => effects' = effects]_vars

(* A settle that reports SETTLED looked at stable_samples + 1 frames in a  *)
(* row none of which differed visibly from the one before, however often   *)
(* the picture moved earlier (settle.py:65-97).                            *)
SettledStoodStill ==
    settled => /\ Len(seen) = StableSamples + 1
               /\ \A i \in 1..StableSamples : Close(seen[i], seen[i + 1])

(* What a flow is told about a node is true of the scene its tree was read *)
(* from, if that tree was sent whole: assert_visible goes past its command *)
(* only if the node the selector means is there and visible, or is nowhere *)
(* and may be; wait_until only if it is there and visible, and it fails an *)
(* assertion only when the deadline has passed and the node is still not to*)
(* be seen in the last tree (runner.py:153-185).                           *)
Shows(sel) == \E n \in DOMAIN scene : IsMeant(scene, sel, n) /\ scene[n].visible
MayBeAbsent(sel) == Optional(sel) /\ Meant(scene, sel) = {}
GoesPast == phase' = "running" /\ stack' # stack

SeesWhatIsThere ==
    [][scene # NoScene /\ ~Truncated(scene) =>
          /\ At({"assert_visible"}) /\ GoesPast => Shows(Command.sel) \/ MayBeAbsent(Command.sel)
          /\ At({"wait_until"}) /\ GoesPast => Shows(Command.sel)
          /\ At({"wait_until"}) /\ steps' = Append(steps, "failed") =>
                 late /\ ~Shows(Command.sel)]_vars

(* A selector finds in the tree that was sent what its reference definition*)
(* says it means in the scene; in a tree that was cut at least a node that *)
(* has all it asks for (selectors.py:12-14, 66-130).                       *)
SelectorsMeetReference == scene # NoScene => MeetsReference(scene, Wanted)

(* A run always comes to an end: waits have deadlines, a flow that runs    *)
(* itself meets the recursion limit (runner.py:173-203, settle.py:82-102). *)
RunEnds == <>(phase = "over")

(* runner.py:7: a failing step stops the run and the bundle still lands.   *)
BundleLands == (phase = "over" /\ stack # <<>> /\ raised # "OSError")
                   => bundle = {"manifest", "junit"}

=============================================================================
