--------------------------- MODULE FlowRunnerProofs ---------------------------
(***************************************************************************)
(* Theorems about FlowRunner, for any flow files, recursion limit and      *)
(* scenes: a sub-flow cannot widen what its caller was granted, nothing    *)
(* reaches the engine after a failure, every variable keeps its type, the  *)
(* exit code says what happened, a settle that passed saw a scene that     *)
(* stood still, selectors are resolved to what they mean, and what a step  *)
(* says of the scene is true of it.                                        *)
(*                                                                         *)
(* The argument: a frame gets on the stack only when the file it comes from*)
(* was accepted, and stays what it was; so every command the interpreter   *)
(* comes to is granted by the header of the file it stands in, and the     *)
(* driver's own gate adds the header of the top-level flow.  The last      *)
(* results come from SelectorProofs: resolution meets its reference, and no*)
(* selector means two nodes.                                               *)
(***************************************************************************)
EXTENDS FlowRunner, SelectorProofs

Granted(c, f) == c.cmd \in MUTATING_COMMANDS => c.cmd \in lib[f].capabilities

Body(b, f) == /\ IsCommandList(b)
              /\ \A j \in DOMAIN b : Granted(b[j], f) /\ b[j].body = <<>>
Commands(cs, f) == /\ IsCommandList(cs)
                   /\ \A i \in DOMAIN cs : Granted(cs[i], f) /\ Body(cs[i].body, f)

(* The lists of commands there are, and the frames made of them.           *)
Bodies(l, f) == {l[f].commands[i].body : i \in DOMAIN l[f].commands}
Lists == {<<>>} \cup {l[f].commands : l \in Libraries, f \in Files}
         \cup UNION {Bodies(l, f) : l \in Libraries, f \in Files}
Frames == [flow : Files, commands : Lists, at : Nat \ {0}, left : Nat]

StackInv == /\ lib \in Libraries
            /\ stack \in Seq(Frames)
            /\ \A k \in 1..Len(stack) : Commands(stack[k].commands, stack[k].flow)
            /\ phase = "load" => stack = <<>> /\ ~trouble
            /\ phase = "running" => Len(stack) > 0 /\ ~trouble

IInv == StackInv /\ SubflowsCannotWiden

LEMMA InitInv == Init => IInv
<1>1. Init => stack \in Seq(Frames)
  BY DEF Init
<1>2. QED
  BY <1>1 DEF Init, IInv, StackInv, SubflowsCannotWiden

-----------------------------------------------------------------------------
(* An accepted file's commands are granted by its own header.              *)
LEMMA AcceptedIsGranted ==
    ASSUME lib \in Libraries, NEW f \in Files, Accepted(f)
    PROVE  lib[f].commands \in Lists /\ Commands(lib[f].commands, f)
<1> DEFINE cs == lib[f].commands
<1>1. cs \in Lists
  BY DEF Lists
<1>2. /\ IsCommandList(cs)
      /\ \A i \in DOMAIN cs : /\ IsCommandList(cs[i].body)
                             /\ \A j \in DOMAIN cs[i].body : cs[i].body[j].body = <<>>
  BY LibrariesAssumption
<1>3. \A i \in DOMAIN cs : /\ Granted(cs[i], f)
                         /\ \A j \in DOMAIN cs[i].body : Granted(cs[i].body[j], f)
  BY DEF Accepted, ValidCommand, Granted
<1> HIDE DEF cs
<1>4. Commands(cs, f)
  BY <1>2, <1>3 DEF Commands, Body
<1>5. QED
  BY <1>1, <1>4 DEF cs

(* A body that is no repeat's outermost list is a list of commands too.    *)
LEMMA BodyIsCommands ==
    ASSUME NEW b, NEW f, Body(b, f)
    PROVE  Commands(b, f)
<1>1. IsCommandList(<<>>) /\ DOMAIN <<>> = {}
  BY DEF IsCommandList
<1>2. Body(<<>>, f)
  BY <1>1 DEF Body
<1>3. QED
  BY <1>2 DEF Body, Commands

(* Where the interpreter stands.                                           *)
LEMMA Standing ==
    ASSUME StackInv, phase = "running"
    PROVE  /\ Len(stack) \in 1..Len(stack) /\ Top = stack[Len(stack)] /\ Top \in Frames
           /\ Commands(Top.commands, Top.flow)
           /\ ~FrameDone => /\ Top.at \in DOMAIN Top.commands
                            /\ Granted(Command, Top.flow) /\ Body(Command.body, Top.flow)
                            /\ Command.file \in Files /\ Command.times \in Nat
<1>1. /\ Len(stack) \in 1..Len(stack) /\ Top = stack[Len(stack)] /\ Top \in Frames
      /\ Commands(Top.commands, Top.flow)
  BY DEF StackInv, Top
<1>2. ASSUME ~FrameDone
      PROVE  Top.at \in DOMAIN Top.commands
  <2>1. Top.at \in Nat \ {0}
    BY <1>1 DEF Frames
  <2>2. Top.commands \in Seq(ToSet(Top.commands))
    BY <1>1 DEF Commands, IsCommandList
  <2>3. QED
    BY <1>2, <2>1, <2>2 DEF FrameDone
<1>3. QED
  BY <1>1, <1>2 DEF Commands, IsCommandList, Command

LEMMA FrameFields ==
    ASSUME NEW fr \in Frames
    PROVE  /\ fr.flow \in Files /\ fr.commands \in Lists /\ fr.at \in Nat \ {0} /\ fr.left \in Nat
           /\ [fr EXCEPT !.at = @ + 1] \in Frames
           /\ [fr EXCEPT !.at = @ + 1].flow = fr.flow
           /\ [fr EXCEPT !.at = @ + 1].commands = fr.commands
  BY DEF Frames

(* The command at hand is done, or the run is over, or neither.            *)
LEMMA OutcomeInv ==
    ASSUME StackInv, phase = "running", lib' = lib,
           \/ \E status : Passes(status) \/ Fails(status) \/ Unrecorded(status)
           \/ \E exception : Escapes(exception)
           \/ UNCHANGED <<phase, stack, trouble>>
    PROVE  StackInv'
<1>0. ASSUME NEW status, Unrecorded(status) PROVE StackInv'
  BY <1>0 DEF Unrecorded, StackInv, Commands, Body, Granted
<1>1. ASSUME stack' = [stack EXCEPT ![Len(stack)].at = @ + 1], UNCHANGED <<phase, trouble>>
      PROVE  StackInv'
  <2>1. /\ stack' = [stack EXCEPT ![Len(stack)].at = @ + 1] /\ UNCHANGED <<phase, trouble>>
    BY <1>1
  <2>2. stack \in Seq(Frames) /\ Len(stack) \in 1..Len(stack)
    BY Standing DEF StackInv
  <2>3. PICK fr \in Frames : fr = [stack[Len(stack)] EXCEPT !.at = @ + 1]
    <3>1. stack[Len(stack)] \in Frames
      BY <2>2
    <3>2. [stack[Len(stack)] EXCEPT !.at = @ + 1] \in Frames
      BY <3>1, FrameFields
    <3>3. QED
      BY <3>2
  <2>4. stack' = [stack EXCEPT ![Len(stack)] = fr]
    BY <2>1, <2>3
  <2>5. /\ fr.flow = stack[Len(stack)].flow /\ fr.commands = stack[Len(stack)].commands
    BY <2>2, <2>3, FrameFields
  <2>6. stack' \in Seq(Frames) /\ Len(stack') = Len(stack)
    BY <2>2, <2>4
  <2>7. \A k \in 1..Len(stack') :
            stack'[k].commands = stack[k].commands /\ stack'[k].flow = stack[k].flow
    <3>1. ASSUME NEW k \in 1..Len(stack), k # Len(stack) PROVE stack'[k] = stack[k]
      BY <2>2, <2>4, <3>1
    <3>2. stack'[Len(stack)] = fr
      BY <2>2, <2>4
    <3>3. QED
      BY <2>5, <2>6, <3>1, <3>2
  <2>8. \A k \in 1..Len(stack') : Commands(stack[k].commands, stack[k].flow)'
    BY <2>6, <2>7 DEF StackInv, Commands, Body, Granted
  <2>9. QED
    BY <2>1, <2>6, <2>8 DEF StackInv
<1>2. ASSUME phase' = "manifest", trouble' = TRUE, UNCHANGED stack PROVE StackInv'
  BY <1>2 DEF StackInv, Commands, Body, Granted
<1>3. ASSUME NEW exception, Escapes(exception) PROVE StackInv'
  BY <1>3 DEF Escapes, StackInv, Commands, Body, Granted
<1>4. CASE UNCHANGED <<phase, stack, trouble>>
  BY <1>4 DEF StackInv, Commands, Body, Granted
<1>5. ASSUME NEW status, Passes(status) PROVE StackInv'
  BY <1>0, <1>1, <1>5 DEF Passes
<1>6. ASSUME NEW status, Fails(status) PROVE StackInv'
  BY <1>0, <1>2, <1>6 DEF Fails, Stops
<1>7. QED
  BY <1>0, <1>3, <1>4, <1>5, <1>6

(* A frame is put on the stack with the commands of an accepted file or of *)
(* the body at hand.                                                       *)
LEMMA PushInv ==
    ASSUME StackInv, lib' = lib, NEW f \in Files, NEW cs \in Lists, NEW n \in Nat, Commands(cs, f),
           stack' = Append(stack, Frame(f, cs, n)), phase' = "running", ~trouble'
    PROVE  StackInv'
<1>1. PICK fr \in Frames : fr = Frame(f, cs, n)
  BY DEF Frame, Frames
<1>2. fr.commands = cs /\ fr.flow = f
  BY <1>1 DEF Frame
<1>3. stack \in Seq(Frames)
  BY DEF StackInv
<1>4. /\ stack' \in Seq(Frames) /\ Len(stack') = Len(stack) + 1
      /\ \A k \in 1..Len(stack) : stack'[k] = stack[k]
      /\ stack'[Len(stack) + 1] = fr
      /\ \A k \in 1..Len(stack') : k \in 1..Len(stack) \/ k = Len(stack) + 1
  BY <1>1, <1>3
<1>5. ASSUME NEW k \in 1..Len(stack') PROVE Commands(stack'[k].commands, stack'[k].flow)
  <2>1. CASE k \in 1..Len(stack)
    BY <1>4, <2>1 DEF StackInv
  <2>2. CASE k = Len(stack) + 1
    BY <1>2, <1>4, <2>2
  <2>3. QED
    BY <1>4, <2>1, <2>2
<1>6. \A k \in 1..Len(stack') : Commands(stack[k].commands, stack[k].flow)'
  BY <1>5 DEF Commands, Body, Granted
<1>7. Len(stack') > 0
  BY <1>3, <1>4
<1>8. QED
  BY <1>4, <1>6, <1>7 DEF StackInv

LEMMA LoadInv == ASSUME StackInv, Load PROVE StackInv'
<1>1. CASE phase' = "escaped" /\ UNCHANGED stack
  BY <1>1 DEF Load, StackInv, Commands, Body, Granted
<1>2. CASE /\ Accepted(Main) /\ phase' = "running" /\ UNCHANGED trouble
           /\ stack' = <<Frame(Main, lib[Main].commands, 1)>>
  <2>1. lib' = lib /\ ~trouble' /\ lib \in Libraries /\ Main \in Files /\ 1 \in Nat
    BY <1>2, MainAssumption DEF Load, StackInv
  <2>2. lib[Main].commands \in Lists /\ Commands(lib[Main].commands, Main)
    BY <1>2, <2>1, AcceptedIsGranted
  <2>3. stack' = Append(stack, Frame(Main, lib[Main].commands, 1))
    BY <1>2 DEF Load, StackInv
  <2>4. QED
    BY <1>2, <2>1, <2>2, <2>3, PushInv
<1>3. QED
  BY <1>1, <1>2 DEF Load

LEMMA RunFlowInv == ASSUME StackInv, RunFlow PROVE StackInv'
<1>1. phase = "running" /\ ~FrameDone /\ lib' = lib
  BY DEF RunFlow, At
<1>2. CASE Passes("skipped") \/ \E e : Escapes(e)
  BY <1>1, <1>2, OutcomeInv
<1>3. CASE /\ Accepted(Command.file)
           /\ stack' = Append(stack, Frame(Command.file, lib[Command.file].commands, 1))
           /\ UNCHANGED <<phase, steps, raised, trouble>>
  <2>1. Command.file \in Files /\ lib \in Libraries /\ ~trouble /\ 1 \in Nat
    BY <1>1, Standing DEF StackInv
  <2>2. lib[Command.file].commands \in Lists /\ Commands(lib[Command.file].commands, Command.file)
    BY <1>3, <2>1, AcceptedIsGranted
  <2>3. QED
    BY <1>1, <1>3, <2>1, <2>2, PushInv
<1>4. QED
  BY <1>2, <1>3 DEF RunFlow, Trips

LEMMA RepeatInv == ASSUME StackInv, Repeat PROVE StackInv'
<1>1. phase = "running" /\ ~FrameDone /\ lib' = lib
  BY DEF Repeat, At
<1>2. CASE Passes("passed") \/ \E e : Escapes(e)
  BY <1>1, <1>2, OutcomeInv
<1>3. CASE /\ stack' = Append(stack, Frame(Top.flow, Command.body, Command.times))
           /\ UNCHANGED <<phase, steps, raised, trouble>>
  <2>1. /\ Top \in Frames /\ Top.at \in DOMAIN Top.commands /\ Command.times \in Nat
        /\ Commands(Top.commands, Top.flow) /\ Body(Command.body, Top.flow) /\ ~trouble
    BY <1>1, Standing DEF StackInv
  <2>2. Top.flow \in Files /\ Top.commands \in Lists
    BY <2>1, FrameFields
  <2>3. Command.body \in Lists
    <3>1. CASE Top.commands = <<>>
      BY <2>1, <3>1
    <3>2. CASE \E l \in Libraries, f \in Files : Top.commands = l[f].commands
      <4>1. PICK l \in Libraries, f \in Files : Top.commands = l[f].commands
        BY <3>2
      <4>2. Command.body \in Bodies(l, f)
        BY <2>1, <4>1 DEF Command, Bodies
      <4>3. QED
        BY <4>2 DEF Lists
    <3>3. CASE \E l \in Libraries, f \in Files : \E i \in DOMAIN l[f].commands :
                    Top.commands = l[f].commands[i].body
      <4>1. Command.body = <<>>
        <5>1. PICK l \in Libraries, f \in Files : \E i \in DOMAIN l[f].commands :
                    Top.commands = l[f].commands[i].body
          BY <3>3
        <5>2. PICK i \in DOMAIN l[f].commands : Top.commands = l[f].commands[i].body
          BY <5>1
        <5>3. \A j \in DOMAIN l[f].commands[i].body : l[f].commands[i].body[j].body = <<>>
          BY LibrariesAssumption
        <5>4. QED
          BY <2>1, <5>2, <5>3 DEF Command
      <4>2. QED
        BY <4>1 DEF Lists
    <3>4. QED
      BY <2>2, <3>1, <3>2, <3>3 DEF Lists, Bodies
  <2>4. Commands(Command.body, Top.flow)
    BY <2>1, BodyIsCommands
  <2>5. QED
    BY <1>1, <1>3, <2>1, <2>2, <2>3, <2>4, PushInv
<1>4. QED
  BY <1>2, <1>3 DEF Repeat, Trips

(* The end of a frame: another round, or back to the command it belongs to.*)
LEMMA FrameEndsInv == ASSUME StackInv, FrameEnds PROVE StackInv'
<1> DEFINE top == Len(stack)
<1>1. /\ phase = "running" /\ lib' = lib /\ ~trouble
      /\ stack \in Seq(Frames) /\ top \in 1..Len(stack)
      /\ \A k \in 1..Len(stack) : Commands(stack[k].commands, stack[k].flow)
  BY Standing DEF FrameEnds, StackInv
<1>2. CASE phase' = "manifest" /\ UNCHANGED stack
  BY <1>1, <1>2 DEF StackInv, Commands, Body, Granted
<1>0. CASE Unrecorded("passed")
  BY <1>0, <1>1, OutcomeInv
<1>3. CASE /\ Top.left > 1 /\ UNCHANGED <<phase, trouble>>
           /\ stack' = [stack EXCEPT ![Len(stack)] = Frame(Top.flow, Top.commands, Top.left - 1)]
  <2>1. stack[top] \in Frames /\ stack[top].left \in Nat /\ stack[top].left > 1
    <3>1. stack[top] \in Frames
      BY <1>1
    <3>2. QED
      BY <1>3, <3>1, FrameFields DEF Top
  <2>2. PICK fr \in Frames : /\ fr = Frame(Top.flow, Top.commands, Top.left - 1)
                             /\ fr.flow = stack[top].flow /\ fr.commands = stack[top].commands
    <3>1. Top.flow \in Files /\ Top.commands \in Lists /\ Top.left - 1 \in Nat
      <4>1. PICK g \in Frames : g = Top
        BY <2>1 DEF Top
      <4>2. g.flow \in Files /\ g.commands \in Lists /\ g.left \in Nat
        BY FrameFields
      <4>3. g.left > 1
        BY <1>3, <4>1
      <4>4. QED
        BY <4>1, <4>2, <4>3
    <3>2. Frame(Top.flow, Top.commands, Top.left - 1) \in Frames
      BY <3>1 DEF Frame, Frames
    <3>3. QED
      BY <3>2 DEF Frame, Top
  <2>3. stack' = [stack EXCEPT ![top] = fr]
    BY <1>3, <2>2
  <2>4. stack' \in Seq(Frames) /\ Len(stack') = Len(stack)
    BY <1>1, <2>3
  <2>5. \A k \in 1..Len(stack') :
            stack'[k].commands = stack[k].commands /\ stack'[k].flow = stack[k].flow
    <3>1. ASSUME NEW k \in 1..Len(stack), k # top PROVE stack'[k] = stack[k]
      BY <1>1, <2>3, <3>1
    <3>2. stack'[top] = fr
      BY <1>1, <2>3
    <3>3. QED
      BY <2>2, <2>4, <3>1, <3>2
  <2>6. \A k \in 1..Len(stack') : Commands(stack[k].commands, stack[k].flow)'
    BY <1>1, <2>4, <2>5 DEF Commands, Body, Granted
  <2>7. QED
    BY <1>1, <1>3, <2>4, <2>6 DEF StackInv
<1>4. CASE /\ Len(stack) > 1 /\ UNCHANGED <<phase, trouble>>
           /\ stack' = [SubSeq(stack, 1, Len(stack) - 1) EXCEPT ![Len(stack) - 1].at = @ + 1]
  <2>1. PICK s \in Seq(Frames) : /\ s = SubSeq(stack, 1, top - 1) /\ Len(s) = top - 1
                                 /\ \A k \in 1..Len(s) : s[k] = stack[k]
    <3>1. 1 \in Int /\ top - 1 \in Int /\ 1 <= top - 1 /\ top - 1 < Len(stack) + 1
      BY <1>1, <1>4
    <3>2. \A k \in 1..top - 1 : k \in 1..Len(stack) /\ stack[k] \in Frames
      BY <1>1, <3>1
    <3>3. /\ SubSeq(stack, 1, top - 1) \in Seq(Frames) /\ Len(SubSeq(stack, 1, top - 1)) = top - 1
          /\ \A k \in 1..top - 1 : SubSeq(stack, 1, top - 1)[k] = stack[k]
      BY <3>1, <3>2, SubSeqProperties
    <3>4. QED
      BY <3>3
  <2>2. Len(s) \in 1..Len(s) /\ s[Len(s)] \in Frames
    BY <1>1, <1>4, <2>1
  <2>3. PICK fr \in Frames : /\ fr = [s[Len(s)] EXCEPT !.at = @ + 1]
                             /\ fr.flow = s[Len(s)].flow /\ fr.commands = s[Len(s)].commands
    BY <2>2, FrameFields
  <2>4. stack' = [s EXCEPT ![Len(s)] = fr]
    BY <1>4, <2>1, <2>3
  <2>5. stack' \in Seq(Frames) /\ Len(stack') = Len(s) /\ Len(s) > 0
    BY <2>2, <2>4
  <2>6. \A k \in 1..Len(stack') : /\ k \in 1..Len(stack)
                                 /\ stack'[k].commands = stack[k].commands
                                 /\ stack'[k].flow = stack[k].flow
    <3>1. ASSUME NEW k \in 1..Len(s) PROVE k \in 1..Len(stack) /\ s[k] = stack[k]
      BY <1>1, <2>1, <3>1
    <3>2. ASSUME NEW k \in 1..Len(s), k # Len(s) PROVE stack'[k] = s[k]
      BY <2>4, <3>2
    <3>3. stack'[Len(s)] = fr
      BY <2>2, <2>4
    <3>4. QED
      BY <2>3, <2>5, <3>1, <3>2, <3>3
  <2>7. \A k \in 1..Len(stack') : Commands(stack[k].commands, stack[k].flow)'
    BY <1>1, <2>6 DEF Commands, Body, Granted
  <2>8. QED
    BY <1>1, <1>4, <2>5, <2>7 DEF StackInv
<1>5. QED
  BY <1>0, <1>2, <1>3, <1>4 DEF FrameEnds

-----------------------------------------------------------------------------
(* No other step touches the stack but through Passes, Fails and Escapes.  *)
LEMMA StackNext == ASSUME StackInv, [Next]_vars PROVE StackInv'
<1>1. CASE Launch \/ Tree \/ AssertVisible \/ AssertProperty \/ Capture \/ Mutate
  <2>1. phase = "running" /\ lib' = lib
    BY <1>1 DEF Launch, Tree, AssertVisible, AssertProperty, Capture, Mutate, At
  <2>2. \/ \E status : Passes(status) \/ Fails(status)
        \/ \E exception : Escapes(exception)
        \/ UNCHANGED <<phase, stack, trouble>>
    BY <1>1 DEF Launch, Tree, AssertVisible, AssertProperty, Capture, Mutate, NoAnswer, Trips
  <2>3. QED
    BY <2>1, <2>2, OutcomeInv
<1>2. CASE WaitStart \/ WaitPoll \/ SettleStart \/ SettleSample
  <2>1. phase = "running" /\ lib' = lib
    BY <1>2 DEF WaitStart, WaitPoll, SettleStart, SettleSample, At
  <2>2. \/ \E status : Passes(status) \/ Fails(status)
        \/ \E exception : Escapes(exception)
        \/ UNCHANGED <<phase, stack, trouble>>
    BY <1>2 DEF WaitStart, WaitPoll, SettleStart, SettleSample, NoAnswer, Trips, BadPicture
  <2>3. QED
    BY <2>1, <2>2, OutcomeInv
<1>3. CASE WriteManifest \/ WriteJunit \/ Escaped
  BY <1>3 DEF WriteManifest, WriteJunit, Escaped, StackInv, Commands, Body, Granted
<1>4. CASE EngineGone \/ Elapse \/ UNCHANGED vars
  BY <1>4 DEF EngineGone, Elapse, vars, StackInv, Commands, Body, Granted
<1>5. QED
  BY <1>1, <1>2, <1>3, <1>4, LoadInv, RunFlowInv, RepeatInv, FrameEndsInv DEF Next, Run

(* Only a mutation the driver grants reaches the engine, and it stands in  *)
(* a frame whose file grants it.                                           *)
LEMMA EffectsNext ==
    ASSUME StackInv, SubflowsCannotWiden, [Next]_vars
    PROVE  SubflowsCannotWiden'
<1>1. lib' = lib
  BY DEF Next, Run, vars, Load, Launch, Tree, AssertVisible, AssertProperty, Capture, Mutate, WaitStart,
     WaitPoll, SettleStart, SettleSample, RunFlow, Repeat, FrameEnds, WriteManifest, WriteJunit,
     Escaped, EngineGone, Elapse
<1>2. CASE effects' = effects
  BY <1>1, <1>2 DEF SubflowsCannotWiden
<1>3. CASE Mutate
  <2>1. /\ phase = "running" /\ ~FrameDone /\ Command.cmd \in MUTATING_COMMANDS
        /\ \/ effects' = effects
           \/ /\ DriverGrants(Command.cmd)
              /\ effects' = effects \cup {[cmd |-> Command.cmd, by |-> Top.flow]}
    BY <1>3 DEF Mutate, At
  <2>2. Command.cmd \in lib[Top.flow].capabilities
    BY <2>1, Standing DEF Granted
  <2>3. QED
    BY <1>1, <2>1, <2>2 DEF SubflowsCannotWiden, DriverGrants
<1>4. QED
  BY <1>2, <1>3 DEF Next, Run, vars, Load, Launch, Tree, AssertVisible, AssertProperty, Capture, WaitStart,
     WaitPoll, SettleStart, SettleSample, RunFlow, Repeat, FrameEnds, WriteManifest, WriteJunit,
     Escaped, EngineGone, Elapse

(* The headers of the top-level flow and of the file a mutation stands in  *)
(* both grant it, however files call each other (flow.py:8-11,             *)
(* cli.py:69-72).                                                          *)
THEOREM SubflowsNeverWiden == Spec => []SubflowsCannotWiden
<1>1. Init => IInv
  BY InitInv
<1>2. IInv /\ [Next]_vars => IInv'
  BY StackNext, EffectsNext DEF IInv
<1>3. IInv => SubflowsCannotWiden
  BY DEF IInv
<1>4. QED
  BY <1>1, <1>2, <1>3, PTL DEF Spec

(* After a failure no further mutation reaches the engine: the interpreter *)
(* runs only while nothing has failed, at whatever depth (runner.py:7,     *)
(* 48-50).                                                                 *)
THEOREM FailureIsFinal == Spec => NothingAfterFailure
<1>1. Init => IInv
  BY InitInv
<1>2. IInv /\ [Next]_vars => IInv'
  BY StackNext, EffectsNext DEF IInv
<1>3. IInv /\ [Next]_vars => [trouble => effects' = effects]_vars
  <2>1. SUFFICES ASSUME IInv, Next, trouble PROVE effects' = effects
    OBVIOUS
  <2>2. ~Mutate
    BY <2>1 DEF Mutate, At, IInv, StackInv
  <2>3. QED
    BY <2>1, <2>2 DEF Next, Run, Load, Launch, Tree, AssertVisible, AssertProperty, Capture, WaitStart,
       WaitPoll, SettleStart, SettleSample, RunFlow, Repeat, FrameEnds, WriteManifest, WriteJunit,
       Escaped, EngineGone, Elapse
<1>4. QED
  BY <1>1, <1>2, <1>3, PTL DEF Spec, NothingAfterFailure

-----------------------------------------------------------------------------
(* What the run has to show: the steps recorded, the bundle, the exit code.*)
Good == {"passed", "skipped"}
Bad == {"failed", "error"}

(* How a command ends, if it does.                                         *)
Outcome == \/ \E status \in Good : Passes(status)
           \/ \E status \in Bad : Fails(status)
           \/ \E exception : Escapes(exception)
           \/ UNCHANGED <<phase, stack, steps, raised, trouble>>

Simple == \/ Launch \/ Tree \/ AssertVisible \/ AssertProperty \/ Capture \/ Mutate
          \/ WaitStart \/ WaitPoll \/ SettleStart \/ SettleSample

LEMMA SimpleOutcome ==
    ASSUME Simple
    PROVE  Outcome /\ UNCHANGED <<lib, bundle, exit>> /\ phase = "running" /\ ~FrameDone
<1>1. UNCHANGED <<lib, bundle, exit>> /\ phase = "running" /\ ~FrameDone
  BY DEF Simple, Launch, Tree, AssertVisible, AssertProperty, Capture, Mutate, WaitStart, WaitPoll,
         SettleStart, SettleSample, At
<1>2. /\ Passes("passed") => Outcome
      /\ Fails("failed") => Outcome
      /\ Fails("error") => Outcome
      /\ NoAnswer => Outcome
      /\ Trips => Outcome
      /\ BadPicture => Outcome
      /\ \A e : Escapes(e) => Outcome
      /\ UNCHANGED <<phase, stack, steps, raised, trouble>> => Outcome
  BY DEF Outcome, Good, Bad, NoAnswer, Trips, BadPicture
<1>3. CASE Launch \/ Tree \/ AssertVisible
  BY <1>1, <1>2, <1>3 DEF Launch, Tree, AssertVisible
<1>4. CASE AssertProperty \/ Capture \/ Mutate
  BY <1>1, <1>2, <1>4 DEF AssertProperty, Capture, Mutate
<1>5. CASE WaitStart \/ WaitPoll
  BY <1>1, <1>2, <1>5 DEF WaitStart, WaitPoll
<1>6. CASE SettleStart \/ SettleSample
  BY <1>1, <1>2, <1>6 DEF SettleStart, SettleSample
<1>7. QED
  BY <1>1, <1>3, <1>4, <1>5, <1>6 DEF Simple

AtTop == /\ stack[1].flow = Main /\ stack[1].commands = lib[Main].commands /\ stack[1].left = 1
         /\ Len(steps) = stack[1].at - 1
         /\ stack[1].at <= Len(stack[1].commands) + 1
         /\ Len(stack) > 1 => stack[1].at <= Len(stack[1].commands)

StepsInv == /\ steps \in Seq(Good \cup Bad)
            /\ phase \in {"load", "running", "manifest", "junit", "escaped", "over"}
            /\ Len(stack) <= MaxDepth
            /\ phase = "load" => steps = <<>>
            /\ phase = "running" => AtTop
            /\ phase \in {"load", "running"} => NoneFailed(steps)
            /\ phase \in {"manifest", "junit"} =>
                    /\ NoneFailed(steps) <=> ~trouble
                    /\ ~trouble => Len(steps) = Len(lib[Main].commands)

ExitInv == /\ bundle \subseteq {"manifest", "junit"}
           /\ phase \in {"load", "running", "manifest"} => bundle = {}
           /\ phase = "junit" => bundle = {"manifest"}
           /\ phase # "over" => exit = 99
           /\ exit # 99 => phase = "over"
           /\ ExitTellsTheTruth

LEMMA BoundsAreNumbers == StableSamples \in Nat \ {0} /\ MaxDepth \in Nat \ {0}
  BY BoundsAssumption

LEMMA RecordedStep ==
    ASSUME steps \in Seq(Good \cup Bad), NEW status \in Good \cup Bad, steps' = Append(steps, status)
    PROVE  /\ steps' \in Seq(Good \cup Bad) /\ Len(steps') = Len(steps) + 1 /\ Len(steps) \in Nat
           /\ status \in Good => (NoneFailed(steps) => NoneFailed(steps'))
           /\ status \in Bad => ~NoneFailed(steps')
<1>1. /\ Len(steps) \in Nat /\ steps' \in Seq(Good \cup Bad) /\ Len(steps') = Len(steps) + 1
      /\ DOMAIN steps = 1..Len(steps) /\ DOMAIN steps' = 1..Len(steps) + 1
      /\ steps'[Len(steps) + 1] = status
      /\ \A i \in 1..Len(steps) : steps'[i] = steps[i]
      /\ \A i \in 1..Len(steps) + 1 : i \in 1..Len(steps) \/ i = Len(steps) + 1
      /\ Len(steps) + 1 \in 1..Len(steps) + 1
  OBVIOUS
<1>2. status \in Good => (NoneFailed(steps) => NoneFailed(steps'))
  BY <1>1 DEF NoneFailed, AllStepsBut, Good
<1>3. status \in Bad => ~NoneFailed(steps')
  BY <1>1 DEF NoneFailed, AllStepsBut, Bad
<1>4. QED
  BY <1>1, <1>2, <1>3

(* The frame at hand takes a step: the bottom one is as it was, or it is   *)
(* the one that took it.                                                   *)
LEMMA BottomFrame ==
    ASSUME StackInv, phase = "running", stack' = [stack EXCEPT ![Len(stack)].at = @ + 1]
    PROVE  /\ Len(stack') = Len(stack) /\ stack[1] \in Frames /\ Len(stack) \in Nat /\ Len(stack) > 0
           /\ Len(stack) > 1 => stack'[1] = stack[1]
           /\ Len(stack) = 1 => stack'[1] = [stack[1] EXCEPT !.at = @ + 1]
<1>1. /\ stack \in Seq(Frames) /\ Len(stack) \in 1..Len(stack) /\ Len(stack) \in Nat
      /\ 1 \in 1..Len(stack) /\ Len(stack) > 0
  BY Standing DEF StackInv
<1>2. Len(stack') = Len(stack) /\ stack[1] \in Frames
  BY <1>1
<1>3. Len(stack) > 1 => stack'[1] = stack[1]
  BY <1>1
<1>4. Len(stack) = 1 => stack'[1] = [stack[1] EXCEPT !.at = @ + 1]
  BY <1>1
<1>5. QED
  BY <1>1, <1>2, <1>3, <1>4

LEMMA OutcomeSteps ==
    ASSUME StackInv, StepsInv, Outcome, phase = "running", ~FrameDone, lib' = lib
    PROVE  StepsInv'
<1> USE BoundsAreNumbers
<1>1. /\ steps \in Seq(Good \cup Bad) /\ AtTop /\ NoneFailed(steps) /\ ~trouble /\ Len(stack) \in Nat
      /\ stack[1] \in Frames /\ Len(stack) > 0 /\ Len(steps) \in Nat /\ Len(stack) <= MaxDepth
  BY DEF StackInv, StepsInv
<1>2. stack[1].at \in Nat \ {0} /\ stack[1].commands = lib[Main].commands
  BY <1>1, FrameFields DEF AtTop
<1>0. ASSUME NEW status \in Good \cup Bad, Unrecorded(status) PROVE StepsInv'
  <2>1. steps' = Append(steps, status) /\ phase' = "escaped" /\ stack' = stack
    BY <1>0 DEF Unrecorded
  <2>2. steps' \in Seq(Good \cup Bad)
    BY <1>1, <2>1, RecordedStep
  <2>3. QED
    BY <1>1, <2>1, <2>2 DEF StepsInv
<1>3. ASSUME NEW status \in Good, Passes(status), ~Unrecorded(status) PROVE StepsInv'
  <2>1. /\ stack' = [stack EXCEPT ![Len(stack)].at = @ + 1] /\ phase' = phase /\ trouble' = trouble
        /\ steps' = IF Len(stack) = 1 THEN Append(steps, status) ELSE steps
    BY <1>3 DEF Passes, TopLevel
  <2>2. CASE Len(stack) = 1
    <3>1. /\ steps' = Append(steps, status) /\ steps' \in Seq(Good \cup Bad) /\ NoneFailed(steps')
          /\ Len(steps') = Len(steps) + 1
      BY <1>1, <2>1, <2>2, RecordedStep
    <3>2. /\ stack'[1] = [stack[1] EXCEPT !.at = @ + 1] /\ Len(stack') = Len(stack)
          /\ stack[1].at <= Len(stack[1].commands)
      <4>1. Top.at \in DOMAIN Top.commands /\ Top = stack[1] /\ IsCommandList(Top.commands)
        BY <2>2, Standing DEF Top, Commands
      <4>2. DOMAIN Top.commands = 1..Len(Top.commands) /\ Len(Top.commands) \in Nat
        BY <4>1 DEF IsCommandList
      <4>3. QED
        BY <1>2, <2>1, <2>2, <4>1, <4>2, BottomFrame
    <3>3. /\ stack'[1].at = stack[1].at + 1 /\ stack'[1].flow = stack[1].flow
          /\ stack'[1].commands = stack[1].commands /\ stack'[1].left = stack[1].left
      BY <1>1, <3>2 DEF Frames
    <3>4. AtTop'
      <4>1. /\ stack[1].flow = Main /\ stack[1].commands = lib[Main].commands
            /\ stack[1].left = 1 /\ Len(steps) = stack[1].at - 1
        BY <1>1 DEF AtTop
      <4>2. PICK n \in Nat : n = stack[1].at
        BY <1>2
      <4>3. Len(steps') = stack'[1].at - 1
        BY <3>1, <3>3, <4>1, <4>2
      <4>4. stack'[1].at <= Len(stack'[1].commands) + 1
        <5>1. PICK c : c = Len(stack[1].commands)
          OBVIOUS
        <5>2. c \in Nat /\ n <= c
          <6>1. IsCommandList(Top.commands) /\ Top = stack[1]
            BY <2>2, Standing DEF Top, Commands
          <6>2. QED
            BY <3>2, <4>2, <5>1, <6>1 DEF IsCommandList
        <5>3. QED
          BY <3>3, <4>2, <5>1, <5>2
      <4>5. QED
        BY <2>2, <3>2, <3>3, <4>1, <4>3, <4>4 DEF AtTop
    <3>5. (NoneFailed(steps))'
      BY <3>1 DEF NoneFailed, AllStepsBut
    <3>6. QED
      BY <1>1, <2>1, <2>2, <3>1, <3>2, <3>4, <3>5 DEF StepsInv
  <2>3. CASE Len(stack) # 1
    <3>1. steps' = steps /\ stack'[1] = stack[1] /\ Len(stack') = Len(stack)
      BY <1>1, <2>1, <2>3, BottomFrame
    <3>2. AtTop'
      BY <1>1, <3>1 DEF AtTop
    <3>3. QED
      BY <1>1, <2>1, <3>1, <3>2 DEF StepsInv, NoneFailed, AllStepsBut
  <2>4. QED
    BY <2>2, <2>3
<1>4. ASSUME NEW status \in Bad, Fails(status), ~Unrecorded(status) PROVE StepsInv'
  <2>1. /\ steps' = Append(steps, status) /\ trouble' = TRUE /\ phase' = "manifest" /\ stack' = stack
    BY <1>4 DEF Fails, Stops
  <2>2. steps' \in Seq(Good \cup Bad) /\ ~NoneFailed(steps')
    BY <1>1, <2>1, RecordedStep
  <2>3. ~(NoneFailed(steps))'
    BY <2>2 DEF NoneFailed, AllStepsBut
  <2>4. QED
    BY <1>1, <2>1, <2>2, <2>3 DEF StepsInv
<1>5. ASSUME NEW exception, Escapes(exception) PROVE StepsInv'
  <2>1. phase' = "escaped" /\ UNCHANGED <<stack, steps>>
    BY <1>5 DEF Escapes
  <2>2. QED
    BY <1>1, <2>1 DEF StepsInv
<1>6. CASE UNCHANGED <<phase, stack, steps, raised, trouble>>
  BY <1>6 DEF StepsInv, AtTop, NoneFailed, AllStepsBut
<1>7. QED
  BY <1>0, <1>3, <1>4, <1>5, <1>6 DEF Outcome

LEMMA AtTopFacts ==
    ASSUME StackInv, StepsInv, phase = "running"
    PROVE  /\ steps \in Seq(Good \cup Bad) /\ AtTop /\ NoneFailed(steps) /\ ~trouble
           /\ Len(stack) \in Nat /\ Len(stack) > 0 /\ Len(stack) <= MaxDepth /\ Len(steps) \in Nat
           /\ stack \in Seq(Frames) /\ stack[1] \in Frames /\ stack[1].at \in Nat \ {0}
           /\ stack[1].commands = lib[Main].commands /\ Len(stack[1].commands) \in Nat
           /\ ~FrameDone => stack[1].at <= Len(stack[1].commands)
<1>1. /\ steps \in Seq(Good \cup Bad) /\ AtTop /\ NoneFailed(steps) /\ ~trouble
      /\ stack \in Seq(Frames) /\ Len(stack) \in Nat /\ Len(stack) > 0 /\ Len(stack) <= MaxDepth
  BY DEF StackInv, StepsInv
<1>2. Len(steps) \in Nat /\ stack[1] \in Frames /\ 1 \in 1..Len(stack)
  BY <1>1
<1>3. stack[1].at \in Nat \ {0} /\ stack[1].commands = lib[Main].commands
  BY <1>1, <1>2, FrameFields DEF AtTop
<1>4. IsCommandList(stack[1].commands)
  BY <1>2 DEF StackInv, Commands
<1>5. Len(stack[1].commands) \in Nat /\ DOMAIN stack[1].commands = 1..Len(stack[1].commands)
  BY <1>4 DEF IsCommandList
<1>6. ~FrameDone => stack[1].at <= Len(stack[1].commands)
  <2>1. CASE Len(stack) = 1
    BY <1>3, <1>5, <2>1, Standing DEF Top
  <2>2. CASE Len(stack) # 1
    <3>1. Len(stack) > 1
      <4>1. PICK n \in Nat : n = Len(stack)
        BY <1>1
      <4>2. n > 0 /\ n # 1
        BY <1>1, <2>2, <4>1
      <4>3. QED
        BY <4>1, <4>2
    <3>2. QED
      BY <1>1, <3>1 DEF AtTop
  <2>3. QED
    BY <2>1, <2>2
<1>7. QED
  BY <1>1, <1>2, <1>3, <1>5, <1>6

LEMMA PushSteps ==
    ASSUME StackInv, StepsInv, phase = "running", ~FrameDone, lib' = lib, NEW fr,
           stack' = Append(stack, fr), Len(stack) < MaxDepth, UNCHANGED <<phase, steps, raised, trouble>>
    PROVE  StepsInv'
<1> USE BoundsAreNumbers
<1>1. PICK s : s = stack /\ s \in Seq(Frames) /\ Len(s) > 0 /\ Len(s) \in Nat
  BY AtTopFacts
<1>2. Len(stack') = Len(stack) + 1 /\ stack'[1] = stack[1]
  BY <1>1
<1>3. AtTop'
  BY <1>1, <1>2, AtTopFacts DEF AtTop
<1>4. Len(stack') <= MaxDepth
  BY <1>1, <1>2
<1>5. QED
  BY <1>3, <1>4 DEF StepsInv, NoneFailed, AllStepsBut

LEMMA LoadSteps == ASSUME StackInv, StepsInv, Load PROVE StepsInv'
<1> USE BoundsAreNumbers
<1>1. steps = <<>> /\ steps' = steps /\ lib' = lib /\ lib \in Libraries /\ stack = <<>> /\ NoneFailed(steps)
  BY DEF Load, StepsInv, StackInv
<1>2. CASE phase' = "escaped" /\ UNCHANGED stack
  BY <1>1, <1>2 DEF StepsInv
<1>3. CASE /\ phase' = "running" /\ trouble' = trouble
           /\ stack' = <<Frame(Main, lib[Main].commands, 1)>>
  <2>1. Len(lib[Main].commands) \in Nat
    <3>1. IsCommandList(lib[Main].commands)
      BY <1>1, MainAssumption, LibrariesAssumption
    <3>2. QED
      BY <3>1 DEF IsCommandList
  <2>2. /\ Len(stack') = 1 /\ stack'[1].flow = Main /\ stack'[1].commands = lib[Main].commands
        /\ stack'[1].at = 1 /\ stack'[1].left = 1 /\ Len(steps) = 0
    BY <1>1, <1>3 DEF Frame
  <2>3. AtTop'
    BY <1>1, <2>1, <2>2 DEF AtTop
  <2>4. QED
    BY <1>1, <1>3, <2>2, <2>3 DEF StepsInv, NoneFailed, AllStepsBut
<1>4. QED
  BY <1>2, <1>3 DEF Load

LEMMA CallSteps == ASSUME StackInv, StepsInv, RunFlow \/ Repeat PROVE StepsInv'
<1>1. phase = "running" /\ ~FrameDone /\ lib' = lib
  BY DEF RunFlow, Repeat, At
<1>2. CASE Passes("passed") \/ Passes("skipped") \/ \E e : Escapes(e)
  <2>1. Outcome
    BY <1>2 DEF Outcome, Good
  <2>2. QED
    BY <1>1, <2>1, OutcomeSteps
<1>3. CASE \E fr : /\ stack' = Append(stack, fr) /\ Len(stack) < MaxDepth
                   /\ UNCHANGED <<phase, steps, raised, trouble>>
  <2>1. PICK fr : /\ stack' = Append(stack, fr) /\ Len(stack) < MaxDepth
                  /\ UNCHANGED <<phase, steps, raised, trouble>>
    BY <1>3
  <2>2. QED
    BY <1>1, <2>1, PushSteps
<1>4. QED
  BY <1>2, <1>3 DEF RunFlow, Repeat, Trips

LEMMA FrameEndsSteps == ASSUME StackInv, StepsInv, FrameEnds PROVE StepsInv'
<1> USE BoundsAreNumbers
<1>1. /\ phase = "running" /\ lib' = lib /\ FrameDone
  BY DEF FrameEnds
<1>2. PICK n \in Nat : n = Len(stack) /\ n > 0 /\ n <= MaxDepth
  BY <1>1, AtTopFacts
<1>3. PICK s \in Seq(Frames) : s = stack
  BY <1>1, AtTopFacts
<1>0. CASE Unrecorded("passed")
  <2>1. steps' = Append(steps, "passed") /\ phase' = "escaped" /\ stack' = stack
    BY <1>0 DEF Unrecorded
  <2>2. steps' \in Seq(Good \cup Bad)
    BY <1>1, <2>1, AtTopFacts, RecordedStep DEF Good
  <2>3. QED
    BY <1>1, <2>1, <2>2 DEF StepsInv
<1>4. CASE /\ Top.left > 1 /\ UNCHANGED <<phase, steps, trouble>>
           /\ stack' = [stack EXCEPT ![Len(stack)] = Frame(Top.flow, Top.commands, Top.left - 1)]
  <2>1. n # 1
    <3>1. stack[1].left = 1
      BY <1>1, AtTopFacts DEF AtTop
    <3>2. QED
      BY <1>2, <1>4, <3>1 DEF Top
  <2>2. stack'[1] = stack[1] /\ Len(stack') = Len(stack)
    BY <1>2, <1>3, <1>4, <2>1
  <2>3. AtTop'
    BY <1>1, <1>4, <2>2, AtTopFacts DEF AtTop
  <2>4. QED
    BY <1>1, <1>4, <2>2, <2>3 DEF StepsInv, NoneFailed, AllStepsBut
<1>5. CASE /\ Len(stack) > 1 /\ UNCHANGED <<phase, trouble>>
           /\ stack' = [SubSeq(stack, 1, Len(stack) - 1) EXCEPT ![Len(stack) - 1].at = @ + 1]
           /\ steps' = IF Len(stack) = 2 THEN Append(steps, "passed") ELSE steps
  <2>1. PICK q \in Seq(Frames) : /\ q = SubSeq(stack, 1, n - 1) /\ Len(q) = n - 1
                                 /\ \A k \in 1..Len(q) : q[k] = stack[k]
    <3>1. 1 \in Int /\ n - 1 \in Int /\ 1 <= n - 1 /\ n - 1 < Len(s) + 1
      BY <1>2, <1>3, <1>5
    <3>2. \A k \in 1..n - 1 : k \in 1..Len(s) /\ s[k] \in Frames
      BY <1>2, <1>3, <3>1
    <3>3. /\ SubSeq(s, 1, n - 1) \in Seq(Frames) /\ Len(SubSeq(s, 1, n - 1)) = n - 1
          /\ \A k \in 1..n - 1 : SubSeq(s, 1, n - 1)[k] = s[k]
      BY <3>1, <3>2, SubSeqProperties
    <3>4. QED
      BY <1>3, <3>3
  <2>2. /\ stack' = [q EXCEPT ![n - 1].at = @ + 1] /\ q[1] = stack[1] /\ n - 1 \in 1..Len(q)
        /\ 1 \in 1..Len(q)
    BY <1>2, <1>5, <2>1
  <2>3. Len(stack') = n - 1
    BY <2>1, <2>2
  <2>4. CASE n = 2
    <3>1. stack'[1] = [stack[1] EXCEPT !.at = @ + 1]
      BY <2>1, <2>2, <2>4
    <3>2. /\ stack'[1].at = stack[1].at + 1 /\ stack'[1].flow = stack[1].flow
          /\ stack'[1].commands = stack[1].commands /\ stack'[1].left = stack[1].left
      BY <1>1, <3>1, AtTopFacts DEF Frames
    <3>3. /\ steps' = Append(steps, "passed") /\ steps' \in Seq(Good \cup Bad) /\ NoneFailed(steps')
          /\ Len(steps') = Len(steps) + 1
      BY <1>1, <1>2, <1>5, <2>4, AtTopFacts, RecordedStep DEF Good
    <3>4. AtTop'
      <4>1. Len(steps) = stack[1].at - 1 /\ stack[1].at <= Len(stack[1].commands) /\ Len(stack') = 1
        BY <1>1, <1>2, <2>3, <2>4, AtTopFacts DEF AtTop
      <4>2. /\ stack[1].flow = Main /\ stack[1].commands = lib[Main].commands /\ stack[1].left = 1
            /\ stack[1].at \in Nat /\ Len(stack[1].commands) \in Nat /\ lib' = lib
        BY <1>1, AtTopFacts DEF AtTop
      <4>3. Len(steps') = stack'[1].at - 1 /\ stack'[1].at <= Len(stack'[1].commands) + 1
        <5>1. Len(steps) \in Nat
          BY <1>1, AtTopFacts
        <5>2. QED
          <6>1. Len(steps') = stack'[1].at - 1
            BY <3>2, <3>3, <4>1, <4>2, <5>1
          <6>2. stack'[1].at <= Len(stack'[1].commands) + 1
            BY <3>2, <4>1, <4>2
          <6>3. QED
            BY <6>1, <6>2
      <4>4. QED
        BY <3>2, <4>1, <4>2, <4>3 DEF AtTop
    <3>5. (NoneFailed(steps))'
      BY <3>3 DEF NoneFailed, AllStepsBut
    <3>6. QED
      BY <1>1, <1>2, <1>5, <2>3, <3>3, <3>4, <3>5 DEF StepsInv
  <2>5. CASE n # 2
    <3>1. stack'[1] = stack[1] /\ steps' = steps
      <4>1. n - 1 # 1 /\ Len(stack) # 2
        BY <1>2, <2>5
      <4>2. stack'[1] = q[1]
        BY <2>2, <4>1
      <4>3. QED
        BY <1>5, <2>2, <4>1, <4>2
    <3>2. AtTop'
      BY <1>1, <1>2, <1>5, <2>3, <3>1, AtTopFacts DEF AtTop
    <3>3. QED
      BY <1>1, <1>2, <1>5, <2>3, <3>1, <3>2 DEF StepsInv, NoneFailed, AllStepsBut
  <2>6. QED
    BY <2>4, <2>5
<1>6. CASE Len(stack) = 1 /\ phase' = "manifest" /\ UNCHANGED <<stack, steps, trouble>>
  <2>1. stack[1].at > Len(stack[1].commands)
    BY <1>1, <1>6 DEF FrameDone, Top
  <2>2. Len(steps) = Len(lib[Main].commands)
    BY <1>1, <2>1, AtTopFacts DEF AtTop
  <2>3. QED
    BY <1>1, <1>6, <2>2, AtTopFacts DEF StepsInv, NoneFailed, AllStepsBut
<1>7. QED
  BY <1>0, <1>4, <1>5, <1>6 DEF FrameEnds

LEMMA StepsNext == ASSUME StackInv, StepsInv, [Next]_vars PROVE StepsInv'
<1>1. CASE Simple
  <2>1. Outcome /\ lib' = lib /\ phase = "running" /\ ~FrameDone
    BY <1>1, SimpleOutcome
  <2>2. QED
    BY <2>1, OutcomeSteps
<1>2. CASE WriteManifest \/ WriteJunit \/ Escaped
  <2>1. /\ UNCHANGED <<lib, stack, steps>> /\ phase \in {"manifest", "junit", "escaped"}
        /\ \/ phase' \in {"escaped", "over"}
           \/ phase = "manifest" /\ phase' = "junit" /\ trouble' = trouble
    BY <1>2 DEF WriteManifest, WriteJunit, Escaped
  <2>2. QED
    BY <2>1 DEF StepsInv, NoneFailed, AllStepsBut
<1>3. CASE EngineGone \/ Elapse \/ UNCHANGED vars
  <2>1. UNCHANGED <<lib, stack, steps, phase, trouble>>
    BY <1>3 DEF EngineGone, Elapse, vars
  <2>2. QED
    BY <2>1 DEF StepsInv, AtTop, NoneFailed, AllStepsBut
<1>4. QED
  BY <1>1, <1>2, <1>3, LoadSteps, CallSteps, FrameEndsSteps DEF Next, Run, Simple

LEMMA ExitNext ==
    ASSUME StackInv, StepsInv, ExitInv, [Next]_vars
    PROVE  ExitInv'
<1>1. lib' = lib
  BY DEF Next, Run, vars, Load, Launch, Tree, AssertVisible, AssertProperty, Capture, Mutate, WaitStart,
     WaitPoll, SettleStart, SettleSample, RunFlow, Repeat, FrameEnds, WriteManifest, WriteJunit,
     Escaped, EngineGone, Elapse
<1>2. ASSUME phase \in {"load", "running"}, UNCHANGED <<bundle, exit>>,
             phase' \in {"running", "manifest", "escaped"}
      PROVE  ExitInv'
  BY <1>2 DEF ExitInv, ExitTellsTheTruth
<1>unset. ASSUME exit' = 99 PROVE ExitTellsTheTruth'
  BY <1>unset DEF ExitTellsTheTruth
<1>3. CASE Simple
  <2>1. phase' \in {"running", "manifest", "escaped"}
    BY <1>3, SimpleOutcome DEF Outcome, Passes, Fails, Stops, Escapes, Unrecorded
  <2>2. QED
    BY <1>2, <1>3, <2>1, SimpleOutcome
<1>4. CASE Load \/ RunFlow \/ Repeat \/ FrameEnds
  <2>1. phase \in {"load", "running"} /\ UNCHANGED <<bundle, exit>>
    BY <1>4 DEF Load, RunFlow, Repeat, FrameEnds, At
  <2>2. phase' \in {"running", "manifest", "escaped"}
    BY <1>4 DEF Load, RunFlow, Repeat, FrameEnds, At, Passes, Escapes, Unrecorded, Trips
  <2>3. QED
    BY <1>2, <2>1, <2>2
<1>5. CASE WriteManifest
  <2>1. /\ exit' = 99 /\ bundle = {} /\ phase' \in {"junit", "escaped"}
        /\ bundle' = {"manifest"} \/ (bundle' = {} /\ phase' = "escaped")
    BY <1>5 DEF WriteManifest, ExitInv
  <2>2. QED
    BY <1>unset, <2>1 DEF ExitInv
<1>6. CASE WriteJunit
  <2>1. /\ phase = "junit" /\ bundle = {"manifest"}
        /\ NoneFailed(steps) <=> ~trouble
        /\ ~trouble => Len(steps) = Len(lib[Main].commands)
    BY <1>6 DEF WriteJunit, ExitInv, StepsInv
  <2>2. CASE /\ phase' = "over" /\ bundle' = bundle \cup {"junit"} /\ UNCHANGED <<steps, trouble>>
             /\ exit' = IF NoneFailed(steps) THEN 0 ELSE 1
    <3>1. /\ exit' \in {0, 1} /\ exit' # 99 /\ bundle' = {"manifest", "junit"}
          /\ exit' = 0 => NoneFailed(steps)
          /\ exit' = 1 => ~NoneFailed(steps)
      <4>1. bundle' = {"manifest", "junit"}
        BY <2>1, <2>2
      <4>2. CASE NoneFailed(steps)
        BY <2>2, <4>1, <4>2
      <4>3. CASE ~NoneFailed(steps)
        BY <2>2, <4>1, <4>3
      <4>4. QED
        BY <4>2, <4>3
    <3>2. exit' = 0 => (~trouble /\ Len(steps) = Len(lib[Main].commands))'
      <4>1. SUFFICES ASSUME exit' = 0 PROVE ~trouble' /\ Len(steps') = Len(lib'[Main].commands)
        OBVIOUS
      <4>2. ~trouble
        BY <2>1, <3>1, <4>1
      <4>3. QED
        BY <1>1, <2>1, <2>2, <4>2
    <3>3. exit' = 1 => (trouble /\ bundle = {"manifest", "junit"})'
      <4>1. SUFFICES ASSUME exit' = 1 PROVE trouble' /\ bundle' = {"manifest", "junit"}
        OBVIOUS
      <4>2. trouble
        BY <2>1, <3>1, <4>1
      <4>3. QED
        BY <2>2, <3>1, <4>2
    <3>4. ExitTellsTheTruth'
      BY <3>2, <3>3 DEF ExitTellsTheTruth
    <3>5. QED
      BY <2>2, <3>1, <3>4 DEF ExitInv
  <2>3. CASE phase' = "escaped" /\ UNCHANGED <<bundle, exit>>
    <3>1. exit' = 99 /\ bundle' = {"manifest"}
      BY <2>1, <2>3 DEF ExitInv, WriteJunit
    <3>2. QED
      BY <1>unset, <2>3, <3>1 DEF ExitInv
  <2>4. QED
    BY <1>6, <2>2, <2>3 DEF WriteJunit
<1>7. CASE Escaped
  BY <1>7 DEF Escaped, ExitInv, ExitTellsTheTruth
<1>8. CASE EngineGone \/ Elapse \/ UNCHANGED vars
  <2>1. UNCHANGED <<phase, bundle, exit, steps, trouble>>
    BY <1>8 DEF EngineGone, Elapse, vars
  <2>2. QED
    BY <1>1, <2>1 DEF ExitInv, ExitTellsTheTruth
<1>9. QED
  BY <1>3, <1>4, <1>5, <1>6, <1>7, <1>8 DEF Next, Run, Simple

-----------------------------------------------------------------------------
(* Waits: one is under way only at a command that waits, and a scene is at *)
(* hand only at a command with a selector.                                 *)
Waits == {"wait_until", "settle", "settle_fail"}
Settles == {"settle", "settle_fail"}

WaitInv == /\ waiting \in BOOLEAN /\ late \in BOOLEAN /\ settled \in BOOLEAN
           /\ waiting => At(Waits)
           /\ scene # NoScene => At(SelectorCommands) /\ <<>> \in DOMAIN scene

LEMMA OneCommand ==
    ASSUME NEW a, NEW b, At(a), a \cap b = {}
    PROVE  ~At(b)
  BY DEF At

LEMMA SameCommand ==
    ASSUME UNCHANGED <<phase, stack>>, NEW names
    PROVE  At(names)' <=> At(names)
  BY DEF At, FrameDone, Command, Top

LEMMA Resting ==
    ASSUME WaitInv, ~At(Waits), ~At(SelectorCommands)
    PROVE  waiting = FALSE /\ scene = NoScene
  BY Zenon DEF WaitInv

(* A step that neither waits nor looks.                                    *)
LEMMA RestingNext ==
    ASSUME WaitInv, ~At(Waits), ~At(SelectorCommands), UNCHANGED waitVars
    PROVE  WaitInv' /\ ~waiting'
<1>1. waiting' = FALSE /\ scene' = NoScene /\ late' = late /\ settled' = settled
  BY Resting DEF waitVars
<1>2. QED
  BY <1>1 DEF WaitInv, NoScene

LEMMA WaitNext ==
    ASSUME WaitInv, [Next]_vars
    PROVE  /\ WaitInv'
           /\ (waiting' /\ At(Settles)') => SettleStart \/ SettleSample \/ (waiting /\ At(Settles))
<1>1. ASSUME Launch \/ Capture \/ Mutate \/ RunFlow \/ Repeat
      PROVE  WaitInv' /\ ~waiting'
  <2>1. At({"launch"} \cup {"capture"} \cup MUTATING_COMMANDS \cup {"run_flow"} \cup {"repeat"})
    BY <1>1 DEF Launch, Capture, Mutate, RunFlow, Repeat, At
  <2>2. ~At(Waits) /\ ~At(SelectorCommands)
    BY <2>1, OneCommand DEF MUTATING_COMMANDS, Waits, SelectorCommands
  <2>3. UNCHANGED waitVars
    BY <1>1 DEF Launch, Capture, Mutate, RunFlow, Repeat
  <2>4. QED
    BY <2>2, <2>3, RestingNext
<1>2. ASSUME Load \/ FrameEnds \/ WriteManifest \/ WriteJunit \/ Escaped
      PROVE  WaitInv' /\ ~waiting'
  <2>1. ~At(Waits) /\ ~At(SelectorCommands) /\ UNCHANGED waitVars
    BY <1>2 DEF Load, FrameEnds, WriteManifest, WriteJunit, Escaped, At
  <2>2. QED
    BY <2>1, RestingNext
<1>3. CASE Tree
  <2>1. At(SelectorCommands) /\ UNCHANGED <<late, settled>> /\ scene = NoScene
    BY <1>3 DEF Tree
  <2>2. CASE scene' \in Scenes /\ UNCHANGED <<waiting, phase, stack>>
    BY <2>1, <2>2, SameCommand, ScenesAssumption DEF WaitInv, IsTree
  <2>3. CASE waiting' = FALSE /\ UNCHANGED scene
    BY <2>1, <2>3 DEF WaitInv, NoScene
  <2>4. QED
    BY <1>3, <2>2, <2>3 DEF Tree
<1>4. ASSUME AssertVisible \/ AssertProperty
      PROVE  WaitInv' /\ ~waiting'
  <2>1. At({"assert_visible"} \cup {"assert_property"})
    BY <1>4 DEF AssertVisible, AssertProperty, At
  <2>2. ~At(Waits)
    BY <2>1, OneCommand DEF Waits
  <2>3. UNCHANGED <<waiting, late, settled>> /\ scene' = NoScene
    BY <1>4 DEF AssertVisible, AssertProperty, Forgets
  <2>4. QED
    BY <2>2, <2>3 DEF WaitInv, NoScene
<1>5. CASE WaitStart
  <2>1. At({"wait_until"}) /\ waiting' = TRUE /\ late' = FALSE /\ UNCHANGED <<phase, stack, settled, scene>>
    BY <1>5 DEF WaitStart
  <2>2. At(Waits)' /\ ~At(Settles)'
    BY <2>1, SameCommand, OneCommand DEF At, Waits, Settles
  <2>3. QED
    BY <2>1, <2>2, SameCommand DEF WaitInv
<1>6. CASE WaitPoll
  <2>1. At({"wait_until"}) /\ UNCHANGED <<late, settled>> /\ scene' = NoScene
    BY <1>6 DEF WaitPoll, Forgets
  <2>2. waiting' = FALSE \/ UNCHANGED <<waiting, phase, stack>>
    BY <1>6 DEF WaitPoll
  <2>3. QED
    <3>1. CASE waiting' = FALSE
      BY <2>1, <3>1 DEF WaitInv
    <3>2. CASE UNCHANGED <<waiting, phase, stack>>
      BY <2>1, <3>2, SameCommand DEF WaitInv
    <3>3. QED
      BY <2>2, <3>1, <3>2
<1>7. CASE SettleStart \/ SettleSample
  <2>1. At(Settles) /\ UNCHANGED scene
    BY <1>7 DEF SettleStart, SettleSample, Settles
  <2>2. At(Waits) /\ ~At(SelectorCommands) /\ scene' = NoScene
    BY <2>1, OneCommand DEF At, Waits, Settles, SelectorCommands, WaitInv
  <2>3. /\ waiting' \in BOOLEAN /\ late' \in BOOLEAN /\ settled' \in BOOLEAN
        /\ waiting' => UNCHANGED <<phase, stack>>
    <3>1. CASE SettleStart
      <4>1. \/ waiting' = TRUE /\ late' = FALSE /\ settled' = FALSE /\ UNCHANGED <<phase, stack>>
            \/ UNCHANGED <<waiting, late, settled>> /\ waiting = FALSE
        BY <3>1, Zenon DEF SettleStart, WaitInv
      <4>2. QED
        <5>1. waiting' \in BOOLEAN /\ late' \in BOOLEAN /\ settled' \in BOOLEAN
          BY <4>1 DEF WaitInv
        <5>2. waiting' => UNCHANGED <<phase, stack>>
          BY <4>1
        <5>3. QED
          BY <5>1, <5>2
    <3>2. CASE SettleSample
      <4>1. late' = late /\ (waiting' => UNCHANGED <<phase, stack>>)
        BY <3>2, Zenon DEF SettleSample
      <4>2. settled' = (stable' >= StableSamples) \/ settled' = settled
        BY <3>2, Zenon DEF SettleSample
      <4>3. waiting' = ~(settled' \/ Overdue) \/ waiting' = FALSE
        BY <3>2, Zenon DEF SettleSample
      <4>4. QED
        <5>1. settled' \in BOOLEAN
          <6>1. (stable' >= StableSamples) \in BOOLEAN
            OBVIOUS
          <6>2. QED
            BY <4>2, <6>1, Zenon DEF WaitInv
        <5>2. waiting' \in BOOLEAN
          BY <4>3, Zenon
        <5>3. QED
          BY <4>1, <5>1, <5>2, Zenon DEF WaitInv
    <3>3. QED
      BY <1>7, <3>1, <3>2
  <2>4. waiting' => At(Waits)'
    BY <2>2, <2>3, SameCommand
  <2>5. WaitInv'
    BY <2>2, <2>3, <2>4 DEF WaitInv, NoScene
  <2>6. QED
    BY <1>7, <2>5
<1>8. CASE EngineGone \/ Elapse \/ UNCHANGED vars
  <2>1. UNCHANGED <<phase, stack, waiting, settled, scene>> /\ (late' = late \/ late' = TRUE)
    BY <1>8 DEF EngineGone, Elapse, vars, waitVars
  <2>2. QED
    BY <2>1, SameCommand DEF WaitInv
<1>9. ASSUME Tree \/ WaitPoll, waiting' PROVE ~At(Settles)'
  <2>1. At(SelectorCommands) /\ UNCHANGED <<phase, stack>>
    BY <1>9 DEF Tree, WaitPoll, At, SelectorCommands
  <2>2. ~At(Settles)
    BY <2>1, OneCommand DEF SelectorCommands, Settles
  <2>3. QED
    BY <2>1, <2>2, SameCommand
<1>10. QED
  BY <1>1, <1>2, <1>3, <1>4, <1>5, <1>6, <1>7, <1>8, <1>9 DEF Next, Run

-----------------------------------------------------------------------------
(* Settle: the last pictures seen are close to the one before, as many of  *)
(* them as stable counts.                                                  *)
PictureInv ==
    /\ seen \in Seq(Pictures) /\ stable \in Nat /\ Len(seen) <= StableSamples + 1
    /\ \A i \in 1..Len(seen) - 1 : i + stable >= Len(seen) => Close(seen[i], seen[i + 1])
    /\ waiting /\ At(Settles) => Len(seen) > 0 /\ stable < StableSamples /\ stable < Len(seen)
    /\ settled => stable = StableSamples /\ Len(seen) = StableSamples + 1

LEMMA SettledShows == ASSUME PictureInv PROVE SettledStoodStill
<1>1. ASSUME settled, NEW i \in 1..StableSamples PROVE Close(seen[i], seen[i + 1])
  <2>1. stable = StableSamples /\ Len(seen) = StableSamples + 1
    BY <1>1 DEF PictureInv
  <2>2. i \in 1..Len(seen) - 1 /\ i + stable >= Len(seen)
    BY <1>1, <2>1, BoundsAreNumbers
  <2>3. QED
    BY <2>2 DEF PictureInv
<1>2. settled => Len(seen) = StableSamples + 1
  BY DEF PictureInv
<1>3. QED
  BY <1>1, <1>2 DEF SettledStoodStill

(* One more picture: the window holds it and at most StableSamples before. *)
LEMMA WindowMoves ==
    ASSUME PictureInv, Len(seen) > 0, NEW p \in Pictures
    PROVE  LET q == seen
               w == Recent(Append(seen, p))
           IN  /\ w \in Seq(Pictures) /\ Len(q) \in Nat
               /\ Len(q) <= StableSamples =>
                     Len(w) = Len(q) + 1 /\ \A i \in 1..Len(w) : w[i] = Append(q, p)[i]
               /\ Len(q) = StableSamples + 1 =>
                     Len(w) = Len(q) /\ \A i \in 1..Len(w) : w[i] = Append(q, p)[i + 1]
<1> DEFINE S == StableSamples
           q == seen
           t == Append(q, p)
           w == Recent(t)
<1>0. /\ w = SubSeq(t, IF Len(t) > S + 1 THEN Len(t) - S ELSE 1, Len(t))
      /\ S \in Nat \ {0} /\ q \in Seq(Pictures) /\ Len(q) > 0 /\ Len(q) <= S + 1
  BY BoundsAreNumbers DEF Recent, PictureInv
<1> HIDE DEF w
<1>1. Len(q) \in Nat /\ t \in Seq(Pictures) /\ Len(t) = Len(q) + 1
  BY <1>0
<1>2. CASE Len(q) <= S
  <2>1. w = SubSeq(t, 1, Len(t))
    <3>1. ~(Len(t) > S + 1)
      BY <1>0, <1>1, <1>2
    <3>2. QED
      BY <1>0, <3>1
  <2>2. \A k \in 1..Len(t) : t[k] \in Pictures
    BY <1>1
  <2>3. 1 \in Int /\ Len(t) \in Int /\ 1 <= Len(t) /\ Len(t) - 1 + 1 = Len(t)
    BY <1>1
  <2>4. w \in Seq(Pictures) /\ Len(w) = Len(t) /\ \A i \in 1..Len(t) : w[i] = t[i]
    <3>1. /\ SubSeq(t, 1, Len(t)) \in Seq(Pictures) /\ Len(SubSeq(t, 1, Len(t))) = Len(t)
          /\ \A i \in 1..Len(t) : SubSeq(t, 1, Len(t))[i] = t[i]
      BY <1>0, <1>1, <2>2, <2>3
    <3>2. QED
      BY <2>1, <3>1
  <2>5. QED
    <3>1. Len(w) = Len(q) + 1 /\ \A i \in 1..Len(w) : w[i] = t[i]
      BY <1>1, <2>4
    <3>2. Len(q) # S + 1
      BY <1>0, <1>1, <1>2
    <3>3. QED
      BY <1>1, <2>4, <3>1, <3>2 DEF w
<1>3. CASE Len(q) = S + 1
  <2>1. w = SubSeq(t, 2, Len(t))
    BY <1>0, <1>1, <1>3
  <2>2. w \in Seq(Pictures) /\ Len(w) = Len(t) - 1 /\ \A i \in 1..Len(t) - 1 : w[i] = t[i + 1]
    <3>1. \A i \in 1..Len(t) - 1 : i + 1 \in 1..Len(t) /\ t[i + 1] \in Pictures
      BY <1>1
    <3>2. /\ SubSeq(t, 2, Len(t)) \in Seq(Pictures) /\ Len(SubSeq(t, 2, Len(t))) = Len(t) - 1
          /\ \A i \in 1..Len(t) - 1 : SubSeq(t, 2, Len(t))[i] = t[i + 1]
      BY <1>0, <1>1, <1>3, <3>1
    <3>3. QED
      BY <2>1, <3>2
  <2>3. Len(w) = Len(q) /\ \A i \in 1..Len(w) : w[i] = t[i + 1]
    BY <1>1, <2>2
  <2>4. ~(Len(q) <= S)
    BY <1>0, <1>1, <1>3
  <2>5. QED
    BY <1>1, <2>2, <2>3, <2>4 DEF w
<1>4. Len(q) <= S \/ Len(q) = S + 1
  BY <1>0, <1>1
<1>5. QED
  BY <1>2, <1>3, <1>4 DEF w

LEMMA SamplePictures ==
    ASSUME PictureInv, waiting, At(Settles), NEW p \in Pictures,
           seen' = Recent(Append(seen, p)), stable' = Streak(p),
           settled' = (stable' >= StableSamples), waiting' => ~settled'
    PROVE  PictureInv'
<1> DEFINE S == StableSamples
           L == Len(seen)
           t == Append(seen, p)
<1>1. /\ S \in Nat \ {0} /\ seen \in Seq(Pictures) /\ L \in Nat /\ L > 0 /\ L <= S + 1
      /\ stable \in Nat /\ stable < S /\ stable < L
      /\ \A i \in 1..L - 1 : i + stable >= L => Close(seen[i], seen[i + 1])
  BY BoundsAreNumbers DEF PictureInv
<1>2. /\ \A i \in 1..L : t[i] = seen[i]
      /\ t[L + 1] = p
  BY <1>1
<1>3. /\ stable' \in Nat /\ (stable' = 0 \/ stable' = stable + 1)
      /\ \A i \in 1..L : i + stable' >= L + 1 => Close(t[i], t[i + 1])
  <2>1. CASE ~Close(p, LastOf(seen))
    <3>1. stable' = 0
      BY <2>1 DEF Streak
    <3>2. QED
      BY <1>1, <3>1
  <2>2. CASE Close(p, LastOf(seen))
    <3>1. stable' = stable + 1
      BY <2>2 DEF Streak
    <3>2. Close(seen[L], p)
      BY <2>2 DEF Close, LastOf
    <3>3. ASSUME NEW i \in 1..L, i + stable' >= L + 1 PROVE Close(t[i], t[i + 1])
      <4>1. CASE i = L
        BY <1>1, <1>2, <3>2, <4>1
      <4>2. CASE i # L
        <5>1. i \in 1..L - 1 /\ i + 1 \in 1..L /\ i + stable >= L
          BY <1>1, <3>1, <3>3, <4>2
        <5>2. QED
          BY <1>1, <1>2, <5>1
      <4>3. QED
        BY <4>1, <4>2
    <3>4. QED
      BY <1>1, <3>1, <3>3
  <2>3. QED
    BY <2>1, <2>2
<1>5. /\ seen' \in Seq(Pictures)
      /\ L <= S => Len(seen') = L + 1 /\ \A i \in 1..Len(seen') : seen'[i] = t[i]
      /\ L = S + 1 => Len(seen') = L /\ \A i \in 1..Len(seen') : seen'[i] = t[i + 1]
  BY <1>1, WindowMoves
<1> HIDE DEF t
<1>6. L <= S \/ L = S + 1
  BY <1>1
<1>7. Len(seen') \in Nat /\ Len(seen') <= S + 1 /\ L <= Len(seen')
  BY <1>1, <1>5, <1>6
<1>8. ASSUME NEW i \in 1..Len(seen') - 1, i + stable' >= Len(seen')
      PROVE  Close(seen'[i], seen'[i + 1])
  <2>1. CASE L <= S
    <3>1. i \in 1..L /\ i + stable' >= L + 1 /\ i \in 1..Len(seen') /\ i + 1 \in 1..Len(seen')
      BY <1>1, <1>3, <1>5, <1>8, <2>1
    <3>2. QED
      BY <1>3, <1>5, <2>1, <3>1
  <2>2. CASE L = S + 1
    <3>1. /\ i + 1 \in 1..L /\ i + 1 + stable' >= L + 1 /\ i \in 1..Len(seen')
          /\ i + 1 \in 1..Len(seen') /\ Len(seen') = L
      BY <1>1, <1>3, <1>5, <1>8, <2>2
    <3>2. seen'[i] = t[i + 1] /\ seen'[i + 1] = t[i + 1 + 1]
      BY <1>5, <2>2, <3>1
    <3>3. QED
      BY <1>3, <3>1, <3>2
  <2>3. QED
    BY <1>6, <2>1, <2>2
<1>9. /\ settled' => stable' >= S
      /\ ~settled' => ~(stable' >= S)
  BY Zenon
<1>10. waiting' => Len(seen') > 0 /\ stable' < S /\ stable' < Len(seen')
  <2>1. ASSUME waiting' PROVE stable' < S
    BY <1>1, <1>3, <1>9, <2>1
  <2>2. stable' <= L /\ stable' <= S
    BY <1>1, <1>3
  <2>3. QED
    BY <1>1, <1>3, <1>5, <1>6, <1>7, <2>1, <2>2
<1>11. settled' => stable' = S /\ Len(seen') = S + 1
  <2>1. ASSUME settled' PROVE stable' = S
    BY <1>1, <1>3, <1>9, <2>1
  <2>2. stable' <= L
    BY <1>1, <1>3
  <2>3. QED
    BY <1>1, <1>5, <1>6, <2>1, <2>2
<1>12. QED
  BY <1>3, <1>5, <1>7, <1>8, <1>10, <1>11 DEF PictureInv

LEMMA PictureNext ==
    ASSUME PictureInv, WaitInv, [Next]_vars
    PROVE  PictureInv'
<1>1. CASE SettleStart
  <2>1. CASE waiting' = TRUE /\ stable' = 0 /\ settled' = FALSE /\ \E p \in Pictures : seen' = <<p>>
    <3>1. PICK p \in Pictures : seen' = <<p>>
      BY <2>1
    <3>2. seen' \in Seq(Pictures) /\ Len(seen') = 1
      BY <3>1
    <3>3. QED
      BY <2>1, <3>2, BoundsAreNumbers DEF PictureInv
  <2>2. CASE UNCHANGED <<waiting, seen, stable, settled>>
    BY <1>1, <2>2 DEF SettleStart, PictureInv
  <2>3. QED
    BY <1>1, <2>1, <2>2 DEF SettleStart
<1>2. CASE SettleSample
  <2>1. waiting /\ At(Settles)
    BY <1>2 DEF SettleSample, Settles
  <2>2. CASE waiting' = FALSE /\ UNCHANGED <<seen, stable, settled>>
    BY <2>2 DEF PictureInv
  <2>3. CASE /\ \E p \in Pictures : seen' = Recent(Append(seen, p)) /\ stable' = Streak(p)
             /\ settled' = (stable' >= StableSamples) /\ waiting' = ~(settled' \/ Overdue)
    <3>1. PICK p \in Pictures : seen' = Recent(Append(seen, p)) /\ stable' = Streak(p)
      BY <2>3
    <3>2. settled' = (stable' >= StableSamples) /\ (waiting' => ~settled')
      BY <2>3, Zenon
    <3>3. QED
      BY <2>1, <3>1, <3>2, SamplePictures
  <2>4. QED
    BY <1>2, <2>2, <2>3, Zenon DEF SettleSample
<1>3. ASSUME ~SettleStart, ~SettleSample PROVE PictureInv'
  <2>1. UNCHANGED <<seen, stable, settled>>
    BY <1>3 DEF Next, Run, vars, waitVars, Load, Launch, Tree, AssertVisible, AssertProperty, Capture,
       Mutate, WaitStart, WaitPoll, RunFlow, Repeat, FrameEnds, WriteManifest, WriteJunit, Escaped,
       EngineGone, Elapse
  <2>2. (waiting' /\ At(Settles)') => waiting /\ At(Settles)
    BY <1>3, WaitNext
  <2>3. QED
    BY <2>1, <2>2 DEF PictureInv
<1>4. QED
  BY <1>1, <1>2, <1>3

-----------------------------------------------------------------------------
(* All of it.                                                              *)
EffectTypes == /\ chan \in {"up", "gone"} /\ trouble \in BOOLEAN
               /\ effects \subseteq [cmd : MUTATING_COMMANDS, by : Files]

LEMMA EffectTypesNext ==
    ASSUME StackInv, EffectTypes, [Next]_vars
    PROVE  EffectTypes'
<1>1. chan' \in {"up", "gone"}
  BY DEF EffectTypes, Next, Run, vars, Load, Launch, Tree, AssertVisible, AssertProperty, Capture,
     Mutate, WaitStart, WaitPoll, SettleStart, SettleSample, RunFlow, Repeat, FrameEnds, WriteManifest,
     WriteJunit, Escaped, EngineGone, Elapse
<1>2. trouble' = trouble \/ trouble' = TRUE
  BY DEF Next, Run, vars, Load, Launch, Tree, AssertVisible, AssertProperty, Capture,
     Mutate, WaitStart, WaitPoll, SettleStart, SettleSample, RunFlow, Repeat, FrameEnds, WriteManifest,
     WriteJunit, Escaped, EngineGone, Elapse, NoAnswer, Passes, Fails, Escapes, Unrecorded, Trips,
     BadPicture
<1>3. effects' \subseteq [cmd : MUTATING_COMMANDS, by : Files]
  <2>1. CASE effects' = effects
    BY <2>1 DEF EffectTypes
  <2>2. CASE Mutate
    <3>1. /\ phase = "running" /\ Command.cmd \in MUTATING_COMMANDS
          /\ \/ effects' = effects
             \/ effects' = effects \cup {[cmd |-> Command.cmd, by |-> Top.flow]}
      BY <2>2 DEF Mutate, At
    <3>2. Top.flow \in Files
      BY <3>1, Standing, FrameFields
    <3>3. QED
      BY <3>1, <3>2 DEF EffectTypes
  <2>3. QED
    BY <2>1, <2>2 DEF Next, Run, vars, Load, Launch, Tree, AssertVisible, AssertProperty, Capture,
     WaitStart, WaitPoll, SettleStart, SettleSample, RunFlow, Repeat, FrameEnds, WriteManifest,
     WriteJunit, Escaped, EngineGone, Elapse
<1>4. QED
  BY <1>1, <1>2, <1>3, Zenon DEF EffectTypes

RunInv == StackInv /\ StepsInv /\ ExitInv /\ WaitInv /\ PictureInv /\ EffectTypes

LEMMA RunInit == Init => RunInv
<1> USE BoundsAreNumbers
<1> SUFFICES ASSUME Init PROVE RunInv
  OBVIOUS
<1>1. StackInv
  BY InitInv DEF IInv
<1>2. StepsInv
  <2>1. steps = <<>> /\ steps \in Seq(Good \cup Bad) /\ Len(stack) = 0 /\ phase = "load"
    BY DEF Init
  <2>2. NoneFailed(steps)
    BY <2>1 DEF NoneFailed, AllStepsBut
  <2>3. QED
    BY <2>1, <2>2 DEF StepsInv
<1>3. ExitInv
  BY DEF Init, ExitInv, ExitTellsTheTruth
<1>4. WaitInv
  BY DEF Init, WaitInv
<1>5. PictureInv
  <2>1. seen \in Seq(Pictures) /\ Len(seen) = 0 /\ stable = 0 /\ ~settled /\ ~waiting
    BY DEF Init
  <2>2. QED
    BY <2>1 DEF PictureInv
<1>6. EffectTypes
  BY DEF Init, EffectTypes
<1>7. QED
  BY <1>1, <1>2, <1>3, <1>4, <1>5, <1>6 DEF RunInv

LEMMA RunNext == ASSUME RunInv, [Next]_vars PROVE RunInv'
  BY StackNext, StepsNext, ExitNext, WaitNext, PictureNext, EffectTypesNext DEF RunInv

LEMMA RunInvGivesTypes == RunInv => TypeOK
<1> SUFFICES ASSUME RunInv PROVE TypeOK
  OBVIOUS
<1>1. \A i \in DOMAIN steps : steps[i] \in {"passed", "skipped", "failed", "error"}
  <2>1. steps \in Seq(Good \cup Bad)
    BY DEF RunInv, StepsInv
  <2>2. QED
    BY <2>1 DEF Good, Bad
<1>2. /\ phase \in {"load", "running", "manifest", "junit", "escaped", "over"}
      /\ bundle \subseteq {"manifest", "junit"} /\ Len(stack) <= MaxDepth
      /\ phase = "running" => stack[1].flow = Main /\ Len(steps) = stack[1].at - 1
  BY DEF RunInv, StepsInv, AtTop, ExitInv
<1>3. /\ waiting \in BOOLEAN /\ late \in BOOLEAN /\ settled \in BOOLEAN /\ trouble \in BOOLEAN
      /\ chan \in {"up", "gone"} /\ effects \subseteq [cmd : MUTATING_COMMANDS, by : Files]
      /\ scene # NoScene => At(SelectorCommands) /\ <<>> \in DOMAIN scene
  BY Zenon DEF RunInv, WaitInv, EffectTypes
<1>4. stable \in Nat /\ Len(seen) <= StableSamples + 1
  BY DEF RunInv, PictureInv
<1>5. QED
  BY <1>1, <1>2, <1>3, <1>4, Zenon DEF TypeOK

(* Every variable keeps its type, the stack stays below the recursion      *)
(* limit, and the recorded steps are the top-level commands so far.        *)
THEOREM TypeCorrect == Spec => []TypeOK
<1>1. Init => RunInv
  BY RunInit
<1>2. RunInv /\ [Next]_vars => RunInv'
  BY RunNext
<1>3. RunInv => TypeOK
  BY RunInvGivesTypes
<1>4. QED
  BY <1>1, <1>2, <1>3, PTL DEF Spec

(* Exit code 0 means every top-level command ran and nothing failed, exit  *)
(* code 1 that something did and the bundle says so (runner.py:96-99,      *)
(* cli.py:87-95).                                                          *)
THEOREM ExitIsTrue == Spec => []ExitTellsTheTruth
<1>1. Init => RunInv
  BY RunInit
<1>2. RunInv /\ [Next]_vars => RunInv'
  BY RunNext
<1>3. RunInv => ExitTellsTheTruth
  BY DEF RunInv, ExitInv
<1>4. QED
  BY <1>1, <1>2, <1>3, PTL DEF Spec

(* A settle that reports SETTLED looked at stable_samples + 1 frames in a  *)
(* row none of which differed visibly from the one before                  *)
(* (settle.py:65-97).                                                      *)
THEOREM SettledHolds == Spec => []SettledStoodStill
<1>1. Init => RunInv
  BY RunInit
<1>2. RunInv /\ [Next]_vars => RunInv'
  BY RunNext
<1>3. RunInv => SettledStoodStill
  BY SettledShows DEF RunInv
<1>4. QED
  BY <1>1, <1>2, <1>3, PTL DEF Spec

-----------------------------------------------------------------------------
(* The selector of wait_until asks for the same nodes as the flow's.       *)
LEMMA PatientMeans ==
    ASSUME NEW sel
    PROVE  /\ DOMAIN Patient(sel) = {"optional"} \cup DOMAIN sel
           /\ \A k \in DOMAIN sel : k # "optional" => Patient(sel)[k] = sel[k]
           /\ \A s, n : IsMeant(s, Patient(sel), n) <=> IsMeant(s, sel, n)
<1>1. /\ DOMAIN Patient(sel) = {"optional"} \cup DOMAIN sel
      /\ \A k \in DOMAIN sel : k # "optional" => Patient(sel)[k] = sel[k]
  BY DEF Patient
<1>2. ASSUME NEW k \in {"name", "class", "text", "path", "group", "visible", "child_of", "contains",
                        "index"}
      PROVE  /\ k \in DOMAIN Patient(sel) <=> k \in DOMAIN sel
             /\ k \in DOMAIN sel => Patient(sel)[k] = sel[k]
  BY <1>1
<1>3. \A s, n : Matches(s, n, Patient(sel)) <=> Matches(s, n, sel)
  BY <1>2 DEF Matches
<1>4. \A s : Meant(s, Patient(sel)) = Meant(s, sel)
  BY <1>2, <1>3 DEF Meant
<1>5. \A s, n : IsMeant(s, Patient(sel), n) <=> IsMeant(s, sel, n)
  BY <1>2, <1>4 DEF IsMeant
<1>6. QED
  BY <1>1, <1>5

-----------------------------------------------------------------------------
(* What the flow is told about a node.                                     *)
LEMMA OnlyLooking ==
    ASSUME [Next]_vars, scene # NoScene, At(SelectorCommands)
    PROVE  \/ AssertVisible \/ AssertProperty \/ WaitPoll
           \/ UNCHANGED <<stack, steps, scene, found>>
<1>1. phase = "running" /\ ~FrameDone /\ Command.cmd \in SelectorCommands
  BY DEF At
<1>2. ~(Load \/ WriteManifest \/ WriteJunit \/ Escaped \/ FrameEnds \/ Tree)
  BY <1>1 DEF Load, WriteManifest, WriteJunit, Escaped, FrameEnds, Tree
<1>3. ~(Launch \/ Capture \/ Mutate \/ SettleStart \/ SettleSample)
  BY <1>1 DEF Launch, Capture, Mutate, SettleStart, SettleSample, At, SelectorCommands,
              MUTATING_COMMANDS
<1>4. ~(RunFlow \/ Repeat)
  BY <1>1 DEF RunFlow, Repeat, At, SelectorCommands
<1>5. WaitStart \/ EngineGone \/ Elapse \/ UNCHANGED vars => UNCHANGED <<stack, steps, scene, found>>
  BY DEF WaitStart, EngineGone, Elapse, vars, waitVars
<1>6. QED
  BY <1>2, <1>3, <1>4, <1>5 DEF Next, Run

(* While there is a scene it is one the engine may show, the command at    *)
(* hand is still the one it was asked for, and what was found on its tree  *)
(* is what the selector is resolved to.                                    *)
SceneInv == scene # NoScene => scene \in Scenes /\ found = Resolved(scene)

LEMMA SceneNext ==
    ASSUME SceneInv, scene # NoScene => At(SelectorCommands), [Next]_vars
    PROVE  SceneInv'
<1>1. CASE scene' = NoScene
  BY <1>1 DEF SceneInv, NoScene
<1>2. CASE scene = NoScene /\ scene' # NoScene
  <2>1. Tree
    BY <1>2 DEF Next, Run, vars, waitVars, Load, Launch, AssertVisible, AssertProperty, Capture,
       Mutate, WaitStart, WaitPoll, SettleStart, SettleSample, RunFlow, Repeat, FrameEnds,
       WriteManifest, WriteJunit, Escaped, EngineGone, Elapse
  <2>2. scene' \in Scenes /\ found' = Resolved(scene') /\ UNCHANGED stack
    BY <1>2, <2>1 DEF Tree
  <2>3. QED
    BY <2>2 DEF SceneInv, Resolved, Wanted, Command, Top
<1>3. CASE scene # NoScene /\ scene' # NoScene
  <2>1. UNCHANGED <<stack, scene, found>>
    BY <1>3, OnlyLooking DEF AssertVisible, AssertProperty, WaitPoll, Forgets
  <2>2. QED
    BY <1>3, <2>1 DEF SceneInv, Resolved, Wanted, Command, Top
<1>4. QED
  BY <1>1, <1>2, <1>3

(* A node that is resolved is the one that is meant; so what is not        *)
(* resolved to a visible node does not show.                               *)
LEMMA WhatIsResolved ==
    ASSUME scene \in Scenes, ~Truncated(scene), NEW sel, MeetsReference(scene, sel),
           found = Resolve(Serialize(scene), sel)
    PROVE  /\ IsVisible(found) => Shows(sel)
           /\ found.is = "none" => MayBeAbsent(sel)
           /\ ~IsVisible(found) /\ found.is # "error" => ~Shows(sel)
<1>1. found.is \in {"none", "error", "node"}
  BY DEF Resolve, ResolveAmong, NoNode, Error, Node
<1>2. CASE ScreenSpaceOps \cap DOMAIN sel # {}
  <2>1. found.is = "error"
    BY <1>2 DEF Resolve, Error
  <2>2. QED
    BY <2>1 DEF IsVisible
<1>3. CASE ScreenSpaceOps \cap DOMAIN sel = {}
  <2>1. /\ found.is = "node" => IsMeant(scene, sel, found.node)
        /\ found.is = "none" => Meant(scene, sel) = {} /\ Optional(sel)
    BY <1>3 DEF MeetsReference
  <2>2. \A n : IsMeant(scene, sel, n) => n \in Meant(scene, sel) /\ n \in DOMAIN scene
    BY DEF IsMeant, Meant
  <2>3. IsVisible(found) => Shows(sel)
    BY <2>1, <2>2 DEF IsVisible, Shows
  <2>4. found.is = "none" => MayBeAbsent(sel) /\ ~Shows(sel)
    BY <2>1, <2>2 DEF MayBeAbsent, Shows
  <2>5. ASSUME found.is = "node", ~IsVisible(found), Shows(sel) PROVE FALSE
    <3>1. PICK n \in DOMAIN scene : IsMeant(scene, sel, n) /\ scene[n].visible
      BY <2>5 DEF Shows
    <3>2. DOMAIN scene \subseteq Seq(Nat) /\ IsFiniteSet(DOMAIN scene)
      <4>1. DOMAIN scene \subseteq Seq(Nat \ {0}) /\ IsFiniteSet(DOMAIN scene)
        BY ScenesAssumption DEF IsTree
      <4>2. \A p \in Seq(Nat \ {0}) : p \in Seq(Nat)
        BY SeqMonotonic
      <4>3. QED
        BY <4>1, <4>2
    <3>3. n = found.node
      BY <2>1, <2>5, <3>1, <3>2, MeantIsUnique
    <3>4. QED
      BY <2>5, <3>1, <3>3 DEF IsVisible
  <2>6. QED
    BY <1>1, <2>3, <2>4, <2>5
<1>4. QED
  BY <1>2, <1>3

(* What one step tells the flow.                                           *)
ToldTheTruth ==
    scene # NoScene /\ ~Truncated(scene) =>
        /\ At({"assert_visible"}) /\ GoesPast => Shows(Command.sel) \/ MayBeAbsent(Command.sel)
        /\ At({"wait_until"}) /\ GoesPast => Shows(Command.sel)
        /\ At({"wait_until"}) /\ steps' = Append(steps, "failed") => late /\ ~Shows(Command.sel)

LEMMA SeesNext ==
    ASSUME steps \in Seq(Good \cup Bad), SceneInv, SelectorsMeetReference, [Next]_vars
    PROVE  ToldTheTruth
<1> SUFFICES ASSUME scene # NoScene, ~Truncated(scene)
             PROVE  /\ At({"assert_visible"}) /\ GoesPast =>
                           Shows(Command.sel) \/ MayBeAbsent(Command.sel)
                    /\ At({"wait_until"}) /\ GoesPast => Shows(Command.sel)
                    /\ At({"wait_until"}) /\ steps' = Append(steps, "failed") =>
                           late /\ ~Shows(Command.sel)
  BY DEF ToldTheTruth
<1>1. scene \in Scenes
  BY DEF SceneInv
<1>2. \A status : Fails(status) => phase' # "running" /\ steps' = Append(steps, status)
  BY DEF Fails, Stops, Unrecorded
<1>3. Append(steps, "failed") # steps
  <2>1. Len(Append(steps, "failed")) = Len(steps) + 1 /\ Len(steps) \in Nat
    OBVIOUS
  <2>2. QED
    BY <2>1
<1>4. ASSUME NEW status \in {"passed", "error"} PROVE Append(steps, "failed") # Append(steps, status)
  <2>1. PICK n \in Nat : n = Len(steps)
    OBVIOUS
  <2>2. /\ Append(steps, "failed")[n + 1] = "failed"
        /\ Append(steps, status)[n + 1] = status
    BY <2>1
  <2>3. QED
    BY <2>2
<1>5. ASSUME At({"assert_visible"}), GoesPast
      PROVE  Shows(Command.sel) \/ MayBeAbsent(Command.sel)
  <2>1. AssertVisible
    BY <1>5, OnlyLooking DEF At, SelectorCommands, GoesPast, AssertProperty, WaitPoll
  <2>2. IsVisible(found) \/ found.is = "none"
    BY <1>2, <1>5, <2>1 DEF AssertVisible, GoesPast
  <2>3. MeetsReference(scene, Command.sel) /\ found = Resolve(Serialize(scene), Command.sel)
    BY <1>5 DEF SelectorsMeetReference, SceneInv, Resolved, Wanted, At
  <2>4. QED
    BY <1>1, <2>2, <2>3, WhatIsResolved
<1>6. ASSUME At({"wait_until"})
      PROVE  /\ IsVisible(found) => Shows(Command.sel)
             /\ ~IsVisible(found) /\ found.is # "error" => ~Shows(Command.sel)
  <2>1. PICK ask : ask = Patient(Command.sel)
    OBVIOUS
  <2>2. MeetsReference(scene, ask) /\ found = Resolve(Serialize(scene), ask)
    BY <1>6, <2>1 DEF SelectorsMeetReference, SceneInv, Resolved, Wanted, At
  <2>3. Shows(ask) <=> Shows(Command.sel)
    BY <2>1, PatientMeans DEF Shows
  <2>4. QED
    BY <1>1, <2>2, <2>3, WhatIsResolved
<1>7. ASSUME At({"wait_until"}), GoesPast
      PROVE  Shows(Command.sel)
  <2>1. WaitPoll
    BY <1>7, OnlyLooking DEF At, SelectorCommands, GoesPast, AssertVisible, AssertProperty
  <2>2. IsVisible(found)
    BY <1>2, <1>7, <2>1 DEF WaitPoll, GoesPast
  <2>3. QED
    BY <1>6, <1>7, <2>2
<1>8. ASSUME At({"wait_until"}), steps' = Append(steps, "failed")
      PROVE  late /\ ~Shows(Command.sel)
  <2>1. WaitPoll
    BY <1>3, <1>8, OnlyLooking DEF At, SelectorCommands, AssertVisible, AssertProperty
  <2>2. ~Passes("passed") /\ ~Fails("error") /\ ~UNCHANGED steps
    BY <1>2, <1>3, <1>4, <1>8 DEF Passes, Unrecorded
  <2>3. late /\ ~IsVisible(found) /\ found.is # "error"
    BY <2>1, <2>2, Zenon DEF WaitPoll, Overdue
  <2>4. QED
    BY <1>6, <1>8, <2>3
<1>9. QED
  BY <1>5, <1>7, <1>8

LEMMA Resolution == SceneInv => SelectorsMeetReference
<1> SUFFICES ASSUME SceneInv, scene # NoScene PROVE \A sel : MeetsReference(scene, sel)
  BY DEF SelectorsMeetReference
<1>1. IsTree(scene)
  BY ScenesAssumption DEF SceneInv
<1>2. QED
  BY <1>1, ResolutionMeetsReference

LookInv == RunInv /\ SceneInv

LEMMA LookInit == Init => LookInv
  BY RunInit DEF LookInv, SceneInv, Init

LEMMA LookNext == ASSUME LookInv, [Next]_vars PROVE LookInv'
<1>1. scene # NoScene => At(SelectorCommands)
  BY RunInvGivesTypes DEF LookInv, TypeOK
<1>2. QED
  BY <1>1, RunNext, SceneNext DEF LookInv

(* Every selector of a flow is resolved as the reference says, on every    *)
(* scene the engine may show (selectors.py:73-130 on the tree of           *)
(* server.gd:334-352).                                                     *)
THEOREM SelectorsHold == Spec => []SelectorsMeetReference
<1>1. Init => LookInv
  BY LookInit
<1>2. LookInv /\ [Next]_vars => LookInv'
  BY LookNext
<1>3. LookInv => SelectorsMeetReference
  BY Resolution DEF LookInv
<1>4. QED
  BY <1>1, <1>2, <1>3, PTL DEF Spec

(* What a flow is told about a node is true of its scene, if the tree was  *)
(* not cut: assert_visible and wait_until go past their command only with  *)
(* the meant node visible, or nowhere where that is allowed, and wait_until*)
(* fails only after its deadline with the node not to be seen              *)
(* (runner.py:153-185).                                                    *)
THEOREM SeesTruth == Spec => SeesWhatIsThere
<1>1. Init => LookInv
  BY LookInit
<1>2. LookInv /\ [Next]_vars => LookInv'
  BY LookNext
<1>3. LookInv /\ [Next]_vars => [ToldTheTruth]_vars
  BY Resolution, SeesNext DEF LookInv, RunInv, StepsInv
<1>4. QED
  BY <1>1, <1>2, <1>3, PTL DEF Spec, SeesWhatIsThere, ToldTheTruth
=============================================================================
