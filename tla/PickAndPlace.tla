---------------------------- MODULE PickAndPlace ----------------------------
(***************************************************************************)
(* The legacy pick and place nodes of mybot_description: the voice node    *)
(* publishes one reply of the language model over and over; the navigation *)
(* node drives the base to an area, to the object and back to the origin;  *)
(* the vision node reports the object once and lines the base up with it   *)
(* through the wheel node; the arm node grasps and releases.  They share   *)
(* no state: each hand-over is one message, sent once.  Every node handles *)
(* one callback at a time, so a callback is an action; a drive and an arm  *)
(* sequence, which block their node, are several.                          *)
(***************************************************************************)
EXTENDS Integers, Sequences

CONSTANTS Replies,  \* what the language model may have answered
          Known,    \* the classes of the detector's model
          AreaDict, \* the places navigation knows, the origin among them
          Depth     \* the history depth of a topic

\* What the nodes' regular expressions find in an answer: runs of letters and
\* runs of digits; an answer that is a class alone has one.
ASSUME AnswersTyped ==
  /\ Depth \in Nat \ {0}
  /\ Replies \subseteq [kind : {"plan", "class", "prose"},
                        areas : Seq(STRING), classes : Seq(Int)]
  /\ \A r \in Replies : r.kind = "class" => r.classes # <<>>

Nodes == {"voice", "vision", "navigation", "arm", "wheel"}
Topics == {"vision_on", "target_position", "wheel_control", "navigate_over",
           "action_over"}
Subscriber == [vision_on |-> "vision", target_position |-> "navigation",
               wheel_control |-> "wheel", navigate_over |-> "arm",
               action_over |-> "navigation"]
NoClass == -1
Correct == -2    \* the word "correct" on vision_on; the rest are task numbers
Aligned == <<1>> \* on target_position; a position is the pair <<task, class>>
Nothing == [kind |-> "none", areas |-> <<>>, classes |-> <<>>]
Origin == "O"
Nowhere == "road"

VARIABLES
  target,  \* voice: the global the recogniser's callback assigns
  nodes,   \* "down" (not started), "up" or "dead" (an exception ended it)
  nav,     \* navigation: state, command, task, position, drive
  vis,     \* vision: heard, classes, task, target, correcting, sent
  arm,     \* arm: the steps play has left, and what the claw holds
  wheel,   \* wheel: the velocity the timer publishes
  chan,    \* messages on their way, by topic
  world,   \* where the base is, what it faces and how
  delivered, \* ghost: what the claw let go of, and where
  mishap   \* ghost: what went wrong outside of what the nodes handle

vars == <<target, nodes, nav, vis, arm, wheel, chan, world, delivered, mishap>>

Up(n) == nodes[n] = "up"
WellFormed(r) == /\ r.kind = "plan"
                 /\ Len(r.areas) <= Len(r.classes)
                 /\ \A i \in 1..Len(r.areas) : /\ r.areas[i] \in AreaDict
                                               /\ r.classes[i] \in Known

Init ==
  /\ target = Nothing
  /\ nodes = [n \in Nodes |-> "down"]
  /\ nav = [state |-> "WAITING", command |-> Nothing, task |-> -1,
            position |-> NoClass, drive |-> Nowhere]
  /\ vis = [heard |-> FALSE, classes |-> <<>>, task |-> -1,
            target |-> NoClass, correcting |-> FALSE, sent |-> FALSE]
  /\ arm = [steps |-> <<>>, holds |-> NoClass]
  /\ wheel = "0"
  /\ chan = [t \in Topics |-> <<>>]
  /\ world = [base |-> Origin, faces |-> NoClass, view |-> "off"]
  /\ delivered = <<>>
  /\ mishap = {}

-----------------------------------------------------------------------------
(* Topics: reliable, but only for a subscriber that runs, and with a       *)
(* bounded history that drops its oldest message.                          *)
KeepLast(q) == IF Len(q) > Depth THEN Tail(q) ELSE q
\* msgs: a function from the topics a handler publishes on to its messages.
Publish(msgs, ch) ==
  [t \in Topics |-> IF t \in DOMAIN msgs /\ Up(Subscriber[t])
                    THEN KeepLast(Append(ch[t], msgs[t])) ELSE ch[t]]
Unheard(topics) ==
  IF \E t \in topics : ~Up(Subscriber[t]) THEN {"unheard"} ELSE {}
Take(t) == [chan EXCEPT ![t] = Tail(@)]
Receives(t) == Up(Subscriber[t]) /\ chan[t] # <<>>
On(t, m) == [x \in {t} |-> m]

Dies(n) == /\ nodes' = [nodes EXCEPT ![n] = "dead"]
           /\ mishap' = mishap \cup {"died"}

\* A node comes up and subscribes; what was published before is lost to it.
\* The voice node does so only after the recogniser's connection closed.
Start(n) ==
  /\ nodes[n] = "down"
  /\ nodes' = [nodes EXCEPT ![n] = "up"]
  /\ UNCHANGED <<target, nav, vis, arm, wheel, chan, world, delivered, mishap>>

-----------------------------------------------------------------------------
(* Voice.  Each recognised piece that is long enough is classified by      *)
(* itself and replaces the answer to the piece before; a failed request    *)
(* answers -1, which is published like any other text.                     *)
Classified == Replies \cup {Nothing}

OnMessage(r) ==
  /\ nodes["voice"] = "down"
  /\ target' = r
  /\ UNCHANGED <<nodes, nav, vis, arm, wheel, chan, world, delivered, mishap>>

\* publish_msg repeats the fixed answer every second, so a subscriber that
\* has none yet can always receive it.
VisionHears ==
  /\ Up("voice") /\ Up("vision") /\ ~vis.heard
  /\ vis' = [vis EXCEPT !.heard = TRUE,
                        !.classes = IF target.kind = "plan" THEN target.classes ELSE @,
                        !.target = IF target.kind = "class" THEN target.classes[1] ELSE @]
  /\ IF target.kind = "prose" THEN Dies("vision") ELSE UNCHANGED <<nodes, mishap>>
  /\ UNCHANGED <<target, nav, arm, wheel, chan, world, delivered>>

NavigationHears ==
  /\ Up("voice") /\ Up("navigation") /\ nav.command = Nothing /\ target.kind = "plan"
  /\ nav' = [nav EXCEPT !.state = "TO_AREA", !.command = target, !.task = 0]
  /\ UNCHANGED <<target, nodes, vis, arm, wheel, chan, world, delivered, mishap>>

-----------------------------------------------------------------------------
(* Navigation.  A failed look-up of the transform changes nothing and is   *)
(* tried again at the next run of the timer.                               *)
Area == nav.command.areas[nav.task + 1]
Listening == Up("navigation") /\ nav.drive = Nowhere
Working == Listening /\ nav.command # Nothing /\ nav.task < Len(nav.command.areas)

Destination ==
  CASE nav.state = "TO_AREA"   -> Area
    [] nav.state = "TO_TARGET" -> "target"
    [] nav.state = "TO_ORIGIN" -> Origin

Depart ==
  /\ Working /\ nav.state \in {"TO_AREA", "TO_TARGET", "TO_ORIGIN"}
  /\ IF Destination \in AreaDict \cup {"target"}
     THEN /\ nav' = [nav EXCEPT !.drive = Destination]
          /\ world' = [base |-> Nowhere, faces |-> NoClass, view |-> "off"]
          /\ UNCHANGED <<nodes, mishap>>
     ELSE Dies("navigation") /\ UNCHANGED <<nav, world>>
  /\ UNCHANGED <<target, vis, arm, wheel, chan, delivered>>

\* What navigation says on its way out of a drive, in its new state.
Report(state, task) ==
  CASE state = "GET_AREA"   -> On("vision_on", task)
    [] state = "GET_TARGET" -> On("vision_on", Correct)
    [] state = "GET_ORIGIN" -> On("navigate_over", "release")

\* The drive is over, well or not: the navigator's result is not asked for.
Arrive(well) ==
  LET reached == CASE nav.state = "TO_AREA"   -> "GET_AREA"
                   [] nav.state = "TO_TARGET" -> "GET_TARGET"
                   [] nav.state = "TO_ORIGIN" -> "GET_ORIGIN"
      msgs == Report(reached, nav.task)
  IN /\ Up("navigation") /\ nav.drive # Nowhere
     /\ nav' = [nav EXCEPT !.state = reached, !.drive = Nowhere,
                           !.task = IF reached = "GET_ORIGIN" THEN @ + 1 ELSE @]
     /\ \E v \in {"off", "centered"} :
          world' = IF well THEN [base |-> nav.drive, view |-> v,
                                 faces |-> IF nav.drive = "target" THEN nav.position
                                                                   ELSE NoClass]
                           ELSE world
     /\ chan' = Publish(msgs, chan)
     /\ mishap' = mishap \cup Unheard(DOMAIN msgs) \cup (IF well THEN {} ELSE {"astray"})
     /\ UNCHANGED <<target, nodes, vis, arm, wheel, delivered>>

AskForGrasp ==
  /\ Working /\ nav.state = "GET_CORRECT"
  /\ nav' = [nav EXCEPT !.state = "GRASP"]
  /\ chan' = Publish(On("navigate_over", "grasp"), chan)
  /\ mishap' = mishap \cup Unheard({"navigate_over"})
  /\ UNCHANGED <<target, nodes, vis, arm, wheel, world, delivered>>

\* A position counts only for the current task, in the state that waits.
AfterTarget(m) ==
  IF m = Aligned
  THEN IF nav.state = "GET_TARGET" THEN [nav EXCEPT !.state = "GET_CORRECT"] ELSE nav
  ELSE IF nav.state = "GET_AREA" /\ m[1] = nav.task
       THEN [nav EXCEPT !.state = "TO_TARGET", !.position = m[2]] ELSE nav

TargetCallback ==
  /\ Listening /\ Receives("target_position")
  /\ nav' = AfterTarget(Head(chan["target_position"]))
  /\ chan' = Take("target_position")
  /\ UNCHANGED <<target, nodes, vis, arm, wheel, world, delivered, mishap>>

\* Mutant: on to the next area with the object in the claw.
AfterActionOnwards(state) ==
  IF state \in {"GRASP", "GET_ORIGIN"} THEN "TO_AREA" ELSE state

\* The message has no identity: the state tells which sequence is over.
AfterAction(state) ==
  CASE state = "GRASP"      -> "TO_ORIGIN"
    [] state = "GET_ORIGIN" -> "TO_AREA"
    [] OTHER                -> state

ActionCallback ==
  /\ Listening /\ Receives("action_over")
  /\ nav' = [nav EXCEPT !.state = AfterAction(@)]
  /\ chan' = Take("action_over")
  /\ UNCHANGED <<target, nodes, vis, arm, wheel, world, delivered, mishap>>

-----------------------------------------------------------------------------
(* Vision.                                                                 *)
\* Mutant: the class of the first task for all of them.
NewTargetFirst(task) == vis.classes[1]
NewTarget(task) == vis.classes[task + 1]

NavCallback ==
  /\ Receives("vision_on")
  /\ LET m == Head(chan["vision_on"]) IN
     CASE m = Correct ->
            /\ vis' = [vis EXCEPT !.correcting = TRUE]
            /\ chan' = Publish(On("wheel_control", "1"), Take("vision_on"))
            /\ mishap' = mishap \cup Unheard({"wheel_control"})
            /\ UNCHANGED nodes
       [] m # Correct ->
            /\ chan' = Take("vision_on")
            /\ IF m + 1 \in DOMAIN vis.classes /\ NewTarget(m) \in Known
               THEN /\ vis' = [vis EXCEPT !.task = m, !.target = NewTarget(m)]
                    /\ UNCHANGED <<nodes, mishap>>
               ELSE Dies("vision") /\ UNCHANGED vis
  /\ UNCHANGED <<target, nav, arm, wheel, world, delivered>>

\* An image with the target class in it, at a depth that is a number.
Sees == Up("vision") /\ vis.target # NoClass

SendTarget ==
  /\ Sees /\ ~vis.correcting /\ ~vis.sent
  /\ vis' = [vis EXCEPT !.sent = TRUE]
  /\ chan' = Publish(On("target_position", <<vis.task, vis.target>>), chan)
  /\ mishap' = mishap \cup Unheard({"target_position"})
  /\ UNCHANGED <<target, nodes, nav, arm, wheel, world, delivered>>

\* In the middle but far: go ahead, said again with every image.
AlignFar ==
  /\ Sees /\ vis.correcting /\ world.view = "centered"
  /\ chan' = Publish(On("wheel_control", "2"), chan)
  /\ mishap' = mishap \cup Unheard({"wheel_control"})
  /\ UNCHANGED <<target, nodes, nav, vis, arm, wheel, world, delivered>>

\* Mutant: navigation is told, the wheels are not.
StopUnsaid == [target_position |-> Aligned]
Stop == [wheel_control |-> "0", target_position |-> Aligned]
\* Mutant: the position of the next object is never sent.
AsideStillSent(v) == [v EXCEPT !.correcting = FALSE, !.target = NoClass]
Aside(v) == [v EXCEPT !.correcting = FALSE, !.sent = FALSE, !.target = NoClass]

\* In the middle and too close to measure: stop, and tell navigation.
AlignNear ==
  /\ Sees /\ vis.correcting /\ world.view = "near"
  /\ vis' = Aside(vis)
  /\ chan' = Publish(Stop, chan)
  /\ mishap' = mishap \cup Unheard(DOMAIN Stop)
  /\ UNCHANGED <<target, nodes, nav, arm, wheel, world, delivered>>

-----------------------------------------------------------------------------
(* The arm's play, a callback that sleeps between its steps, and the wheels. *)
Script(action) == IF action = "grasp" THEN <<"open", "reach", "close", "lift", "report">>
                                      ELSE <<"open", "home", "report">>
Play ==
  /\ Receives("navigate_over") /\ arm.steps = <<>>
  /\ arm' = [arm EXCEPT !.steps = Script(Head(chan["navigate_over"]))]
  /\ chan' = Take("navigate_over")
  /\ UNCHANGED <<target, nodes, nav, vis, wheel, world, delivered, mishap>>

Held(step) ==
  CASE step = "open"  -> NoClass
    [] step = "close" -> IF world.view = "near" THEN world.faces ELSE NoClass
    [] OTHER          -> arm.holds

PlayOn ==
  /\ Up("arm") /\ arm.steps # <<>>
  /\ LET step == Head(arm.steps) IN
     /\ arm' = [steps |-> Tail(arm.steps), holds |-> Held(step)]
     /\ delivered' = IF step = "open" /\ arm.holds # NoClass
                     THEN Append(delivered, <<arm.holds, world.base>>) ELSE delivered
     /\ IF step = "report"
        THEN /\ chan' = Publish(On("action_over", "1"), chan)
             /\ mishap' = mishap \cup Unheard({"action_over"})
        ELSE UNCHANGED <<chan, mishap>>
  /\ UNCHANGED <<target, nodes, nav, vis, wheel, world>>

WheelCallback ==
  /\ Receives("wheel_control")
  /\ wheel' = Head(chan["wheel_control"])
  /\ chan' = Take("wheel_control")
  /\ UNCHANGED <<target, nodes, nav, vis, arm, world, delivered, mishap>>

\* The base turns or goes ahead, as long as it is told to.  Nothing turns it
\* back once it goes ahead past the object: that ends the alignment for good.
Late == \E i \in DOMAIN chan["wheel_control"] : chan["wheel_control"][i] = "2"
Rolls(view, luck) ==
  /\ Up("wheel") /\ nav.drive = Nowhere /\ world.faces # NoClass
  /\ world' = [world EXCEPT !.view = view]
  /\ mishap' = mishap \cup luck
  /\ UNCHANGED <<target, nodes, nav, vis, arm, wheel, chan, delivered>>
Turn == wheel = "1" /\ world.view = "off" /\ Rolls("centered", {})
TurnPast == /\ wheel = "1" /\ world.view = "centered"
            /\ Rolls("off", IF Late THEN {"drift"} ELSE {})
Approach == wheel = "2" /\ world.view = "centered" /\ Rolls("near", {})
Drift == wheel = "2" /\ world.view = "centered" /\ Rolls("off", {"drift"})

-----------------------------------------------------------------------------
Next ==
  \/ \E n \in Nodes : Start(n)
  \/ \E r \in Classified : OnMessage(r)
  \/ VisionHears
  \/ NavigationHears
  \/ Depart
  \/ \E well \in BOOLEAN : Arrive(well)
  \/ AskForGrasp
  \/ TargetCallback
  \/ ActionCallback
  \/ NavCallback
  \/ SendTarget
  \/ AlignFar
  \/ AlignNear
  \/ Play
  \/ PlayOn
  \/ WheelCallback
  \/ Turn
  \/ TurnPast
  \/ Approach
  \/ Drift

\* Executors run what is ready; drives end; the object is in sight where its
\* task looks for it; a turning base meets it again and again, so an image
\* that shows it in the middle is taken at last.
Fairness ==
  /\ \A n \in Nodes : WF_vars(Start(n))
  /\ WF_vars(VisionHears) /\ WF_vars(NavigationHears)
  /\ WF_vars(Depart) /\ WF_vars(\E well \in BOOLEAN : Arrive(well))
  /\ WF_vars(AskForGrasp) /\ WF_vars(TargetCallback) /\ WF_vars(ActionCallback)
  /\ WF_vars(NavCallback) /\ WF_vars(SendTarget)
  /\ SF_vars(AlignFar) /\ WF_vars(AlignNear)
  /\ WF_vars(Play) /\ WF_vars(PlayOn) /\ WF_vars(WheelCallback)
  /\ WF_vars(Turn) /\ WF_vars(Approach \/ Drift)

Spec == Init /\ [][Next]_vars /\ Fairness

-----------------------------------------------------------------------------
(* Properties.                                                             *)

\* Whoever was told to move the robot: the navigator, the arm, or the wheels
\* (the last word on wheel_control).
Told == IF chan["wheel_control"] = <<>> THEN wheel
        ELSE chan["wheel_control"][Len(chan["wheel_control"])]
Movers ==
  (IF nav.drive # Nowhere THEN {"navigation"} ELSE {})
  \cup (IF arm.steps # <<>> \/ chan["navigate_over"] # <<>> THEN {"arm"} ELSE {})
  \cup (IF Told # "0" THEN {"wheel"} ELSE {})

\* The nodes pass the robot on from one to the next: never have two of them
\* been told to move it at a time, whatever was lost, died or went astray.
OneMoverAtATime == \A a, b \in Movers : a = b

\* From the position vision reported to the grasp, navigation goes for an
\* object of the class its current task names, and vision corrects for it.
TaskAgreement ==
  /\ nav.state \in {"TO_TARGET", "GET_TARGET", "GET_CORRECT", "GRASP"} =>
       nav.position = nav.command.classes[nav.task + 1]
  /\ vis.correcting => vis.task = nav.task /\ vis.target = nav.position

\* What the claw lets go of are the objects of the command, in its order, each
\* at the origin.
DeliversThePlan ==
  mishap = {} =>
    \A i \in DOMAIN delivered : delivered[i] = <<nav.command.classes[i], Origin>>

\* A command the nodes can follow is carried out to its last task, unless a
\* message found nobody, a drive failed or the base drifted off the object.
FinishesPlan ==
  (Up("voice") /\ WellFormed(target))
    ~> (mishap # {} \/ Len(delivered) = Len(target.areas))
=============================================================================
