----------------------------- MODULE Perception -----------------------------
(***************************************************************************)
(* From the camera to the ball the collector drives to: a detector node,   *)
(* either the Hailo one (robot_perception/inference_node.py) or the one    *)
(* without an accelerator (ball_detector_node.py), and the tracker that    *)
(* subscribes to either (robot_collection/ball_tracker_node.py).           *)
(*                                                                         *)
(* A frame is the set of boxes a detector finds in it; boxes are numbered  *)
(* from the highest score down.  The tracker counts a box as seen again    *)
(* when it is on the same pixel.                                           *)
(***************************************************************************)
EXTENDS Integers, Sequences, FiniteSets

CONSTANTS
    Boxes,          \* the boxes there may be in a frame, 1..n
    Overlap,        \* pairs of boxes whose IoU is over nms_threshold
    Nearer,         \* pairs <<a, b>>: a is larger in the image than b
    Understood,     \* the detectors whose class names are the tracker's ball_class_id
    ConsecutiveFrames, \* min_consecutive_frames
    Depth,          \* depth of the tracker's subscription
    FrameCap        \* bound of the model: camera frames

ASSUME PerceptionAssumption ==
    /\ IsFiniteSet(Boxes) /\ Boxes = 1..Cardinality(Boxes)
    /\ Overlap \subseteq Boxes \X Boxes
    /\ \A a, b \in Boxes : <<a, b>> \in Overlap => <<b, a>> \in Overlap
    /\ \A a, b \in Boxes : a # b => (<<a, b>> \in Nearer) # (<<b, a>> \in Nearer)
    /\ Understood \subseteq {"hailo", "cv"}
    /\ {ConsecutiveFrames, Depth} \subseteq Nat \ {0} /\ FrameCap \in Nat

VARIABLES
    detector,       \* which node was launched
    node,           \* "off", "init", "running", "down"
    loaded,         \* how far _initialize_hailo got
    available,      \* _hailo_available; of the other node: cv2 could be imported
    vdevice, pipeline,  \* held
    frame,          \* the camera's last: [n, boxes]
    latest,         \* _latest_frame
    found,          \* /perception/detections, on its way to the tracker
    counted,        \* _consecutive_counts has at most one key: [key, count]
    support,        \* history: the frames behind counted
    tracked,        \* the last one published: [key, support]
    killed          \* history: Ctrl-C came while the node was being built

deviceVars == <<available, loaded, vdevice, pipeline, killed>>
trackerVars == <<counted, support, tracked>>
perceptionVars == <<detector, node, deviceVars, frame, latest, found, trackerVars>>

None == [n |-> 0, boxes |-> {}]
Nothing == [key |-> 0, count |-> 0]
NoTarget == [key |-> 0, support |-> {}]

\* The steps of _initialize_hailo that leave something behind, in their order.
Stages == <<"nothing", "vdevice", "configured", "pipeline", "entered">>

PerceptionInit ==
    /\ detector \in {"hailo", "cv"} /\ node = "off" /\ available = FALSE
    /\ loaded = 1 /\ vdevice = FALSE /\ pipeline = FALSE /\ killed = FALSE
    /\ frame = None /\ latest = None /\ found = <<>>
    /\ counted = Nothing /\ support = {} /\ tracked = NoTarget

-----------------------------------------------------------------------------
(* The life of the detector node.                                          *)

\* hailo_platform, or cv2, may not be installed.
Launch ==
    /\ node = "off"
    /\ \E there \in BOOLEAN :
          /\ available' = there
          /\ node' = IF detector = "hailo" /\ there THEN "init" ELSE "running"
    /\ UNCHANGED <<detector, loaded, vdevice, pipeline, killed, frame, latest, found, trackerVars>>

\* One step of _initialize_hailo.  The pipeline is kept before it is entered.
LoadStep ==
    /\ node = "init" /\ loaded < Len(Stages)
    /\ loaded' = loaded + 1
    /\ vdevice' = (vdevice \/ Stages[loaded'] = "vdevice")
    /\ pipeline' = (pipeline \/ Stages[loaded'] = "pipeline")
    /\ node' = IF loaded' = Len(Stages) THEN "running" ELSE "init"
    /\ UNCHANGED <<detector, available, killed, frame, latest, found, trackerVars>>

\* A step raises: the node goes on as if there were no accelerator, with what it has.
LoadFails ==
    /\ node = "init" /\ node' = "running" /\ available' = FALSE
    /\ UNCHANGED <<detector, loaded, vdevice, pipeline, killed, frame, latest, found, trackerVars>>

\* Ctrl-C while the node is being built: main has not reached its try.
KilledInInit ==
    /\ node = "init" /\ node' = "down" /\ killed' = TRUE
    /\ UNCHANGED <<detector, available, loaded, vdevice, pipeline, frame, latest, found, trackerVars>>

\* Mutant: the device is only released if the pipeline was there.
DestroyNode_PipelineOnly ==
    /\ node = "running" /\ node' = "down"
    /\ pipeline' = FALSE /\ vdevice' = (vdevice /\ ~pipeline)
    /\ UNCHANGED <<detector, available, loaded, killed, frame, latest, found, trackerVars>>

\* Ctrl-C, or an exception out of a callback.  Closing or releasing may raise; it is
\* reported, and the other is still done.
DestroyNode ==
    /\ node = "running" /\ node' = "down"
    /\ pipeline' = FALSE /\ vdevice' = FALSE
    /\ UNCHANGED <<detector, available, loaded, killed, frame, latest, found, trackerVars>>

-----------------------------------------------------------------------------
(* Frames and detections.                                                  *)

\* The tracker's subscription keeps the last Depth messages.
Publish(f, boxes) ==
    LET m == [n |-> f.n, frame |-> f.boxes, boxes |-> boxes]
    IN found' = Append(IF Len(found) < Depth THEN found ELSE Tail(found), m)

\* _nms: a box stays unless it overlaps one with a higher score that stays.
Nms(boxes) ==
    LET stays[b \in Boxes] ==
            /\ b \in boxes
            /\ \A a \in {x \in Boxes : x < b} : stays[a] => <<a, b>> \notin Overlap
    IN {b \in boxes : stays[b]}

\* The Hailo node keeps the frame; the other one answers it at once.
ImageCallback ==
    IF detector = "hailo"
    THEN latest' = frame' /\ UNCHANGED found
    ELSE /\ IF available THEN Publish(frame', frame'.boxes) ELSE UNCHANGED found
         /\ UNCHANGED latest

CameraFrame ==
    /\ frame.n < FrameCap
    /\ \E boxes \in SUBSET Boxes : frame' = [n |-> frame.n + 1, boxes |-> boxes]
    /\ \/ node = "running" /\ ImageCallback
       \/ UNCHANGED <<latest, found>>
    /\ UNCHANGED <<detector, node, deviceVars, trackerVars>>

\* Thirty times a second the latest frame is looked at, be it new or not.
InferenceCallback ==
    /\ node = "running" /\ detector = "hailo" /\ available
    /\ latest # None /\ Stages[loaded] = "entered"
    /\ Publish(latest, Nms(latest.boxes))
    /\ UNCHANGED <<detector, node, deviceVars, frame, latest, trackerVars>>

-----------------------------------------------------------------------------
(* The tracker.                                                            *)

Closest(boxes) == CHOOSE b \in boxes : \A a \in boxes \ {b} : <<b, a>> \in Nearer

\* The boxes whose class is ball_class_id.
Balls(m) == IF detector \in Understood THEN m.boxes ELSE {}

\* What is counted after one more sight of key.
CountOf(key) == IF counted.key = key THEN counted.count + 1 ELSE 1

Saturated(n) == IF n > ConsecutiveFrames THEN ConsecutiveFrames ELSE n

\* A message without balls forgets the count, one with a ball elsewhere starts anew.
TrackDetections ==
    /\ found # <<>> /\ found' = Tail(found)
    /\ LET m == Head(found)
           balls == Balls(m)
           key == Closest(balls)
       IN IF balls = {}
          THEN counted' = Nothing /\ support' = {} /\ UNCHANGED tracked
          ELSE /\ counted' = [key |-> key, count |-> Saturated(CountOf(key))]
               /\ support' = (IF counted.key = key THEN support ELSE {}) \cup {m.n}
               /\ tracked' = IF CountOf(key) >= ConsecutiveFrames
                            THEN [key |-> key, support |-> support'] ELSE tracked
    /\ UNCHANGED <<detector, node, deviceVars, frame, latest>>

PerceptionNext ==
    \/ Launch \/ LoadStep \/ LoadFails \/ KilledInInit \/ DestroyNode
    \/ CameraFrame \/ InferenceCallback \/ TrackDetections

PerceptionSpec == PerceptionInit /\ [][PerceptionNext]_perceptionVars

-----------------------------------------------------------------------------
(* Properties.                                                             *)

\* However far the start of the node got, and whatever step of it failed, a node that is
\* down holds neither the pipeline nor the device, unless it was killed before main could
\* catch it.
DeviceReleased == node = "down" /\ (vdevice \/ pipeline) => killed

\* A target the collector is sent to was there in ConsecutiveFrames different frames when it comes
\* from the detector that answers each frame once; from the Hailo node one frame may do,
\* for it looks at a frame again and again.
TargetsSeen ==
    tracked # NoTarget =>
        Cardinality(tracked.support) >= (IF detector = "cv" THEN ConsecutiveFrames ELSE 1)

\* Of the boxes the Hailo node publishes no two overlap, and each one it left out overlaps
\* one it kept that had a higher score.
BoxesThinned ==
    detector = "hailo" => \A k \in DOMAIN found : LET m == found[k] IN
        /\ \A a, b \in m.boxes : a # b => <<a, b>> \notin Overlap
        /\ \A b \in m.frame \ m.boxes : \E a \in m.boxes : a < b /\ <<a, b>> \in Overlap

\* The detections are what the frames show, and the accelerator is given back.
PerceptionHonest == DeviceReleased /\ TargetsSeen /\ BoxesThinned

=============================================================================
