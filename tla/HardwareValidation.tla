------------------------- MODULE HardwareValidation -------------------------
(***************************************************************************)
(* The hardware validation runner (scripts/run-hardware-validation.py):    *)
(* its ROS 2 mode, which runs the motor sweep as a child process           *)
(* (tests/hardware_validation/scripts/motor_sweep.py), and its standalone  *)
(* mode over UDP.  An interrupt may come at any time once its handler is   *)
(* installed.  turning is what the robot was last told; that the robot     *)
(* stops by itself when commands cease is not counted on.                  *)
(***************************************************************************)
EXTENDS Sequences

CONSTANT Suites     \* [mode -> the lists of tests it may be asked to run]

ASSUME SuitesAssumption ==
    /\ DOMAIN Suites = {"ros2", "udp"}
    /\ \A m \in DOMAIN Suites : Suites[m] \subseteq Seq(STRING)

VARIABLES
    mode,       \* "ros2" or "udp"
    at,         \* where the runner is
    todo,       \* tests to be run, the present one first
    ran,        \* results: [test, passed]
    sweep,      \* the child: "none", "driving", "resting"
    turning,    \* the last velocity the robot has received is not zero
    lost,       \* history: no stop has reached the robot since it was told to turn
    cut,        \* history: "" or what kept the final stop from being the last command
    code        \* exit code; 2: still running

hwVars == <<mode, at, todo, ran, sweep, turning, lost, cut, code>>

HwInit ==
    /\ mode = "ros2" /\ at = "off" /\ todo = <<>> /\ ran = <<>> /\ sweep = "none"
    /\ turning = FALSE /\ lost = FALSE /\ cut = "" /\ code = 2

-----------------------------------------------------------------------------
(* What reaches the robot.                                                 *)

Turns == turning' = TRUE /\ lost' = FALSE

\* stop_motors, stop_motors_standalone: nothing tells whether it arrived.
StopMotors == \/ turning' = FALSE /\ lost' = FALSE
              \/ turning' = turning /\ lost' = turning

Hears == UNCHANGED <<turning, lost>>

-----------------------------------------------------------------------------
Begin(m) ==
    /\ at = "off" /\ mode' = m /\ at' = "preflight"
    /\ todo' \in Suites[m]
    /\ UNCHANGED <<ran, sweep, cut, code>> /\ Hears

\* check_ros2_available, check_robot_connected, check_standalone_connected.
Preflight ==
    /\ at = "preflight"
    /\ \/ at' = "test" /\ UNCHANGED code
       \/ at' = "exited" /\ code' = 1
    /\ UNCHANGED <<mode, todo, ran, sweep, cut>> /\ Hears

\* A runner leaves one result.
Passed(ok) ==
    /\ ran' = Append(ran, [test |-> Head(todo), passed |-> ok])
    /\ todo' = Tail(todo)

Testing(t) == at = "test" /\ todo # <<>> /\ Head(todo) = t

\* The tests that only read leave a result, whatever goes wrong in them.
Reads(m, t) ==
    /\ mode = m /\ Testing(t)
    /\ \E ok \in BOOLEAN : Passed(ok)
    /\ UNCHANGED <<mode, at, sweep, cut, code>> /\ Hears

\* Children that are waited for, and killed if they take too long.
EncoderCalibration == Reads("ros2", "encoders")
UltrasonicLog == Reads("ros2", "ultrasonic")

\* ros2 topic echo --once, with a range or a state to be met.
BatteryCheck == Reads("ros2", "battery")
EstopCheck == Reads("ros2", "safety")

\* A request and its answer, on a socket of its own.
UdpConnectivity == Reads("udp", "connectivity")
UdpBattery == Reads("udp", "battery")
UdpUltrasonic == Reads("udp", "ultrasonic")

ReadingTest ==
    \/ EncoderCalibration \/ UltrasonicLog \/ BatteryCheck \/ EstopCheck
    \/ UdpConnectivity \/ UdpBattery \/ UdpUltrasonic

\* run_motor_sweep: the child is started and waited for.
SweepStarts ==
    /\ mode = "ros2" /\ Testing("motors")
    /\ at' = "sweep" /\ sweep' = "resting"
    /\ UNCHANGED <<mode, todo, ran, cut, code>> /\ Hears

\* send_cmd publishes until its time is over, and a stop after it.
SweepDrives ==
    /\ sweep # "none" /\ sweep' = "driving" /\ Turns
    /\ UNCHANGED <<mode, at, todo, ran, cut, code>>

SweepRests ==
    /\ sweep = "driving" /\ sweep' = "resting" /\ StopMotors
    /\ UNCHANGED <<mode, at, todo, ran, cut, code>>

\* The child ends, in its finally with another stop, or dies where it is.
SweepEnds ==
    /\ at = "sweep" /\ at' = "test" /\ sweep' = "none"
    /\ \/ sweep = "resting" /\ StopMotors /\ \E ok \in BOOLEAN : Passed(ok)
       \/ Passed(FALSE) /\ Hears
    /\ UNCHANGED <<mode, cut, code>>

\* The child takes too long: it is killed first, and then the motors are stopped.
SweepTimesOut ==
    /\ at = "sweep" /\ at' = "test" /\ sweep' = "none"
    /\ Passed(FALSE) /\ StopMotors
    /\ UNCHANGED <<mode, cut, code>>

\* run_standalone_motor_test: without an answer it returns, the robot may turn.
UdpMotorTest ==
    /\ mode = "udp" /\ Testing("motors")
    /\ \/ Turns /\ at' = "moving" /\ UNCHANGED <<todo, ran>>
       \/ (Turns \/ Hears) /\ Passed(FALSE) /\ UNCHANGED at
    /\ UNCHANGED <<mode, sweep, cut, code>>

\* ... and with one it passes whether or not the stop is answered.
UdpStops ==
    /\ at = "moving" /\ at' = "test" /\ StopMotors /\ Passed(TRUE)
    /\ UNCHANGED <<mode, sweep, cut, code>>

\* all(r.passed for r in report.results)
OverallPassed == \A k \in DOMAIN ran : ran[k].passed

\* _write_report may raise, and nothing after it is done.
Report ==
    /\ at = "test" /\ todo = <<>>
    /\ \/ at' = "stop" /\ UNCHANGED <<code, cut>>
       \/ at' = "exited" /\ code' = 1 /\ cut' = "no report"
    /\ UNCHANGED <<mode, todo, ran, sweep>> /\ Hears

\* Mutant: the runner leaves without a stop.
Finish_NoStop ==
    /\ at = "stop" /\ at' = "exited" /\ Hears
    /\ code' = IF OverallPassed THEN 0 ELSE 1
    /\ UNCHANGED <<mode, todo, ran, sweep, cut>>

Finish ==
    /\ at = "stop" /\ at' = "exited" /\ StopMotors
    /\ code' = IF OverallPassed THEN 0 ELSE 1
    /\ UNCHANGED <<mode, todo, ran, sweep, cut>>

-----------------------------------------------------------------------------
(* SIGINT: the handler stops the motors and raises SystemExit, which kills the child. *)

Interrupt ==
    /\ at \in {"preflight", "test", "sweep", "moving", "stop"} /\ at' = "handler"
    /\ cut' = IF sweep # "none" THEN "child alive" ELSE cut
    /\ UNCHANGED <<mode, todo, ran, sweep, code>> /\ Hears

HandlerStops ==
    /\ at = "handler" /\ at' = "leaving" /\ StopMotors
    /\ UNCHANGED <<mode, todo, ran, sweep, cut, code>>

Leave ==
    /\ at = "leaving" /\ at' = "exited" /\ code' = 1 /\ sweep' = "none"
    /\ UNCHANGED <<mode, todo, ran, cut>> /\ Hears

HwNext ==
    \/ \E m \in {"ros2", "udp"} : Begin(m)
    \/ Preflight \/ ReadingTest
    \/ SweepStarts \/ SweepDrives \/ SweepRests \/ SweepEnds \/ SweepTimesOut
    \/ UdpMotorTest \/ UdpStops \/ Report \/ Finish
    \/ Interrupt \/ HandlerStops \/ Leave

HwSpec == HwInit /\ [][HwNext]_hwVars

-----------------------------------------------------------------------------
(* Properties.                                                             *)

\* When the runner is gone the robot stands, unless the last stop never reached it, the
\* sweep was still driving when the interrupt's stop was sent, or the report could not
\* be written.  Whatever the tests before it, in either mode, left turning, the last
\* command of every other way out is a stop.
StoppedAtExit == at = "exited" /\ turning => lost \/ cut # ""

\* The exit code is 0 only if every test asked for was run and has passed.
PassIsEarned ==
    code = 0 => /\ \A k \in DOMAIN ran : ran[k].passed
                /\ \E suite \in Suites[mode] :
                      /\ Len(suite) = Len(ran)
                      /\ \A k \in DOMAIN suite : suite[k] = ran[k].test

\* The runner leaves the robot standing, and its verdict is that of its tests.
ValidationHonest == StoppedAtExit /\ PassIsEarned

=============================================================================
