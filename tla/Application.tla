----------------------------- MODULE Application -----------------------------
(***************************************************************************)
(* The user-interface thread: Application::loop with the calibration       *)
(* wizard and, once that has terminated, the touch recognition of every    *)
(* camera frame.  Mouse clicks arrive inside cv::waitKey, any number of    *)
(* them before the rest of the loop runs.                                  *)
(*                                                                         *)
(* An image is what it shows and how often it was amplified; two images    *)
(* that differ in either give a difference in which an ellipse may or may  *)
(* not be found.  What the requests do is the business of GameReplication. *)
(***************************************************************************)
EXTENDS Naturals, Sequences

CONSTANTS
    Point,              \* where one can click
    Scene,              \* what the depth camera can see
    Garbage             \* what uninitialised memory shows

ASSUME SceneAssumption == Garbage \notin Scene

VARIABLES
    projectorCoordinates, isProjectorCalibrated,
    cameraCoordinates, isCameraCalibrated,
    hasTerminated,      \* Calibration::m_hasTerminated
    homography,         \* the points the matrices were computed from
    isFinished,
    isTouchCalibrated,
    calibrationImage,   \* Application::m_calibrationImage
    depthImage,
    isTouching,
    requested           \* the last loop has requested a move and a highlight

wizardVars == <<projectorCoordinates, isProjectorCalibrated, cameraCoordinates,
                isCameraCalibrated, hasTerminated, homography>>
touchVars == <<isTouchCalibrated, calibrationImage, depthImage, isTouching>>
vars == <<wizardVars, touchVars, isFinished, requested>>

Image(s) == [scene |-> s, amplified |-> 0]
Images == [scene : Scene \cup {Garbage}, amplified : 0..2]
NoHomography == [projector |-> <<>>, camera |-> <<>>]

IsClicks(c) == c \in Seq(Point) /\ Len(c) <= 4

TypeOK ==
    /\ IsClicks(projectorCoordinates) /\ IsClicks(cameraCoordinates)
    /\ isProjectorCalibrated \in BOOLEAN /\ isCameraCalibrated \in BOOLEAN
    /\ hasTerminated \in BOOLEAN
    /\ IsClicks(homography.projector) /\ IsClicks(homography.camera)
    /\ isFinished \in BOOLEAN /\ requested \in BOOLEAN
    /\ isTouchCalibrated \in BOOLEAN /\ isTouching \in BOOLEAN
    /\ calibrationImage \in Images /\ depthImage \in Images

\* The constructor leaves m_isTouchCalibrated and the images uninitialised.
Init ==
    /\ projectorCoordinates = <<>> /\ cameraCoordinates = <<>>
    /\ isProjectorCalibrated = FALSE /\ isCameraCalibrated = FALSE
    /\ hasTerminated = FALSE
    /\ homography = NoHomography
    /\ isFinished = FALSE
    /\ isTouchCalibrated \in BOOLEAN
    /\ calibrationImage = Image(Garbage) /\ depthImage = Image(Garbage)
    /\ isTouching = FALSE
    /\ requested = FALSE

(***************************************************************************)
(* The calibration wizard                                                  *)
(***************************************************************************)

OneMore(n) == n <= 4            \* mutant: off by one
Missing(n) == n < 4
MoreThanFour(n) == n > 4        \* mutant: off by one
Complete(n) == n >= 4

\* handleMouseClick; the projector's four points come first.
Click(p) ==
    /\ ~isFinished
    /\ IF Missing(Len(projectorCoordinates))
       THEN /\ projectorCoordinates' = Append(projectorCoordinates, p)
            /\ isProjectorCalibrated' = Complete(Len(projectorCoordinates'))
            /\ UNCHANGED <<cameraCoordinates, isCameraCalibrated>>
       ELSE /\ Missing(Len(cameraCoordinates))
            /\ cameraCoordinates' = Append(cameraCoordinates, p)
            /\ isCameraCalibrated' = Complete(Len(cameraCoordinates'))
            /\ UNCHANGED <<projectorCoordinates, isProjectorCalibrated>>
    /\ UNCHANGED <<hasTerminated, homography, isFinished, requested>>
    /\ UNCHANGED touchVars

ProjectorOnly == isProjectorCalibrated          \* mutant: no test of the camera
BothCalibrated == isProjectorCalibrated /\ isCameraCalibrated

\* Application::loop while the wizard runs: 'q' is noted, the wizard goes on.
\* The camera delivers a frame meanwhile.
WizardLoop(quit, s) ==
    /\ ~isFinished
    /\ ~hasTerminated
    /\ isFinished' = quit
    /\ depthImage' = Image(s)
    /\ requested' = FALSE
    /\ IF BothCalibrated
       THEN /\ homography' = [projector |-> projectorCoordinates, camera |-> cameraCoordinates]
            /\ hasTerminated' = TRUE
       ELSE UNCHANGED <<homography, hasTerminated>>
    /\ UNCHANGED <<projectorCoordinates, isProjectorCalibrated, cameraCoordinates,
                   isCameraCalibrated, isTouchCalibrated, calibrationImage, isTouching>>

(***************************************************************************)
(* Touch recognition                                                       *)
(***************************************************************************)

Amplify(image) == [image EXCEPT !.amplified = @ + 1]

Plain(s) == Image(s)                            \* mutant: not amplified
CalibrateTouch(s) == Amplify(Image(s))

\* detectTouch takes the difference of the amplified frame and the background.
Detect(frame, background) ==
    /\ calibrationImage' = background
    /\ depthImage' = Amplify(frame)
    /\ isTouching' \in IF depthImage' = background THEN {FALSE} ELSE BOOLEAN
    /\ requested' = TRUE
    /\ isTouchCalibrated' = TRUE

\* Any key but 'q' and 'c': a frame s is fetched and processed.  If that makes
\* detectTouch calibrate, the frame is replaced by the amplified one s2.
FrameLoop(s, s2) ==
    /\ ~isFinished
    /\ hasTerminated
    /\ IF isTouchCalibrated
       THEN Detect(Image(s), calibrationImage)
       ELSE Detect(CalibrateTouch(s2), CalibrateTouch(s2))
    /\ UNCHANGED isFinished
    /\ UNCHANGED wizardVars

\* 'c': calibrate on the scene s, then fetch and process s2.
CalibrateLoop(s, s2) ==
    /\ ~isFinished
    /\ hasTerminated
    /\ Detect(Image(s2), CalibrateTouch(s))
    /\ UNCHANGED isFinished
    /\ UNCHANGED wizardVars

QuitLoop ==
    /\ ~isFinished
    /\ hasTerminated
    /\ isFinished' = TRUE
    /\ requested' = FALSE
    /\ UNCHANGED wizardVars /\ UNCHANGED touchVars

Wizard == \E quit \in BOOLEAN, s \in Scene : WizardLoop(quit, s)

Next ==
    \/ \E p \in Point : Click(p)
    \/ Wizard
    \/ \E s, s2 \in Scene : FrameLoop(s, s2) \/ CalibrateLoop(s, s2)
    \/ QuitLoop

Spec == Init /\ [][Next]_vars

\* main calls loop until isFinished; the user may never click or press a key.
FairSpec == Spec /\ WF_vars(Wizard)

-----------------------------------------------------------------------------
(***************************************************************************)
(* Properties                                                              *)
(***************************************************************************)

\* Frames are processed only with matrices computed from exactly the eight
\* points that were clicked; later clicks do not change them.
FramesHaveHomography ==
    requested => /\ homography = [projector |-> projectorCoordinates,
                                  camera |-> cameraCoordinates]
                 /\ Len(homography.projector) = 4 /\ Len(homography.camera) = 4

\* Eight clicks bring the wizard to its end.
WizardEnds == Len(cameraCoordinates) = 4 ~> (hasTerminated \/ isFinished)

\* Once touch is calibrated a frame that shows what was calibrated is no touch.
StillFloorUntouched ==
    [][requested' /\ isTouchCalibrated /\ depthImage'.scene = calibrationImage'.scene
        => ~isTouching']_vars
=============================================================================
