-------------------------- MODULE ApplicationProofs --------------------------
(***************************************************************************)
(* Proofs about Application, for any places to click on and any scenes.    *)
(* The wizard's flags say no more than how many points were clicked; what  *)
(* the proofs need is that they never fall behind the two lists, and that  *)
(* nothing is clicked any more once the matrices are computed.             *)
(***************************************************************************)
EXTENDS Application, SequenceTheorems, TLAPS

FlagsCount ==
    /\ isProjectorCalibrated <=> Len(projectorCoordinates) = 4
    /\ isCameraCalibrated <=> Len(cameraCoordinates) = 4

MatricesOfClicks ==
    hasTerminated => /\ Len(projectorCoordinates) = 4
                     /\ Len(cameraCoordinates) = 4
                     /\ homography = [projector |-> projectorCoordinates,
                                      camera |-> cameraCoordinates]

WizardInv == TypeOK /\ FlagsCount /\ MatricesOfClicks /\ (requested => hasTerminated)

\* No click yet, or one more: still a list of clicked points.
LEMMA NoClicks == IsClicks(<<>>) /\ Len(<<>>) = 0
BY EmptySeq DEF IsClicks

LEMMA OneMoreClick ==
    ASSUME NEW c, IsClicks(c), NEW p \in Point, Len(c) < 4
    PROVE  /\ IsClicks(Append(c, p))
           /\ Len(Append(c, p)) = Len(c) + 1
           /\ Complete(Len(Append(c, p))) <=> Len(Append(c, p)) = 4
<1>1. c \in Seq(Point) /\ Len(c) \in Nat
  BY LenProperties DEF IsClicks
<1>2. Append(c, p) \in Seq(Point) /\ Len(Append(c, p)) = Len(c) + 1
  BY <1>1, AppendProperties
<1> QED
  BY <1>1, <1>2 DEF IsClicks, Complete

\* What CalibrateTouch and Amplify yield are images.
LEMMA ImagesOfScenes ==
    ASSUME NEW s \in Scene
    PROVE  /\ Image(s) \in Images
           /\ CalibrateTouch(s) \in Images
           /\ Amplify(Image(s)) \in Images
           /\ Amplify(CalibrateTouch(s)) \in Images
<1>1. Image(s) = [scene |-> s, amplified |-> 0]
  BY DEF Image
<1>2. CalibrateTouch(s) = [scene |-> s, amplified |-> 1]
  BY <1>1 DEF CalibrateTouch, Amplify
<1>3. Amplify(CalibrateTouch(s)) = [scene |-> s, amplified |-> 2]
  BY <1>2 DEF Amplify
<1> QED
  BY <1>1, <1>2, <1>3 DEF CalibrateTouch, Images

\* detectTouch leaves images and flags of their types.
LEMMA DetectKeepsTypes ==
    ASSUME NEW frame \in Images, NEW background \in Images,
           Amplify(frame) \in Images, Detect(frame, background)
    PROVE  /\ calibrationImage' \in Images /\ depthImage' \in Images
           /\ isTouching' \in BOOLEAN
           /\ requested' = TRUE /\ isTouchCalibrated' = TRUE
BY DEF Detect

LEMMA InitInv == Init => WizardInv
<1> SUFFICES ASSUME Init PROVE WizardInv
  OBVIOUS
<1>1. Image(Garbage) \in Images
  BY DEF Image, Images
<1>2. IsClicks(homography.projector) /\ IsClicks(homography.camera)
  BY NoClicks DEF Init, NoHomography
<1>3. TypeOK
  BY <1>1, <1>2, NoClicks DEF Init, TypeOK
<1>4. FlagsCount
  BY NoClicks DEF Init, FlagsCount
<1> QED
  BY <1>3, <1>4 DEF WizardInv, MatricesOfClicks, Init

LEMMA ClickKeepsInv ==
    ASSUME WizardInv, NEW p \in Point, Click(p)
    PROVE  WizardInv'
<1> USE DEF WizardInv
<1>0. /\ Len(projectorCoordinates) \in Nat /\ Len(projectorCoordinates) <= 4
      /\ Len(cameraCoordinates) \in Nat /\ Len(cameraCoordinates) <= 4
  BY LenProperties DEF TypeOK, IsClicks
<1>1. ~hasTerminated /\ ~requested
  <2>1. Len(projectorCoordinates) < 4 \/ Len(cameraCoordinates) < 4
    BY DEF Click, Missing
  <2>2. ~(Len(projectorCoordinates) = 4 /\ Len(cameraCoordinates) = 4)
    BY <2>1
  <2> QED
    BY <2>2, Zenon DEF MatricesOfClicks
<1>2. CASE Missing(Len(projectorCoordinates))
  <2>1. /\ IsClicks(projectorCoordinates')
        /\ isProjectorCalibrated' <=> Len(projectorCoordinates') = 4
        /\ isProjectorCalibrated' \in BOOLEAN
    <3>1. /\ projectorCoordinates' = Append(projectorCoordinates, p)
          /\ isProjectorCalibrated' = Complete(Len(projectorCoordinates'))
          /\ Len(projectorCoordinates) < 4
      BY <1>2 DEF Click, Missing
    <3>2. IsClicks(projectorCoordinates)
      BY DEF TypeOK
    <3>3. IsClicks(projectorCoordinates') /\ (Complete(Len(projectorCoordinates')) <=> Len(projectorCoordinates') = 4)
      BY <3>1, <3>2, OneMoreClick
    <3>4. Complete(Len(projectorCoordinates')) \in BOOLEAN
      BY DEF Complete
    <3> QED
      BY <3>1, <3>3, <3>4
  <2>2. UNCHANGED <<cameraCoordinates, isCameraCalibrated, hasTerminated, homography,
                    isFinished, requested, touchVars>>
    BY <1>2 DEF Click
  <2>3. TypeOK'
    BY <2>1, <2>2 DEF TypeOK, IsClicks, touchVars, Images
  <2> QED
    BY <1>1, <2>1, <2>2, <2>3 DEF FlagsCount, MatricesOfClicks
<1>3. CASE ~Missing(Len(projectorCoordinates))
  <2>1. /\ IsClicks(cameraCoordinates')
        /\ isCameraCalibrated' <=> Len(cameraCoordinates') = 4
        /\ isCameraCalibrated' \in BOOLEAN
    <3>1. /\ cameraCoordinates' = Append(cameraCoordinates, p)
          /\ isCameraCalibrated' = Complete(Len(cameraCoordinates'))
          /\ Len(cameraCoordinates) < 4
      BY <1>3 DEF Click, Missing
    <3>2. IsClicks(cameraCoordinates)
      BY DEF TypeOK
    <3>3. IsClicks(cameraCoordinates') /\ (Complete(Len(cameraCoordinates')) <=> Len(cameraCoordinates') = 4)
      BY <3>1, <3>2, OneMoreClick
    <3>4. Complete(Len(cameraCoordinates')) \in BOOLEAN
      BY DEF Complete
    <3> QED
      BY <3>1, <3>3, <3>4
  <2>2. UNCHANGED <<projectorCoordinates, isProjectorCalibrated, hasTerminated, homography,
                    isFinished, requested, touchVars>>
    BY <1>3 DEF Click
  <2>3. TypeOK'
    BY <2>1, <2>2 DEF TypeOK, IsClicks, touchVars, Images
  <2> QED
    BY <1>1, <2>1, <2>2, <2>3 DEF FlagsCount, MatricesOfClicks
<1> QED
  BY <1>2, <1>3

LEMMA WizardLoopKeepsInv ==
    ASSUME WizardInv, NEW quit \in BOOLEAN, NEW s \in Scene, WizardLoop(quit, s)
    PROVE  WizardInv'
<1> USE DEF WizardInv
<1>1. depthImage' \in Images /\ isFinished' \in BOOLEAN /\ requested' = FALSE
  BY ImagesOfScenes DEF WizardLoop
<1>2. UNCHANGED <<projectorCoordinates, isProjectorCalibrated, cameraCoordinates,
                  isCameraCalibrated, isTouchCalibrated, calibrationImage, isTouching>>
  BY DEF WizardLoop
<1>3. FlagsCount'
  BY <1>2 DEF FlagsCount
<1>4. CASE BothCalibrated
  <2>1. /\ homography' = [projector |-> projectorCoordinates, camera |-> cameraCoordinates]
        /\ hasTerminated' = TRUE
    BY <1>4 DEF WizardLoop
  <2>2. TypeOK'
    BY <1>1, <1>2, <2>1 DEF TypeOK, IsClicks, Images
  <2>3. MatricesOfClicks'
    BY <1>2, <1>4, <2>1 DEF MatricesOfClicks, BothCalibrated, FlagsCount
  <2> QED
    BY <1>1, <1>3, <2>2, <2>3
<1>5. CASE ~BothCalibrated
  <2>1. UNCHANGED <<homography, hasTerminated>>
    BY <1>5 DEF WizardLoop
  <2>2. TypeOK'
    BY <1>1, <1>2, <2>1 DEF TypeOK, IsClicks, Images
  <2> QED
    BY <1>1, <1>2, <1>3, <2>1, <2>2 DEF MatricesOfClicks
<1> QED
  BY <1>4, <1>5

\* The loop behind the wizard leaves all of the wizard alone.
LEMMA TouchKeepsInv ==
    ASSUME WizardInv, UNCHANGED wizardVars, isFinished' \in BOOLEAN,
           calibrationImage' \in Images, depthImage' \in Images,
           isTouching' \in BOOLEAN, isTouchCalibrated' \in BOOLEAN,
           requested' \in BOOLEAN, hasTerminated
    PROVE  WizardInv'
<1>1. TypeOK'
  BY DEF WizardInv, TypeOK, wizardVars, IsClicks, Images
<1>2. FlagsCount' /\ MatricesOfClicks'
  BY DEF WizardInv, FlagsCount, MatricesOfClicks, wizardVars
<1> QED
  BY <1>1, <1>2 DEF WizardInv, wizardVars

LEMMA NextKeepsInv == WizardInv /\ [Next]_vars => WizardInv'
<1> SUFFICES ASSUME WizardInv, [Next]_vars PROVE WizardInv'
  OBVIOUS
<1>0. calibrationImage \in Images /\ isFinished \in BOOLEAN
  BY DEF WizardInv, TypeOK
<1>1. ASSUME NEW p \in Point, Click(p) PROVE WizardInv'
  BY <1>1, ClickKeepsInv
<1>2. CASE Wizard
  BY <1>2, WizardLoopKeepsInv DEF Wizard
<1>3. ASSUME NEW s \in Scene, NEW s2 \in Scene, FrameLoop(s, s2) PROVE WizardInv'
  <2>1. UNCHANGED <<wizardVars, isFinished>> /\ hasTerminated
    BY <1>3 DEF FrameLoop
  <2>2. CASE isTouchCalibrated
    BY <1>0, <1>3, <2>1, <2>2, ImagesOfScenes, DetectKeepsTypes, TouchKeepsInv DEF FrameLoop
  <2>3. CASE ~isTouchCalibrated
    BY <1>0, <1>3, <2>1, <2>3, ImagesOfScenes, DetectKeepsTypes, TouchKeepsInv DEF FrameLoop
  <2> QED
    BY <2>2, <2>3
<1>4. ASSUME NEW s \in Scene, NEW s2 \in Scene, CalibrateLoop(s, s2) PROVE WizardInv'
  <2>1. UNCHANGED <<wizardVars, isFinished>> /\ hasTerminated
    BY <1>4 DEF CalibrateLoop
  <2> QED
    BY <1>0, <1>4, <2>1, ImagesOfScenes, DetectKeepsTypes, TouchKeepsInv DEF CalibrateLoop
<1>5. CASE QuitLoop
  BY <1>5, TouchKeepsInv DEF QuitLoop, touchVars, WizardInv, TypeOK
<1>6. CASE UNCHANGED vars
  BY <1>6 DEF vars, wizardVars, touchVars, WizardInv, TypeOK, FlagsCount, MatricesOfClicks,
              IsClicks, Images
<1> QED
  BY <1>1, <1>2, <1>3, <1>4, <1>5, <1>6 DEF Next

LEMMA WizardInvariant == Spec => []WizardInv
<1> QED
  BY InitInv, NextKeepsInv, PTL DEF Spec

-----------------------------------------------------------------------------

\* At most four points are kept of each view, and every image is one of the
\* few that the loop can produce: never one amplified three times.
THEOREM TypeCorrect == Spec => []TypeOK
<1>1. WizardInv => TypeOK
  BY DEF WizardInv
<1> QED
  BY <1>1, WizardInvariant, PTL

\* processFrame, with any number of points to click on: the homographies of a
\* processed frame are those of the eight clicks.
THEOREM FramesCalibrated == Spec => []FramesHaveHomography
<1>1. WizardInv => FramesHaveHomography
  BY DEF WizardInv, MatricesOfClicks, FramesHaveHomography
<1> QED
  BY <1>1, WizardInvariant, PTL

\* The background that detectTouch compares with: the scene of some earlier
\* frame, amplified once, or what the constructor left in memory.
BackgroundInv ==
    isTouchCalibrated => \/ calibrationImage.amplified = 1
                         \/ calibrationImage.scene = Garbage

LEMMA NextKeepsBackground ==
    ASSUME WizardInv, BackgroundInv, [Next]_vars
    PROVE  BackgroundInv'
<1>1. ASSUME NEW s \in Scene PROVE CalibrateTouch(s).amplified = 1
  BY DEF CalibrateTouch, Amplify, Image
<1>2. ASSUME NEW p \in Point, Click(p) PROVE BackgroundInv'
  BY <1>2 DEF Click, touchVars, BackgroundInv
<1>3. CASE Wizard
  BY <1>3 DEF Wizard, WizardLoop, BackgroundInv
<1>4. ASSUME NEW s \in Scene, NEW s2 \in Scene, FrameLoop(s, s2) PROVE BackgroundInv'
  BY <1>1, <1>4 DEF FrameLoop, Detect, BackgroundInv
<1>5. ASSUME NEW s \in Scene, NEW s2 \in Scene, CalibrateLoop(s, s2) PROVE BackgroundInv'
  BY <1>1, <1>5 DEF CalibrateLoop, Detect, BackgroundInv
<1>6. CASE QuitLoop
  BY <1>6 DEF QuitLoop, touchVars, BackgroundInv
<1>7. CASE UNCHANGED vars
  BY <1>7 DEF vars, touchVars, BackgroundInv
<1> QED
  BY <1>2, <1>3, <1>4, <1>5, <1>6, <1>7 DEF Next

\* Two images of one scene, each amplified once, do not differ.
LEMMA SameSceneNoTouch ==
    ASSUME NEW s \in Scene, NEW background \in Images, Detect(Image(s), background),
           background.amplified = 1 \/ background.scene = Garbage,
           depthImage'.scene = calibrationImage'.scene
    PROVE  ~isTouching'
<1>1. depthImage' = [scene |-> s, amplified |-> 1]
  BY DEF Detect, Image, Amplify
<1>2. calibrationImage' = background
  BY DEF Detect
<1>3. background.amplified = 1
  BY <1>1, <1>2, SceneAssumption
<1>4. background = [scene |-> s, amplified |-> 1]
  BY <1>1, <1>2, <1>3 DEF Images
<1> QED
  BY <1>1, <1>2, <1>4 DEF Detect

\* detectTouch behind calibrateTouch: a frame that shows what was calibrated
\* is no touch, whatever the background was before.  Uninitialised memory is
\* no scene (SceneAssumption).
THEOREM StillFloor == Spec => StillFloorUntouched
<1> DEFINE Still == requested' /\ isTouchCalibrated /\ depthImage'.scene = calibrationImage'.scene
                    => ~isTouching'
<1>1. Init => BackgroundInv
  BY DEF Init, Image, BackgroundInv
<1>2. ASSUME WizardInv, BackgroundInv, [Next]_vars PROVE [Still]_vars
  <2> SUFFICES ASSUME ~UNCHANGED vars, requested', isTouchCalibrated,
                      depthImage'.scene = calibrationImage'.scene
               PROVE  ~isTouching'
    OBVIOUS
  <2>1. ASSUME NEW p \in Point, Click(p) PROVE FALSE
    <3>1. ~hasTerminated
      <4>1. Len(projectorCoordinates) < 4 \/ Len(cameraCoordinates) < 4
        BY <2>1 DEF Click, Missing
      <4>2. ~(Len(projectorCoordinates) = 4 /\ Len(cameraCoordinates) = 4)
        BY <4>1
      <4> QED
        BY <1>2, <4>2, Zenon DEF WizardInv, MatricesOfClicks
    <3>2. ~requested
      BY <1>2, <3>1 DEF WizardInv
    <3> QED
      BY <2>1, <3>2 DEF Click
  <2>2. CASE Wizard
    BY <2>2 DEF Wizard, WizardLoop
  <2>3. ASSUME NEW s \in Scene, NEW s2 \in Scene, FrameLoop(s, s2) PROVE ~isTouching'
    <3>1. Detect(Image(s), calibrationImage)
      BY <2>3 DEF FrameLoop
    <3>2. calibrationImage \in Images
      BY <1>2 DEF WizardInv, TypeOK
    <3> QED
      BY <1>2, <3>1, <3>2, SameSceneNoTouch DEF BackgroundInv
  <2>4. ASSUME NEW s \in Scene, NEW s2 \in Scene, CalibrateLoop(s, s2) PROVE ~isTouching'
    <3>1. Detect(Image(s2), CalibrateTouch(s))
      BY <2>4 DEF CalibrateLoop
    <3>2. CalibrateTouch(s) \in Images
      BY ImagesOfScenes
    <3>3. CalibrateTouch(s).amplified = 1
      BY DEF CalibrateTouch, Amplify, Image
    <3> QED
      BY <3>1, <3>2, <3>3, SameSceneNoTouch
  <2>5. CASE QuitLoop
    BY <2>5 DEF QuitLoop
  <2> QED
    BY <1>2, <2>1, <2>2, <2>3, <2>4, <2>5 DEF Next
<1> QED
  BY <1>1, <1>2, NextKeepsBackground, WizardInvariant, PTL DEF Spec, StillFloorUntouched
=============================================================================
