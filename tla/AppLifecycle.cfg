\* A scene with 2 targets, 4 materials, 2 objects, 2 cameras and 2 stages;
\* three failures, of whatever steps, and two messages besides WM_QUIT.
SPECIFICATION Spec
CONSTANTS
  Targets <- MCTargets
  Materials <- MCMaterials
  Objects <- MCObjects
  Cameras <- MCCameras
  Stages <- MCStages
  OverlayFont = "arial24"
  OverlayMaterial = "ui"
  MainCamera = "scenecamera00"
  NoHeightmap = "no heightmap"
  NoLayering = "no layering"
  MaxFaults = 3
  MaxMessages = 2
INVARIANTS
  TypeOK
  Ownership
PROPERTY SceneIsShown
CHECK_DEADLOCK FALSE
