\* Three render targets, one texture, three objects on three materials of two effects,
\* and eight scenes. A scene that finds nothing to copy stops the program.
CONSTANTS
  Count = 3
  Textures = {"rt_reflection1"}
  Scenes <- MCScenes
  Objects <- MCObjects
  Requests <- MCRequests
  Material <- MCMaterial
  Effect <- MCEffect
  PassCount <- MCPassCount
SPECIFICATION Spec
INVARIANTS TypeOK FrameShown EachObjectOnce ReferencesGivenBack
CHECK_DEADLOCK FALSE
