--------------------------- MODULE MCAppLifecycle ---------------------------
(* A scene in the shape of Data/Scenes/SceneTest00.lua, smaller. *)
EXTENDS AppLifecycle

MCTargets == <<"rt_reflection1", "rt_reflection2">>
MCMaterials == <<"terrain05", "waterpost02", "ui", "sky">>
MCObjects == <<[name |-> "ground00", material |-> "terrain05",
                heightmap |-> "land02", layering |-> "layers00"],
               [name |-> "sky00", material |-> "sky",
                heightmap |-> "no heightmap", layering |-> "no layering"]>>
MCCameras == <<"scenecamera00", "uicamera00">>
MCStages == <<[name |-> "scene", posts |-> {"waterpost02"}],
              [name |-> "ui", posts |-> {}]>>
=============================================================================
