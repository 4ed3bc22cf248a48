---------------------------- MODULE StateManager ----------------------------
(***************************************************************************)
(* The states of the device: render, stage and sampler states, and the     *)
(* textures of its stages (EffectStateManager.cpp).                        *)
(*                                                                         *)
(* Effects set states through the manager while a pass begins, and set     *)
(* textures again when a material's parameters change between two objects  *)
(* of the pass (Material.cpp:104-110).  Effects save nothing themselves    *)
(* (EFFECT_RENDER_FLAGS): the manager notes what the device had before     *)
(* every change, and puts it back when the pass ends, so that a state no   *)
(* effect mentions is what the cameras asked for outside the passes        *)
(* (Camera.cpp:155-185).  To spare calls it does not set what its cache    *)
(* says the device has.                                                    *)
(*                                                                         *)
(* The device may refuse every call.  A refused Set is noted in the cache  *)
(* as if it had been done, and results of a restoring Set are not looked   *)
(* at.  Left out: shaders and constants, which are passed on as they come, *)
(* counters, and the references GetTexture adds and nobody gives back.     *)
(***************************************************************************)

CONSTANTS
  RenderStates,  \* states a pass of an effect sets once at most
  Textures,      \* the texture stages, which may be set again within a pass
  Values         \* what they may be set to

States == RenderStates \cup Textures

(* A state that is not in a map. *)
NotSet == CHOOSE n : n \notin Values

VARIABLES
  deviceStates,   \* what the device has
  globalStates,   \* m_oGlobalStates: the cache of it
  currentStates,  \* m_oCurrentStates: what the device had before changes
  inPass,         \* between BeginPass and EndPass
  asked,          \* history: what the effect asked for in this pass
  before,         \* history: what the device had when the pass began
  again,          \* history: states changed more than once in this pass
  outside,        \* history: what was asked for outside the passes
  refused,        \* history: states whose last call to the device was refused
  strayed         \* history: states that were not put back, or not set outside

statesVars == <<deviceStates, globalStates, currentStates, inPass, asked,
                before, again, outside, refused, strayed>>

Nothing == [s \in States |-> NotSet]

(* Display::OpenVideo has ended with a Reset. *)
StatesInit ==
  /\ deviceStates \in [States -> Values]
  /\ globalStates = Nothing
  /\ currentStates = Nothing
  /\ inPass = FALSE
  /\ asked = Nothing
  /\ before = deviceStates
  /\ again = {}
  /\ outside = deviceStates
  /\ refused = {}
  /\ strayed = {}

-----------------------------------------------------------------------------
(* States::SetRenderState and its three likes: nothing for what the cache  *)
(* has, else ask the device what it has, note that, and set it.            *)

Duplicate(s, v) == globalStates[s] = v

Skip(s, v) ==
  /\ Duplicate(s, v)
  /\ UNCHANGED <<deviceStates, globalStates, currentStates, again, refused>>

GetRefused(s, v) ==
  /\ ~Duplicate(s, v)
  /\ refused' = refused \cup {s}
  /\ UNCHANGED <<deviceStates, globalStates, currentStates, again>>

Noted(s, v) ==
  /\ ~Duplicate(s, v)
  /\ currentStates' = [currentStates EXCEPT ![s] = deviceStates[s]]
  /\ globalStates' = [globalStates EXCEPT ![s] = v]
  /\ again' = IF inPass /\ currentStates[s] # NotSet THEN again \cup {s}
                                                    ELSE again

SetRefused(s, v) ==
  /\ Noted(s, v)
  /\ refused' = refused \cup {s}
  /\ UNCHANGED deviceStates

SetDone(s, v) ==
  /\ Noted(s, v)
  /\ deviceStates' = [deviceStates EXCEPT ![s] = v]
  /\ refused' = refused \ {s}

(* A camera is used between two passes. *)
SetOutside(s, v) ==
  /\ ~inPass
  /\ \/ SetDone(s, v) /\ strayed' = strayed \ {s}
     \/ Skip(s, v) /\ strayed' = IF s \in refused THEN strayed \cup {s}
                                                  ELSE strayed \ {s}
     \/ (GetRefused(s, v) \/ SetRefused(s, v)) /\ strayed' = strayed \cup {s}
  /\ outside' = [outside EXCEPT ![s] = v]
  /\ UNCHANGED <<inPass, asked, before>>

BeginPass ==
  /\ ~inPass
  /\ inPass' = TRUE
  /\ currentStates' = Nothing
  /\ asked' = Nothing
  /\ before' = deviceStates
  /\ again' = {}
  /\ UNCHANGED <<deviceStates, globalStates, outside, refused, strayed>>

(* The effect's BeginPass, and CommitChanges for the textures. *)
SetInPass(s, v) ==
  /\ inPass
  /\ s \in RenderStates => asked[s] = NotSet
  /\ Skip(s, v) \/ GetRefused(s, v) \/ SetRefused(s, v) \/ SetDone(s, v)
  /\ asked' = [asked EXCEPT ![s] = v]
  /\ UNCHANGED <<inPass, before, outside, strayed>>

Saved == {s \in States : currentStates[s] # NotSet}

(* Everything noted in the pass is put back, or the device refuses. *)
EndPass ==
  /\ inPass
  /\ inPass' = FALSE
  /\ globalStates' = [s \in States |-> IF s \in Saved THEN currentStates[s]
                                                      ELSE globalStates[s]]
  /\ \E kept \in SUBSET Saved :
       /\ deviceStates' = [s \in States |->
                       IF s \in Saved \ kept THEN currentStates[s]
                                            ELSE deviceStates[s]]
       /\ refused' = (refused \ Saved) \cup kept
       /\ strayed' = strayed \cup kept
  /\ UNCHANGED <<currentStates, asked, before, again, outside>>

StatesNext ==
  \/ \E s \in RenderStates, v \in Values : SetOutside(s, v)
  \/ BeginPass
  \/ \E s \in States, v \in Values : SetInPass(s, v)
  \/ EndPass

StatesSpec == StatesInit /\ [][StatesNext]_statesVars

-----------------------------------------------------------------------------

Maps == [States -> Values \cup {NotSet}]

(* Every variable keeps to its type. *)
StatesTypeOK ==
  /\ deviceStates \in [States -> Values]
  /\ globalStates \in Maps
  /\ currentStates \in Maps
  /\ inPass \in BOOLEAN
  /\ asked \in Maps
  /\ before \in [States -> Values]
  /\ again \subseteq States
  /\ outside \in [States -> Values]
  /\ refused \subseteq States
  /\ strayed \subseteq States

(* What is drawn in a pass is drawn with what the effect asked for in that *)
(* pass, whatever the cache left out; and a state the pass does not        *)
(* mention is what was last asked for outside, whatever other passes did,  *)
(* unless the device refused to set it (SetRenderState, EndPass).          *)
PassDrawnAsAsked ==
  inPass => \A s \in States :
    /\ asked[s] # NotSet /\ s \notin refused => deviceStates[s] = asked[s]
    /\ asked[s] = NotSet /\ s \in RenderStates \ strayed =>
         deviceStates[s] = outside[s]

(* A pass leaves the device as it found it, textures included, but for     *)
(* what the pass changed twice, or the device refused to put back: of two  *)
(* changes the second one overwrites what the first one noted.             *)
PassRestores ==
  [][inPass /\ ~inPass' =>
       \A s \in States \ (again \cup refused') :
         deviceStates'[s] = before[s]]_statesVars
=============================================================================
