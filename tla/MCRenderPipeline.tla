------------------------- MODULE MCRenderPipeline --------------------------
(* The scene of Data/Scenes/SceneTest00.lua, the same with the post         *)
(* processes it lists in comments, and the other forms a stage may have.    *)
EXTENDS RenderPipeline

Entry(i) == [rt |-> i, texture |-> NULL]
Into(i, n) == [rt |-> i, texture |-> Texture(n)]
Normal(name, targets, clear) ==
  [name |-> name, targets |-> targets, clear |-> clear, immediate |-> FALSE, reads |-> {}]
Post(name, immediate, reads, targets) ==
  [name |-> name, targets |-> targets, clear |-> FALSE, immediate |-> immediate, reads |-> reads]

Color == <<"RT", 0>>
Position == <<"RT", 1>>
Scene == <<"ORT", 0>>

Reflection == Normal("reflection", <<Into(0, "rt_reflection1")>>, TRUE)
Base == Normal("base", <<Entry(0), Entry(1), Entry(2)>>, TRUE)
UI == Normal("ui", <<>>, FALSE)
Water == Post("water", TRUE, {Color, Position}, <<>>)
Monochrome == Post("monochrome", FALSE, {Color}, <<>>)
Inverted == Post("inverse", FALSE, {Color}, <<>>)
DofCombine == Post("dofcombine", FALSE, {Color, Scene}, <<>>)
IntoTexture == Post("glow", FALSE, {Color}, <<Into(0, "rt_reflection1")>>)

Stage1(normal, post) == [normal |-> normal, post |-> post]
UIStage == Stage1(<<UI>>, <<>>)

MCScenes == {
  <<Stage1(<<Reflection, Base>>, <<Water>>), UIStage>>,
  <<Stage1(<<Reflection, Base>>, <<Monochrome, Inverted>>)>>,
  <<Stage1(<<Base>>, <<Monochrome, Water>>), UIStage>>,
  <<Stage1(<<Base>>, <<Monochrome, DofCombine>>)>>,
  <<Stage1(<<Reflection, Base>>, <<Monochrome, Inverted, DofCombine, Monochrome>>)>>,
  <<Stage1(<<>>, <<Monochrome>>)>>,
  <<Stage1(<<Base>>, <<IntoTexture, [Inverted EXCEPT !.targets = <<Entry(0)>>]>>)>>,
  <<Stage1(<<Normal("bare", <<Entry(0)>>, FALSE)>>, <<>>)>>
}

MCObjects == {"chunk", "dummy", "sky"}
MCRequests == {<<>>, <<"chunk">>, <<"sky">>, <<"chunk", "dummy">>, <<"sky", "chunk", "dummy", "dummy">>,
               <<"dummy", "sky", "chunk", "sky">>}
MCMaterial == [chunk |-> "terrain", dummy |-> "geomhelper", sky |-> "skymaterial"]
MCEffect == [terrain |-> "terrain.fx", geomhelper |-> "helper.fx", skymaterial |-> "helper.fx"]
MCPassCount == [terrain |-> 1, geomhelper |-> 2, skymaterial |-> 1]
=============================================================================
