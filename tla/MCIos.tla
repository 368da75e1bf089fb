-------------------------------- MODULE MCIos --------------------------------
(* What the iOS scripts of the bounded instances meet *)
EXTENDS Naturals, Sequences, Functions, TLC

(* The policies and install trees of the stager *)

Binary(name, needs, sound) == [name |-> name, needs |-> needs, sound |-> sound]

Policies ==
  {[closed |-> TRUE, status |-> status, binaryStatus |-> "approved", modules |-> modules,
    additional |-> {}, buildOnly |-> {}, components |-> {"dav1d"} \cup more,
    core |-> {"dav1d"}, moduleComponents |-> <<>>, support |-> <<>>] :
     status \in {"approved", "candidate"}, modules \in {{"avcodec"}, {"vout"}}, more \in {{}, {"x264"}}}

Core == "@rpath/libvlccore.dylib"
Needs == {<<>>, <<Core>>, <<Core, Core>>, <<Core, "/usr/lib/libz">>, <<Core, "/opt/libx">>,
          <<Core, "@rpath/libvlc.dylib">>, <<"core">>}
Installs ==
  {("core" :> Binary(Core, <<"/usr/lib/libz">>, sound)) @@
   ("libvlc" :> Binary("libvlc", <<Core>>, TRUE)) @@
   ("bridge" :> Binary("bridge", <<"/usr/lib/libz">>, TRUE)) @@
   ("avcodec" :> Binary("avcodec", n, TRUE)) @@ ("vout" :> Binary("vout", <<"core">>, TRUE)) :
     n \in Needs, sound \in BOOLEAN}

-----------------------------------------------------------------------------
(* The slices, reports and repositories of the assembler *)

Targets == <<"ios-arm64", "ios-simulator-arm64">>
Framework(build, target) == [binary |-> [build |-> build, target |-> target], headers |-> build]

SliceOf(build, t, modules) == [f \in {"core"} \cup modules |-> Framework(build, t)]
Slices == {SliceOf(n, t, {"avcodec"}) : n \in {1, 2}, t \in Range(Targets)}
ReportOf(n, t, status, modules) ==
  [target |-> t, status |-> status, components |-> {"dav1d"}, records |-> SliceOf(n, t, modules)]
Reports ==
  {ReportOf(1, t, status, {"avcodec"}) : t \in Range(Targets), status \in {"approved", "pending"}}
  \cup {ReportOf(2, t, "approved", {"avcodec"}) : t \in Range(Targets)}
Root(modules, status, licenses) ==
  [policy |-> [modules |-> modules, status |-> status, components |-> {"dav1d"}],
   recipes |-> 1, licenses |-> licenses]
Roots ==
  {Root({"avcodec"}, "approved", 1), Root({"avcodec"}, "pending", 1), Root({"vout"}, "approved", 1),
   Root({"avcodec"}, "approved", 2)}
=============================================================================
