---------------------------- MODULE MCMacStaging -----------------------------
(* The policies and install trees of a bounded instance *)
EXTENDS Naturals, Sequences, TLC

Binary(name, needs, sound) == [name |-> name, needs |-> needs, sound |-> sound]

Policies ==
  {[closed |-> TRUE, status |-> "approved", binaryStatus |-> status,
    modules |-> modules, additional |-> {},
    components |-> {"dav1d", "jinja"} \cup more, core |-> {"dav1d"}, buildOnly |-> {"jinja"},
    moduleComponents |-> IF "avcodec" \in modules THEN ("avcodec" :> {"ffmpeg"}) ELSE <<>>,
    support |-> <<>>] :
     status \in {"approved", "candidate"}, modules \in {{"avcodec"}, {"vout"}, {"avcodec", "vout"}},
     more \in {{}, {"ffmpeg"}}}

\* The names a file of the build may need, twice in the worst case.
Libs == {"@rpath/core", "@rpath/libvlc", "/usr/lib/libz", "@loader_path/core"}
Needs == {<<>>} \cup {<<n>> : n \in Libs} \cup {<<"@rpath/core", m>> : m \in Libs}
Installs ==
  {("core" :> Binary("@rpath/core", <<"/usr/lib/libz">>, TRUE)) @@
   ("libvlc" :> Binary("@rpath/libvlc", l, TRUE)) @@
   ("bridge" :> Binary("bridge", <<"/usr/lib/libz">>, TRUE)) @@
   ("avcodec" :> Binary("avcodec", n, TRUE)) @@ rest :
     l \in {<<"@rpath/core">>, <<"@rpath/core", "@rpath/libvlc">>}, n \in Needs,
     rest \in {<<>>, "skins2" :> Binary("skins2", <<"@rpath/core">>, TRUE),
               "vout" :> Binary("vout", <<"@rpath/core">>, TRUE)}}
  \cup {[f \in {"core", "libvlc", "bridge", "avcodec", "vout"} |->
           Binary(f, IF f \in {"avcodec", "vout", "libvlc"} THEN <<"@rpath/core">> ELSE <<>>, s)] : s \in BOOLEAN}
=============================================================================
