--------------------------- MODULE MCLinuxStaging ----------------------------
(* The policies and install trees of a bounded instance *)
EXTENDS Naturals, Sequences, TLC

\* One plugin that needs a support library, and one that does not.
Binary(name, needs, sound, glibc) ==
  [name |-> name, path |-> "/build", needs |-> needs, sound |-> sound, glibc |-> glibc]

Policies ==
  {[closed |-> TRUE, status |-> "approved", binaryStatus |-> status,
    modules |-> {"pulse", "avcodec"}, additional |-> {}, binaryAdditional |-> {},
    components |-> components, core |-> {"dav1d"},
    moduleComponents |-> ("avcodec" :> {"ffmpeg"}),
    support |-> ("vlc_pulse" :> {"pulse"}), system |-> {"libc"}, ceiling |-> <<2, 39>>] :
     status \in {"approved", "candidate"},
     components \in {{"dav1d", "ffmpeg"}, {"dav1d"}, {"dav1d", "ffmpeg", "x264"}}}

\* Install trees: any mix of needs that can go wrong, a missing plugin, an
\* unsound one, a plugin nobody selected.
Needs == {<<>>, <<"core">>, <<"core", "vlc_pulse">>, <<"core", "libc">>, <<"libc", "libx">>,
          <<"vlc_pulse">>, <<"core", "libvlc">>}
Base == ("core" :> Binary("core.0", <<"libc">>, TRUE, <<2, 38>>)) @@
        ("libvlc" :> Binary("libvlc.0", <<"core">>, TRUE, <<>>)) @@
        ("bridge" :> Binary("bridge", <<"libc">>, TRUE, <<>>))
Tree(support, pulse, avcodec) ==
  Base @@ ("vlc_pulse" :> support) @@ ("pulse" :> pulse) @@ ("avcodec" :> avcodec)
Support == Binary("vlc_pulse", <<"core", "libc">>, TRUE, <<2, 4>>)
Pulse == Binary("pulse", <<"core", "vlc_pulse">>, TRUE, <<>>)
Plain == Binary("avcodec", <<"core">>, TRUE, <<>>)
Installs ==
  {Tree(Support, Binary("pulse", m, TRUE, <<>>), Binary("avcodec", k, TRUE, <<>>)) :
     m \in Needs, k \in Needs}
  \cup {Tree([Support EXCEPT !.glibc = <<2, 39, 1>>], Pulse, Plain),
        Tree([Support EXCEPT !.needs = <<"libc">>], Pulse, Plain),
        Tree(Support, [Pulse EXCEPT !.sound = FALSE], Plain),
        Tree(Support, Pulse, Plain) @@ ("raw" :> Plain), Base}
=============================================================================
