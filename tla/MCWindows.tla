------------------------------ MODULE MCWindows ------------------------------
(* What the Windows scripts of the bounded instances meet *)
EXTENDS Naturals, Sequences, TLC

(* The policies and install trees of the stager *)

Dll(build, at) == [build |-> build, at |-> at]

Policies ==
  {[closed |-> closed, status |-> status, binaryStatus |-> "approved",
    modules |-> modules, additional |-> {}, coreLicenses |-> {"MIT"},
    binaryCoreLicenses |-> licenses, support |-> <<>>] :
     closed \in BOOLEAN, modules \in {{"avcodec"}, {"avcodec", "direct3d11"}}, status \in {"approved", "candidate"},
     licenses \in {{"MIT"}, {}}}

Builds == {Dll(2, {"codec"}), Dll(2, {"codec", "old"})}
Files == {"libvlc", "core", "bridge", "avcodec", "direct3d11", "skins2"}
Installs == {[f \in Files \ {missing} |-> Dll(1, {"codec"})] : missing \in Files}

-----------------------------------------------------------------------------
(* The policies, candidates and archives of the packager *)

Policy(status, image, components) ==
  [closed |-> TRUE, status |-> status, image |-> image, components |-> components]
Zlib == ("zlib" :> [source |-> "zlib.tar", license |-> "Zlib"])
Freetype == ("freetype" :> [source |-> "freetype.tar", license |-> "FTL"])

PolicySets ==
  {("windows" :> p) : p \in {Policy("approved", "llvm", Zlib), Policy("approved", "llvm", Zlib @@ Freetype),
                             Policy("pending", "llvm", Zlib), Policy("approved", "gcc", Zlib)}}

Candidate(sums, zlib) ==
  ("BUILD-TOOLCHAIN.txt" :> "t") @@ ("TOOLCHAIN-STATIC-ARCHIVES-SHA256SUMS" :> sums)
  @@ ("kmediavlc" :> "k") @@ ("toolchain-licenses" :> "l") @@ ("vlc/meson.build" :> "v") @@ ("vlc/src" :> "v")
  @@ ("zlib.tar" :> zlib) @@ ("other.tar" :> "o")
Full == Candidate("valid", "z1")
Candidates ==
  {[safe |-> TRUE, files |-> f] :
     f \in {Full, Candidate("invalid", "z1"), Candidate("valid", "z2"),
            [m \in DOMAIN Full \ {"toolchain-licenses"} |-> Full[m]], Full @@ ("freetype.tar" :> "f")}}
  \cup {[safe |-> FALSE, files |-> Full]}

\* Retained archives: one whose zlib is not what it says, and one for another
\* version.
Manifest(version, zlib) ==
  [target |-> "windows", version |-> version, status |-> "approved", image |-> "llvm",
   components |-> Zlib, hashes |-> ("zlib.tar" :> zlib)]
Retained ==
  {[m \in DOMAIN Full \ {"other.tar"} |-> Full[m]]
     @@ ("SELECTED-CONTRIB-SHA256SUMS" :> ("zlib.tar" :> z)) @@ ("SOURCE-MANIFEST.json" :> Manifest(n, z)) :
     z \in {"z1", "z2"}, n \in {1, 2}}
=============================================================================
