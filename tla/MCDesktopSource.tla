-------------------------- MODULE MCDesktopSource ----------------------------
(* Policies, contrib sources and archives of a bounded instance *)
EXTENDS Naturals, Sequences, TLC

Zlib == ("zlib" :> [source |-> "zlib.tar", license |-> "Zlib"])
Freetype(license) == ("freetype" :> [source |-> "freetype.tar", license |-> license])
Policy(status, components) ==
  [closed |-> TRUE, status |-> status, image |-> "llvm", components |-> components]
Set(linux) == ("windows" :> Policy("approved", Zlib @@ Freetype("FTL"))) @@ ("linux" :> linux)

\* Linux needs one source more, and what may be wrong with its policy.
Xcb == ("xcb" :> [source |-> "xcb.tar", license |-> "MIT"])
PolicySets == {Set(Policy("approved", Zlib @@ Xcb)), Set(Policy("pending", Zlib @@ Xcb)),
                 Set(Policy("approved", Xcb @@ Freetype("GPL")))}

\* A directory lacks a source, or has another zlib than the base.
Contribs == {("xcb.tar" :> "x1") @@ ("zlib.tar" :> "z1"), ("xcb.tar" :> "x2"), ("zlib.tar" :> "z2")}

\* The base: with or without the rest of VLC's tree, without what is asked for,
\* or with another zlib.
Base(zlib) ==
  ("BUILD-TOOLCHAIN.txt" :> "t") @@ ("TOOLCHAIN-STATIC-ARCHIVES-SHA256SUMS" :> "valid")
  @@ ("kmediavlc" :> "k") @@ ("toolchain-licenses" :> "l") @@ ("vlc/meson.build" :> "v")
  @@ ("vlc/src" :> "v") @@ ("zlib.tar" :> zlib) @@ ("freetype.tar" :> "f")
  @@ ("SELECTED-CONTRIB-SHA256SUMS" :> [a \in {"zlib.tar", "freetype.tar"} |-> IF a = "zlib.tar" THEN zlib ELSE "f"])
  @@ ("SOURCE-MANIFEST.json" :>
        [target |-> "windows", version |-> 1, status |-> "approved", image |-> "llvm",
         components |-> Zlib @@ Freetype("FTL"),
         hashes |-> [a \in {"zlib.tar", "freetype.tar"} |-> IF a = "zlib.tar" THEN zlib ELSE "f"]])
Retained == {Base("z1"), Base("z2"), [m \in DOMAIN Base("z1") \ {"BUILD-TOOLCHAIN.txt"} |-> Base("z1")[m]]}
=============================================================================
