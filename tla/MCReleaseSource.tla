-------------------------- MODULE MCReleaseSource ----------------------------
(* Policies, contrib sources and archives of a bounded instance *)
EXTENDS Naturals, Sequences, TLC

Zlib == ("zlib" :> [source |-> "zlib.tar", license |-> "Zlib"])
Xcb == ("xcb" :> [source |-> "xcb.tar", license |-> "MIT"])
Policy(components) ==
  [closed |-> TRUE, status |-> "pending", image |-> "llvm", components |-> components]
Set(windows, linux) ==
  ("windows" :> Policy(windows)) @@ ("linux" :> Policy(linux)) @@ ("ios" :> Policy(Zlib))
PolicySets == {Set(Zlib, Zlib @@ Xcb), Set(Zlib, Zlib), Set(Zlib, <<>>)}

Contribs == {("xcb.tar" :> "x1") @@ ("zlib.tar" :> "z1"), ("xcb.tar" :> "x1"), ("zlib.tar" :> "z2")}
Trees == ("kmediavlc" :> "k") @@ ("vlc" :> "v")

\* Archives put in the place of one: the right one for two sources, and with one
\* file more.
Archive ==
  Trees @@ ("zlib.tar" :> "z1") @@ ("SELECTED-CONTRIB-SHA256SUMS" :> ("zlib.tar" :> "z1"))
  @@ ("SOURCE-MANIFEST.json" :>
        [target |-> "desktop", version |-> 1, trees |-> 2, hashes |-> ("zlib.tar" :> "z1")])
Retained == {Archive, Archive @@ ("extra" :> "e")}
PoliciesOf == ("desktop" :> {"windows", "linux"}) @@ ("ios" :> {"ios"})
=============================================================================
