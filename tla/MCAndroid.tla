------------------------------ MODULE MCAndroid ------------------------------
(* What the scripts for Android's sources meet in the bounded instances *)
EXTENDS Naturals, Sequences, TLC

(* Checkouts, policies and legal manifests of the corresponding source *)

CONSTANTS a1, a2, n1, n2   \* contents of the contrib archive and of the NDK source

\* Two trees of KMediaVlc: the tested one, and one that asks for another VLC.
Pinned == <<"vlc">>
Targets == <<"arm64">>
Archives == <<"zlib">>
Trees == [s \in {"kmediavlc", "vlc"} |-> IF s = "vlc" THEN {"vlc1", "vlc2"} ELSE {"k1", "k2"}]
PathsOf == [r \in {"k1", "k2", "vlc1", "vlc2"} |-> {"recipe"}]
EpochOf == [r \in {"k1", "k2"} |-> 0]
Policy(vlc) ==
  [closed |-> TRUE, staticVlc |-> vlc, pin |-> ("vlc" :> vlc), recipe |-> ("vlc" :> vlc),
   components |-> ("z" :> {"zlib"}),
   required |-> [s \in {"kmediavlc", "vlc"} |-> IF vlc = "vlc1" THEN {"recipe"} ELSE {}]]
PolicyOf == [r \in {"k1", "k2"} |-> IF r = "k1" THEN Policy("vlc1") ELSE Policy("vlc2")]

\* The audits and legal manifests that the two trees and the two contents of
\* the contrib archive call for.
Audit(tree) ==
  [closed |-> TRUE, target |-> "arm64", static |-> tree, pin |-> PolicyOf[tree].pin]
Legal(tree, archive, status, effective) ==
  [closed |-> TRUE, vlc |-> PolicyOf[tree].staticVlc, static |-> tree, status |-> status,
   effective |-> effective, scan |-> TRUE,
   audits |-> <<[target |-> "arm64", report |-> Audit(tree)]>>,
   sources |-> ("z" :> {[name |-> "zlib", sha256 |-> archive]})]
Candidates ==
  ("zlib" :> {a1, a2}) @@ ("ndk" :> {n1, n2}) @@ ("arm64" :> {Audit("k1"), Audit("k2")})
  @@ ("legal" :> {Legal("k1", a1, "scanned", "spdx"), Legal("k1", a2, "scanned", "spdx"),
             Legal("k1", a2, "pending", "none"),
             Legal("k1", a1, "approved", "blank"), Legal("k1", a1, "approved", "none")})

-----------------------------------------------------------------------------
(* The tree and the policies of the NDK's source *)

CONSTANT Link   \* an entry that is not a regular file

Build == <<"build", "do_build">>
Unwind == <<"project", "libunwind", "src">>
Runtime == <<"project", "compiler-rt", "lib">>
Lldb == <<"project", "lldb", "api">>

Tree ==
  [b1 |-> Build :> "x1",
   l1 |-> (Unwind :> "x1") @@ (Runtime :> "x1") @@ (Lldb :> Link),
   l2 |-> (Unwind :> "x2") @@ (Runtime :> "x1"),
   l3 |-> (Runtime :> "x1")]

NdkPolicy(selected, mapped, l) ==
  [revision |-> [build |-> "b1", project |-> l], required |-> {Build, Unwind},
   selected |-> {<<"build">>} \cup selected, mapped |-> mapped]
Policies ==
  {NdkPolicy({<<"project", "libunwind">>, <<"project", "compiler-rt">>}, {Runtime}, "l1"),
   NdkPolicy({<<"project", "libunwind">>}, {Unwind}, "l1"),
   NdkPolicy({<<"project", "libunwind">>}, {Runtime}, "l1"),
   NdkPolicy({<<"project">>}, {Runtime}, "l1"),
   NdkPolicy({<<"project", "libunwind">>, <<"project", "compiler-rt">>}, {Runtime}, "l3")}
SourceIds == <<"build", "project">>
=============================================================================
