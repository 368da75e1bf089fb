--------------------------- MODULE MCNativePayload ---------------------------
(* The stagings and reports from which a payload is made, right and wrong ones. *)
EXTENDS TLC

File(b) == [bytes |-> b]
Runtime(b) == "libvlc" :> File(b)
SumsOf(b) == "SHA256SUMS" :> [sums |-> Runtime(b)]
Stray == "stray" :> File("b1")

\* A file that was not staged, one that nobody selected, checksums of another build.
Stagings ==
  [t \in {"linux", "windows"} |->
     IF t = "linux" THEN {Runtime("b1"), Runtime("b1") @@ Stray, Stray}
     ELSE {Runtime("b1") @@ SumsOf("b1"), Runtime("b2") @@ SumsOf("b1"),
           Runtime("b1") @@ SumsOf("b1") @@ Stray, SumsOf("b1")}]
Reports ==
  [status : {"approved", "pending"}, files : {Runtime("b1"), Runtime("b2"), Runtime("b1") @@ Stray}]
Bytes == {File("b1"), File("b2")}
=============================================================================
