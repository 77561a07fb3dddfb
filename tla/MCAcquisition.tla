------------------------------ MODULE MCAcquisition ------------------------------
(* An instance of the parts documents come in by and are found by, for TLC:*)
(* blob 3 is rejected, blob 2 has no text.                                 *)
EXTENDS Acquisition, TLC

CONSTANTS d1, d2

(* The limits keep the proportions of the code's 512, 409, 1024 and 1228.  *)
LineWeights == [blank |-> 0, fence |-> 1, row |-> 2, item |-> 2, quote |-> 2, text |-> 2,
                long |-> 9, indent |-> 2, noise |-> 1, footer |-> 1]
(* The fifth and sixth token of a long line are one character: a cut below  *)
(* one heading divides it, a cut below the title alone does not.           *)
Characters == [t \in (1..4) \X (5..6) |-> t[1]]
Line(kind, level, text) == [kind |-> kind, level |-> level, text |-> text]
FileLines == {Line(k, 0, "") : k \in {"blank", "fence", "item", "text", "long", "footer"}}
         \cup {Line("heading", 1, "Doc"), Line("heading", 1, "***"), Line("heading", 2, "Part")}
==================================================================================
