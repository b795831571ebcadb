----------------------------- MODULE MCSseUsage ------------------------------
(* A small instance of SseUsage: every body of up to two lines and a remnant. *)
EXTENDS SseUsage

CONSTANTS MaxLine, MaxRemnant   \* bounds: the content of a line, and of a remnant

\* Two usages, one of which costs more than the counter holds.
MCCostOf == [u \in {"small", "huge"} |-> IF u = "small" THEN 1 ELSE NoCost]

LineOf == {[length |-> n, kind |-> k] : n \in 0..MaxLine, k \in Kinds}
            \ {[length |-> 0, kind |-> k] : k \in Kinds \ {"plain"}}

\* A remnant of length 0 is none.
BodyOf(lines, remnant) ==
    LET newlines == [i \in DOMAIN lines |->
                       IF i = 1 THEN lines[1].length + 1
                       ELSE lines[1].length + lines[2].length + 2]
        end      == IF lines = <<>> THEN 0 ELSE newlines[Len(newlines)]
        kinds    == [i \in DOMAIN lines |-> lines[i].kind]
    IN  [newlines |-> newlines,
         kinds    |-> IF remnant.length = 0 THEN kinds ELSE Append(kinds, remnant.kind),
         size     |-> end + remnant.length]

MCStreams ==
    {BodyOf(lines, remnant) :
       lines   \in UNION {[1..n -> LineOf] : n \in 0..2},
       remnant \in {[length |-> n, kind |-> k] : n \in 0..MaxRemnant, k \in {"plain", "small"}}}
==============================================================================
