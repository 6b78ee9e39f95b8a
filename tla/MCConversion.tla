----------------------------- MODULE MCConversion -----------------------------
(* RosbagConversion for TLC: two bags, regular but for a missing head image *)
(* and one key of the first that lacks a stretch.                           *)
EXTENDS RosbagConversion

CONSTANT End   \* last instant of a recording

All       == [i \in 1..End + 1 |-> i - 1]
Gap(i, j) == [n \in 1..End - (j - i) |-> IF n <= i THEN n - 1 ELSE n + (j - i)]
Regular   == [k \in Keys |-> All]
Without(k)   == {Regular} \cup {[Regular EXCEPT ![k] = Gap(r[1], r[2])] :
                                   r \in {r \in (0..End) \X (0..End) : r[1] <= r[2]}}
Recordings ==
    UNION {Without(k) : k \in {"wrist", "body", "pose", "arm"}}
    \cup {[s EXCEPT !["head"] = Gap(3, 3)] : s \in Without("wrist")}
    \cup {[s EXCEPT !["alt"] = <<>>] : s \in Without("arm")}
MCRawDirs == {<<first, second>> : first \in Recordings,
                                  second \in {Regular, [Regular EXCEPT !["body"] = <<>>]}}
=============================================================================
