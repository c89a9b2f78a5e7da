----------------------------- MODULE MCConfigApply -----------------------------
(* Small instances of ConfigApply: revision r1 has two xray targets and one   *)
(* AWG target, r2 the same xray targets in the other order behind one that    *)
(* does not parse, r3 none; r4 passes -test and does not start, r5 fails it.  *)
EXTENDS ConfigApply
CONSTANTS r1, r2, r3, r4, r5, empty, t1, t2, t3, bad
MCRevisions == {r1, r2, r3, r4, r5}
MCLinks == [d \in MCRevisions \cup {empty} |->
    CASE d = r1 -> <<t1, t2>> [] d = r2 -> <<bad, t2, t1>> [] d = r4 -> <<t2>>
      [] d = r5 -> <<t1>> [] OTHER -> <<>>]
MCConfs == [d \in MCRevisions \cup {empty} |-> IF d \in {r1, r3} THEN {t3} ELSE {}]
MCBad   == {bad}
MCFate  == [d \in MCRevisions \cup {empty} |->
    CASE d = r4 -> "unstartable" [] d = r5 -> "untestable" [] OTHER -> "fine"]
================================================================================
