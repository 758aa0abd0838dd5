------------------------------ MODULE MCFleet -------------------------------
(* A small instance of FleetLifecycle for TLC: two databases, so that two  *)
(* managers reconcile the same object.                                     *)
EXTENDS FleetLifecycle

Plain == [image |-> "i1", tolerations |-> FALSE, charset |-> "", collation |-> ""]

\* Another pod template with a character set alone; tolerations with a
\* collation alone; both defaults.
MCSpecs == {Plain,
            [Plain EXCEPT !.image = "i2", !.charset = "utf8mb4"],
            [Plain EXCEPT !.tolerations = TRUE, !.collation = "latin1_bin"],
            [Plain EXCEPT !.charset = "utf8mb4", !.collation = "utf8mb4_bin"]}

MCDefaultCollation(cs) == IF cs = "utf8mb4" THEN "utf8mb4_0900_ai_ci" ELSE "latin1_swedish_ci"

MCCharsetOf(co) == IF co \in {"utf8mb4_0900_ai_ci", "utf8mb4_bin"} THEN "utf8mb4" ELSE "latin1"

Body(as, r) == [as |-> as, returns |-> r]

\* Bounds by kind: three changes let an object be deleted and created again.
MCMaxChanges(k) == IF k = "function" THEN 2 ELSE 3

MCMaxFaults(k) == IF k = "database" THEN 0 ELSE 1

\* The second function body returns another type under the same text.
MCBodiesOf(k) ==
    CASE k = "function" -> {Body("a1", "int"), Body("a1", "text"), Body("a2", "int")}
      [] k = "extension" -> {Body("1.0", "")}
      [] k = "view" -> {Body("a1", ""), Body("deleted", "")}
      [] OTHER -> {}
=============================================================================
