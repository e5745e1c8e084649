--------------------------- MODULE MCPublishing ---------------------------
\* Uploads of three notebooks: two that differ in the points of one question and in
\* having another, one without questions; and one that names the reserved question,
\* one whose student copy leaks.
EXTENDS Publishing

Manual(n) == [max |-> n, manual |-> n]
Auto(n) == [max |-> n, manual |-> 0]
Marks(m) == [marks |-> m, leaks |-> FALSE]

Uploads ==
  { Marks([q \in {"q1"} |-> Manual(2)]),
    Marks([q \in {"q1", "q2"} |-> IF q = "q1" THEN Manual(1) ELSE Auto(1)]),
    Marks(<<>>) }

MoreUploads ==
  Uploads \cup { Marks([q \in {"notebook"} |-> Manual(1)]),
                 [marks |-> [q \in {"q1"} |-> Manual(2)], leaks |-> TRUE] }
=============================================================================
