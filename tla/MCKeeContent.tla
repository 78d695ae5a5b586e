----------------------------- MODULE MCKeeContent -----------------------------
(* KeeContent with messages around the size of the buffer. *)
EXTENDS KeeContent

CONSTANT MaxLength     \* of a file

Messages ==
  {m \in [length : 0 .. MaxLength, head : 1 .. 4, subject : 1 .. 4] :
     m.subject <= m.head /\ (m.length = 0 \/ m.head + m.subject <= m.length)}
=============================================================================
