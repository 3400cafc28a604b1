----------------------------- MODULE MCChunker -------------------------------
(* Instances of Chunker for TLC: lines that fit a chunk, lines that do not, *)
(* with wide characters, both kinds of fence, and headings of two levels.   *)
EXTENDS Chunker

Line(kind, len, width, mark, run, level, title) ==
  [kind |-> kind, len |-> len, width |-> width, mark |-> mark, run |-> run,
   level |-> level, title |-> title]
Text(len, width) == Line("text", len, width, "none", 0, 0, "none")
Fence(mark, run) == Line("text", 3, 1, mark, run, 0, "none")
Heading(level, len, title) == Line("heading", len, 1, "none", 0, level, title)
TheLines ==
  { Text(2, 1), Text(10, 3), Line("blank", 1, 1, "none", 0, 0, "none"),
    Line("table", 3, 1, "none", 0, 0, "none"), Fence("tick", 3), Fence("tilde", 4),
    Heading(2, 2, "B"), Heading(3, 2, "C") }
=============================================================================
