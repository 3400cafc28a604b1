------------------------------ MODULE MCBundle -------------------------------
(* Instances of Bundle for TLC.  Somebody else's bundle writes a concept   *)
(* with a block and with a bare one, and has a file whose name evades the  *)
(* filter on the format's own but not its slug, such as _index.md.         *)
EXTENDS Bundle

Path(base, plain) == [slug |-> <<base, 1>>, plain |-> plain]
Block(tags, resource) ==
  [title |-> Absent, tags |-> tags, resource |-> resource, kind |-> Absent,
   extra |-> TRUE, there |-> TRUE]
Body(heading) == [text |-> "one", heading |-> heading]

TheUpstream ==
  { << [path |-> Path("a", TRUE), block |-> Block({{"x"}}, "r"), body |-> Body("A")],
       [path |-> Path("index", FALSE), block |-> NoBlock, body |-> Body(Absent)] >>,
    << [path |-> Path("a", FALSE), block |-> Block({}, Absent), body |-> Body(Absent)] >> }
TheTags == {{"x"}, {"y", "z"}}
=============================================================================
