----------------------------- MODULE MCPrograms -----------------------------
(* A host, two devices for journals of which one is a plain file, a target *)
(* of copies, and what users may ask of every program.                     *)
EXTENDS Programs

Dev(name) == [dev |-> name, size |-> Bad, relative |-> FALSE]
Num(n) == [dev |-> "", size |-> n, relative |-> FALSE]
Line(prog, options, rest) == [prog |-> prog, options |-> options, rest |-> rest]

MCDevices == {"host", "j1", "j2", "file"}
MCSpecial == {"host", "j1", "j2"}
MCBlocks == [host |-> 12, j1 |-> 6, j2 |-> 8, file |-> 6]
MCBefore ==
  {[dev |-> "host", start |-> 2, len |-> 3, state |-> state, format |-> format, size |-> 10,
    bs |-> bs, unit |-> bs] :
     state \in {"clean", "marked", "none"}, format \in {"3.5", "3.6"}, bs \in {4096, 1024}}
  \cup {[dev |-> "j1", start |-> 1, len |-> 3, state |-> "clean", format |-> "3.6", size |-> 10,
         bs |-> bs, unit |-> bs] : bs \in {4096, 1024}}

Quiet == <<"quiet", TRUE>>
Label1 == <<"label", TRUE>>
Journals == {<<>>, <<<<"journal", "host">>>>, <<<<"journal", "j1">>>>, <<<<"journal", "gone">>>>}

Mkfs ==
  {Line("mkfs", o, a) :
     o \in {<<>>, <<Quiet>>, <<<<"usage", TRUE>>>>, <<<<"what", TRUE>>>>,
            <<<<"journal", "j1">>, <<"len", 3>>, <<"start", 1>>>>,
            <<<<"journal", "j1">>, <<"len", 6>>>>, <<<<"start", 2>>, Quiet>>,
            <<<<"journal", "file">>, <<"format", "3.5">>>>,
            <<<<"format", "3.5">>, Label1>>, <<<<"hash", "bad">>>>, <<<<"blocksize", 1024>>>>, <<<<"blocksize", Bad>>>>, <<<<"len", Bad>>>>},
     a \in {<<>>, <<Dev("host")>>, <<Dev("host"), Num(10)>>, <<Num(10), Dev("host")>>,
            <<Dev("host"), Num(20)>>, <<Dev("file"), Num(Bad)>>}}

Tunefs ==
  {Line("tunefs", j \o o, <<Dev("host")>>) :
     j \in Journals,
     o \in {<<>>, <<Label1>>, <<<<"new", "j2">>>>, <<<<"new", "j2">>, Label1>>, <<<<"new", "j1">>, Label1, Quiet>>,
            <<<<"new", "j2">>, <<"start", 1>>, <<"len", 3>>>>,
            <<<<"new", "j2">>, <<"start", 2>>, <<"len", 3>>>>,
            <<<<"new", "j2">>, <<"start", 9>>>>, <<<<"new", "host">>, <<"max", 1>>>>,
            <<<<"nojournal", TRUE>>, <<"len", 3>>>>, <<<<"start", 5>>>>, <<<<"len", 1>>>>}}

Resizefs ==
  {Line("resizefs", o, a) :
     o \in Journals \cup {<<Quiet>>, <<<<"force", TRUE>>>>},
     a \in {<<Dev("host")>>, <<Dev("host"), Num(8)>>, <<Dev("host"), Num(10)>>,
            <<Dev("host"), Num(20)>>, <<Dev("host"), [Num(2) EXCEPT !.relative = TRUE]>>,
            <<Dev("host"), [Num(-2) EXCEPT !.relative = TRUE]>>, <<Num(9)>>,
            <<Dev("host"), Num(Bad)>>, <<Dev("gone"), Num(8)>>,
            <<Dev("host"), Num(1), Num(9)>>, <<Dev("host"), Num(-3), Num(9)>>,
            <<Num(1), Num(9)>>}}

Cpfs ==
  {Line("cpfs", o, a) :
     o \in Journals \cup {<<Quiet>>},
     a \in {<<Dev("host"), Dev("j2")>>, <<Dev("host"), Dev("j1")>>,
            <<Dev("host"), Dev("host")>>, <<Dev("host"), Dev("gone")>>}}

Others ==
  {Line("fsck", j, <<Dev("host")>>) : j \in Journals}
  \cup {Line(p, <<>>, a) :
          p \in Demos,
          a \in {<<>>, <<Dev("host"), Num(1), Num(1)>>, <<Dev("host"), Num(Bad), Num(1)>>,
                 <<Dev("host"), Dev("name")>>}}

MCCommandLines == Mkfs \cup Tunefs \cup Resizefs \cup Cpfs \cup Others
=============================================================================
