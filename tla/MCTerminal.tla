----------------------------- MODULE MCTerminal -----------------------------
(***************************************************************************)
(* The terminal, from two sides.  Console: readers, writers and a user who *)
(* types, each together with the interrupt handler.  Shell: what the lines *)
(* of a session do.  A behaviour is about one of the two, and the other    *)
(* has nothing to do.                                                      *)
(***************************************************************************)
EXTENDS Console

CONSTANTS MAXARGS, PIPESIZE, ShellSessions, Dirs

VARIABLES limits, proc, file, pipe, store, console, input, out, shpid

S == INSTANCE Shell WITH Sessions <- ShellSessions

shell == <<limits, proc, file, pipe, store, console, input, out, shpid>>
-----------------------------------------------------------------------------
Use(reader, writer, key) == [reader |-> reader, writer |-> writer, key |-> key]
Unused == Use({}, {}, {})

MCSessions ==
    {Use(Reader, {}, Key), Use({}, Writer, {}),
     Use({}, {CHOOSE p \in Writer : TRUE}, {"a", "U"}), Unused}

\* What the user of the shell types.
nl == <<"\n">>
A == <<"e", " ", "a">>
B == <<"e", " ", "b">>
C == <<"c">>
U == <<"u">>
F == <<"f">>
Cd(dir) == <<"c", "d", " ">> \o dir
Root(s) == <<"/">> \o s
Block(s) == <<"(">> \o s \o <<")">>
Pipe(s, t) == s \o <<"|">> \o t
List(s, t) == s \o <<";">> \o t
To(s) == s \o <<">">> \o F
After(s) == s \o <<">", ">">> \o F
From(s) == s \o <<"<">> \o F
EOF == <<>>

\* With enough of everything: pipelines, blocks with redirections, cat of the
\* terminal, cd, and lines that do not parse or name no program.
Ample(lines) ==
    [nproc |-> 8, nfile |-> 8, nofile |-> 6, npipe |-> 3, ample |-> TRUE, lines |-> lines]

\* With too few processes, files, descriptors or pipes for some call; in the
\* last one, two calls of pipe() compete for two files.
Tight(np, nf, no, pp, lines) ==
    [nproc |-> np, nfile |-> nf, nofile |-> no, npipe |-> pp, ample |-> FALSE,
     lines |-> lines]

MCShellSessions ==
    {Ample(<<Pipe(A, Pipe(C, C)) \o nl>>),
     Ample(<<Pipe(Block(List(A, B)), C) \o nl, EOF, A \o nl>>),
     Ample(<<To(A) \o nl, After(<<"e", " ", "b", " ", "b">>) \o nl, From(C) \o nl>>),
     Ample(<<To(Block(List(A, B))) \o nl, From(Block(List(C, List(C, B)))) \o nl,
             <<"c", " ", "f", " ", "g">> \o nl>>),
     Ample(<<To(C) \o nl, A \o nl, EOF, From(C) \o nl>>),
     Ample(<<Cd(<<"d">>) \o nl, To(A) \o nl, Root(From(C)) \o nl, Root(To(B)) \o nl,
             Root(From(C)) \o nl, EOF, From(C) \o nl>>),
     Ample(<<Cd(<<"d">>) \o nl, Root(B) \o <<">", "/">> \o F \o nl, Cd(<<"/">>) \o nl,
             From(C) \o nl, A \o <<">", "d">> \o nl, Cd(F) \o nl, From(C) \o nl>>),
     Ample(<<Pipe(A, Block(To(List(C, B)))) \o nl, Pipe(A, B) \o nl,
             Block(A) \o <<")">> \o nl, <<"x">> \o nl, nl>>),
     Ample(<<Pipe(A, List(C, From(C))) \o nl>>),
     Ample(<<Pipe(List(U, A), C) \o nl>>)}
    \cup {Tight(np, nf, no, 1, <<Pipe(A, Pipe(C, C)) \o nl, To(A) \o nl, EOF, From(C) \o nl>>) :
            np \in 3..6, nf \in {1, 2, 4}, no \in {4, 5}}
    \cup {Tight(6, 4, 5, 2, <<List(Pipe(A, C) \o <<"&">>, B) \o nl, A \o nl, EOF, B \o nl>>),
          Tight(6, 3, 5, 2, <<List(Pipe(A, C) \o <<"&">>, Pipe(B, C)) \o nl>>)}

MCDirs == {<<"d">>}

NoShell ==
    /\ limits = Tight(0, 0, 0, 0, <<>>)
    /\ proc = <<>> /\ file = <<>> /\ pipe = <<>> /\ store = <<>> /\ console = FALSE
    /\ input = <<>> /\ out = <<>> /\ shpid = 0
-----------------------------------------------------------------------------
MCInit == Init /\ (IF session = Unused THEN S!Init ELSE NoShell)

MCNext == \/ Next /\ UNCHANGED shell
          \/ S!Next /\ UNCHANGED <<session, vars>>

MCSpec ==
    /\ MCInit /\ [][MCNext]_<<session, vars, shell>>
    /\ Fairness
    /\ []<>(S!Runnable = {}) \/ []<><<TRUE>>_shell
-----------------------------------------------------------------------------
\* A writer that waits for room in the output buffer gets on once typing stops,
\* and no reader sleeps while a line is ready.
NobodyForgotten == WriterGetsOn /\ [](session # Unused => ConsoleSleepers)

\* Through fork, dup, pipe, close, exit and calls that fail, an open file is
\* counted once for each descriptor, and a program starts with no more than
\* its three standard descriptors.
DescriptorsRight == [](session = Unused => S!FilesCounted) /\ S!OnlyStdio

\* A session leaves on the terminal and in the files what its lines mean, in
\* whatever order the processes of a command run.
RunsAsTyped == S!RunsAsTyped

\* Every line is read, and every process that exits is collected, also when
\* processes, files or pipes run out.
SessionEnds == S!LinesRead /\ S!ZombiesReaped
=============================================================================
