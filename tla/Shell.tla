------------------------------- MODULE Shell -------------------------------
(***************************************************************************)
(* init (user/init.c), the shell (user/sh.c) and the commands it runs, as  *)
(* processes that make system calls.  A process is the list of calls it    *)
(* still has to make; runcmd() gives the list for a command.  A step is    *)
(* one call, a blocking call waits in its guard: that sleepers are woken   *)
(* is the subject of Pipe and Proc, that a console line is whole that of   *)
(* Console.                                                                *)
(***************************************************************************)
EXTENDS ShParse, OpenFile

CONSTANTS
    Sessions,       \* what is typed and the sizes of the tables, see Session
    PIPESIZE,       \* bytes of a pipe
    Dirs            \* directories of the root directory

EOF == <<>>

VARIABLES
    limits,         \* the session: [nproc, nfile, nofile, npipe, ample, lines]
    proc,           \* the process table
    file,           \* ftable
    pipe,           \* the pipes
    store,          \* contents of the files, by <<directory, name>>
    console,        \* /console exists
    input,          \* lines typed and not read yet
    out,            \* characters written to the console by the commands
    shpid           \* pid of init's shell

vars == <<limits, proc, file, pipe, store, console, input, out, shpid>>
system == <<store, console, input, out, shpid>>

init == 1
Pid == 1..limits.nproc

unused == [state |-> "unused", parent |-> 0, prog |-> "none", todo |-> <<>>,
           ofile |-> <<>>, r |-> <<>>, cwd |-> "/"]
-----------------------------------------------------------------------------
\* A descriptor in a program: a number, or the k-th the last open() or pipe()
\* of the process returned.
Fd(n) == <<"fd", n>>
Ret(k) == <<"ret", k>>

Open(f, m) == [op |-> "open", file |-> f, mode |-> m]
Close(d) == [op |-> "close", fd |-> d]
Dup(d) == [op |-> "dup", fd |-> d]
Fork(script) == [op |-> "fork", child |-> script]
Exec(argv) == [op |-> "exec", argv |-> argv]
Write(bytes, strict) == [op |-> "write", bytes |-> bytes, strict |-> strict]
Cat(d) == [op |-> "cat", fd |-> d]
Pipe(good) == [op |-> "pipe", good |-> good]
Pipealloc(f0, good) == [op |-> "pipealloc", f0 |-> f0, good |-> good]
Call(op) == [op |-> op]

\* The left and the right side of a pipe, up to their runcmd().
left_end == <<Close(Fd(1)), Dup(Ret(2)), Close(Ret(1)), Close(Ret(2))>>
right_end == <<Close(Fd(0)), Dup(Ret(1)), Close(Ret(1)), Close(Ret(2))>>

both_ends_one_left == <<Close(Ret(1))>>
both_ends == <<Close(Ret(1)), Close(Ret(2))>>

fork_pipe(left, right) == <<Pipe(TRUE), Fork(left_end \o left), Fork(right_end \o right)>>

RECURSIVE runcmd(_)
runcmd(c) ==
    CASE c.type = "EXEC" ->
           IF c.argv = <<>> THEN <<Call("exit")>> ELSE <<Exec(c.argv), Call("exit")>>
      [] c.type = "REDIR" ->
           <<Close(Fd(IF c.mode = "read" THEN 0 ELSE 1)), Open(c.file, c.mode)>> \o runcmd(c.cmd)
      [] c.type = "LIST" ->
           <<Fork(runcmd(c.left)), Call("wait")>> \o runcmd(c.right)
      [] c.type = "PIPE" ->
           fork_pipe(runcmd(c.left), runcmd(c.right)) \o both_ends
             \o <<Call("wait"), Call("wait"), Call("exit")>>
      [] c.type = "BACK" -> <<Fork(runcmd(c.cmd)), Call("exit")>>

\* runcmd(parsecmd(buf)) in the child; panic() exits.
run_line(line) ==
    LET r == parsecmd(line) IN IF r.ok THEN runcmd(r.cmd) ELSE <<Call("exit")>>

\* user/echo.c and user/cat.c: what is typed as e and c.
echo(argv) ==
    FlattenSeq([k \in 1..(Len(argv) - 1) |->
        <<Write(argv[k + 1], FALSE),
          Write(IF k + 1 < Len(argv) THEN <<" ">> ELSE <<"\n">>, FALSE)>>])

cat_files(argv) ==
    IF Len(argv) <= 1 THEN <<Cat(Fd(0))>>
    ELSE FlattenSeq([k \in 1..(Len(argv) - 1) |->
             <<Open(argv[k + 1], "read"), Cat(Ret(1)), Close(Ret(1))>>])

\* The test pgbug of user/usertests.c, typed as u: pipe() with an address where
\* there is no memory.
pgbug == <<Pipe(FALSE), Call("exit")>>

Programs == {<<"e">>, <<"c">>, <<"u">>, <<"s", "h">>}
program(name, argv) ==
    CASE name = <<"e">> -> echo(argv) \o <<Call("exit")>>
      [] name = <<"c">> -> cat_files(argv) \o <<Call("exit")>>
      [] name = <<"u">> -> pgbug
      [] name = <<"s", "h">> -> <<Call("open_console"), Call("getcmd")>>

\* namex(): a name is looked up from the root directory if it begins with a
\* slash, and from the directory of the process otherwise; <<directory, name>>.
\* The programs and the directories are in the root directory.
namei(cwd, name) == IF name[1] = "/" THEN <<"/", Tail(name)>> ELSE <<cwd, name>>

is_program(f) == f[1] = "/" /\ f[2] \in Programs
is_dir(f) == f[1] = "/" /\ f[2] \in Dirs \cup {<<>>}
-----------------------------------------------------------------------------
\* init before its first call.
Init ==
    /\ limits \in Sessions
    /\ proc = [p \in Pid |->
                 IF p = init
                   THEN [unused EXCEPT !.state = "run", !.prog = "init",
                           !.ofile = [fd \in 0..(limits.nofile - 1) |-> 0],
                           !.todo = <<Call("boot"), Dup(Fd(0)), Dup(Fd(0)), Call("start")>>]
                   ELSE unused]
    /\ file = [f \in 1..limits.nfile |-> FD_NONE]
    /\ pipe = [i \in 1..limits.npipe |-> no_pipe]
    /\ store = <<>>
    /\ console \in BOOLEAN
    /\ input = limits.lines
    /\ out = <<>>
    /\ shpid = 0

\* Process p makes the call op; panic("init exiting") stops them all.
at(p, op) ==
    /\ proc[init].state = "run"
    /\ proc[p].state = "run"
    /\ Head(proc[p].todo).op = op

arg(p) == Head(proc[p].todo)
rest(p) == Tail(proc[p].todo)
fdof(p, d) == IF d[1] = "ret" THEN proc[p].r[d[2]] ELSE d[2]
path(p, name) == namei(proc[p].cwd, name)

S(p) == [file |-> file, pipe |-> pipe, ofile |-> proc[p].ofile]

\* The call of p leaves the tables at s, and todo to be done.
Return(p, s, todo) ==
    /\ file' = s.file
    /\ pipe' = s.pipe
    /\ proc' = [proc EXCEPT ![p].ofile = s.ofile, ![p].todo = todo]
    /\ UNCHANGED limits

ReturnFds(p, s, fds, todo) ==
    /\ file' = s.file
    /\ pipe' = s.pipe
    /\ proc' = [proc EXCEPT ![p].ofile = s.ofile, ![p].todo = todo, ![p].r = fds]
    /\ UNCHANGED limits

close(p) ==
    /\ at(p, "close")
    /\ Return(p, sys_close(S(p), fdof(p, arg(p).fd)), rest(p))
    /\ UNCHANGED system

dup(p) ==
    /\ at(p, "dup")
    /\ Return(p, sys_dup(S(p), fdof(p, arg(p).fd)), rest(p))
    /\ UNCHANGED system

\* pipe(): the first filealloc() of pipealloc(); another process may take the
\* entry that is left for the second.
call_pipe(p) ==
    /\ at(p, "pipe")
    /\ LET f0 == filealloc(S(p))
       IN  Return(p, take(S(p), f0),
                  IF f0 = 0 THEN <<Call("exit")>> ELSE <<Pipealloc(f0, arg(p).good)>> \o rest(p))
    /\ UNCHANGED system

\* The rest of pipe().
finish_pipe(p) ==
    /\ at(p, "pipealloc")
    /\ LET r == sys_pipe(S(p), arg(p).f0, arg(p).good)
       IN  IF r.fd = <<>> THEN Return(p, r.s, <<Call("exit")>>)
           ELSE ReturnFds(p, r.s, r.fd, rest(p))
    /\ UNCHANGED system

\* With O_CREATE the file exists even when no descriptor is left for it, unless
\* the name is a directory's; it is truncated when the open succeeds.
open(p) ==
    /\ at(p, "open")
    /\ LET f == path(p, arg(p).file)
           m == arg(p).mode
           found == f \in DOMAIN store
           r == sys_open(S(p), "INODE", f, m = "read", m # "read")
           ok == r.r # -1
           bytes == IF found /\ ~(ok /\ m = "trunc") THEN store[f] ELSE <<>>
       IN  IF IF m = "read" THEN ~found ELSE is_dir(f)
             THEN Return(p, S(p), <<Call("exit")>>) /\ UNCHANGED store
             ELSE /\ ReturnFds(p, r.s, <<r.r>>, IF ok THEN rest(p) ELSE <<Call("exit")>>)
                  /\ store' = [g \in DOMAIN store \cup {f} |->
                                 IF g = f THEN bytes ELSE store[g]]
    /\ UNCHANGED <<console, input, out, shpid>>
-----------------------------------------------------------------------------
\* fork() by p of a process that has script to do; q: allocproc()'s slot.
Free == {q \in Pid : proc[q].state = "unused"}

fork(p, script, todo) ==
    /\ proc' = [proc EXCEPT ![p].todo = todo,
                            ![Min(Free)] = [proc[p] EXCEPT !.parent = p, !.todo = script]]
    /\ file' = dup_all(S(p)).file
    /\ UNCHANGED <<pipe, limits>>

fork1(p) ==
    /\ at(p, "fork")
    /\ IF Free = {} THEN Return(p, S(p), <<Call("exit")>>)
       ELSE fork(p, arg(p).child, rest(p))
    /\ UNCHANGED system

children(p) == {q \in Pid : proc[q].state # "unused" /\ proc[q].parent = p}
zombies(p) == {q \in children(p) : proc[q].state = "zombie"}

wait_nohang(p) ==
    /\ at(p, "wait")
    /\ Return(p, S(p), rest(p))
    /\ UNCHANGED system

\* wait(0): the first zombie of the table, or -1 at once.
wait(p) ==
    /\ at(p, "wait")
    /\ zombies(p) # {} \/ children(p) = {}
    /\ proc' = [q \in Pid |->
                  CASE q = p -> [proc[p] EXCEPT !.todo = rest(p)]
                    [] q # p /\ zombies(p) # {} /\ q = Min(zombies(p)) -> unused
                    [] OTHER -> proc[q]]
    /\ UNCHANGED <<file, pipe, limits, system>>

\* The children are given to init.
reparent(p) == children(p)

\* exit() closes the files one after the other, while others run.
exit(p) ==
    /\ at(p, "exit")
    /\ LET opened == {fd \in DOMAIN proc[p].ofile : proc[p].ofile[fd] # 0}
       IN  IF opened # {} /\ p # init
             THEN Return(p, sys_close(S(p), Min(opened)), proc[p].todo)
             ELSE /\ proc' = [q \in Pid |->
                        CASE q = p -> [proc[p] EXCEPT !.state = "zombie", !.todo = <<>>]
                          [] q \in reparent(p) -> [proc[q] EXCEPT !.parent = init]
                          [] OTHER -> proc[q]]
                  /\ UNCHANGED <<file, pipe, limits>>
    /\ UNCHANGED system

\* exec(path, argv): the name is looked up like that of any file.  What is not a
\* program has no ELF header.
exec(p) ==
    /\ at(p, "exec")
    /\ LET argv == arg(p).argv
           f == path(p, argv[1])
       IN  proc' = IF is_program(f)
                     THEN [proc EXCEPT ![p].todo = program(f[2], argv), ![p].prog = f[2][1]]
                     ELSE [proc EXCEPT ![p].todo = rest(p)]
    /\ UNCHANGED <<file, pipe, limits, system>>
-----------------------------------------------------------------------------
\* init: the console, and its loop.
boot(p) ==
    /\ at(p, "boot")
    /\ console' = TRUE
    /\ Return(p, sys_open(S(p), "DEVICE", <<"/", "console">>, TRUE, TRUE).s, rest(p))
    /\ UNCHANGED <<store, input, out, shpid>>

start(p) ==
    /\ at(p, "start")
    /\ IF Free = {} THEN Return(p, S(p), <<Call("exit")>>) /\ UNCHANGED shpid
       ELSE /\ fork(p, <<Exec(<<(<<"s", "h">>)>>), Call("exit")>>, <<Call("reap"), Call("start")>>)
            /\ shpid' = Min(Free)
    /\ UNCHANGED <<store, console, input, out>>

reap(p) ==
    /\ at(p, "reap")
    /\ children(p) = {} \/ zombies(p) # {}
    /\ IF children(p) = {} THEN Return(p, S(p), <<Call("exit")>>)
       ELSE LET q == Min(zombies(p))
            IN  /\ proc' = [proc EXCEPT ![q] = unused, ![p].todo = IF q = shpid THEN rest(p) ELSE @]
                /\ UNCHANGED <<file, pipe, limits>>
    /\ UNCHANGED system

\* The loop of the shell that opens console until a fourth descriptor.
open_console(p) ==
    /\ at(p, "open_console")
    /\ LET r == sys_open(S(p), "DEVICE", <<"/", "console">>, TRUE, TRUE)
       IN  CASE r.r = -1 -> Return(p, r.s, rest(p))
             [] r.r >= 3 -> Return(p, sys_close(r.s, r.r), rest(p))
             [] OTHER -> Return(p, r.s, proc[p].todo)
    /\ UNCHANGED system

\* write(1, bytes): a pipe takes a byte at a time; cat gives up on an error,
\* echo does not look.
overwrite(old, off, bytes) ==
    [k \in 1..Max({Len(old), off + Len(bytes)}) |->
        IF k \in (off + 1)..(off + Len(bytes)) THEN bytes[k - off] ELSE old[k]]

write(p) ==
    /\ at(p, "write")
    /\ LET f == proc[p].ofile[1]
           bytes == arg(p).bytes
           pi == file[f].pi
           failed == IF arg(p).strict THEN <<Call("exit")>> ELSE rest(p)
       IN  \/ /\ file[f].type = "DEVICE"
              /\ out' = out \o bytes
              /\ Return(p, S(p), rest(p))
              /\ UNCHANGED store
           \/ /\ file[f].type = "INODE"
              /\ store' = [store EXCEPT ![file[f].obj] = overwrite(@, file[f].off, bytes)]
              /\ Return(p, [S(p) EXCEPT !.file[f].off = @ + Len(bytes)], rest(p))
              /\ UNCHANGED out
           \/ /\ file[f].type = "PIPE"
              /\ IF ~pipe[pi].readopen THEN Return(p, S(p), failed)
                 ELSE /\ Len(pipe[pi].data) < PIPESIZE
                      /\ Return(p, [S(p) EXCEPT !.pipe[pi].data = Append(@, Head(bytes))],
                                IF Len(bytes) = 1 THEN rest(p)
                                ELSE <<Write(Tail(bytes), arg(p).strict)>> \o rest(p))
              /\ UNCHANGED <<store, out>>
    /\ UNCHANGED <<console, input, shpid>>

\* A round of cat(): read all there is, or wait for it, and write it.
cat(p) ==
    /\ at(p, "cat")
    /\ LET f == proc[p].ofile[fdof(p, arg(p).fd)]
           got(s, bytes) ==
               Return(p, s, IF bytes = <<>> THEN rest(p)
                            ELSE <<Write(bytes, TRUE)>> \o proc[p].todo)
       IN  \/ /\ file[f].type = "DEVICE"
              /\ input # <<>>
              /\ input' = Tail(input)
              /\ got(S(p), Head(input))
           \/ /\ file[f].type = "INODE"
              /\ LET bytes == SubSeq(store[file[f].obj], file[f].off + 1, Len(store[file[f].obj]))
                 IN  got([S(p) EXCEPT !.file[f].off = @ + Len(bytes)], bytes)
              /\ UNCHANGED input
           \/ /\ file[f].type = "PIPE"
              /\ LET pi == pipe[file[f].pi]
                 IN  /\ pi.data # <<>> \/ ~pi.writeopen
                     /\ got([S(p) EXCEPT !.pipe[file[f].pi].data = <<>>], pi.data)
              /\ UNCHANGED input
    /\ UNCHANGED <<store, console, out, shpid>>
-----------------------------------------------------------------------------
(***************************************************************************)
(* What a command means, without processes: what it writes to its standard *)
(* output and leaves of its standard input, and what it makes of the files *)
(* and of the lines that are still to be typed.                            *)
(***************************************************************************)
Typewriter == [tty |-> TRUE, bytes |-> <<>>]
Bytes(b) == [tty |-> FALSE, bytes |-> b]
Effect(m, stdout, stdin) == [m |-> m, out |-> stdout, in |-> stdin]

Echoed(argv) ==
    FlattenSeq([k \in 1..(Len(argv) - 1) |->
        argv[k + 1] \o (IF k + 1 = Len(argv) THEN <<"\n">> ELSE <<" ">>)])

\* cat with standard input stdin and no argument.
Copied(m, stdin) ==
    LET n == Min({k \in DOMAIN m.input : m.input[k] = EOF})
    IN  IF stdin.tty
          THEN Effect([m EXCEPT !.input = SubSeq(@, n + 1, Len(@))],
                      FlattenSeq(SubSeq(m.input, 1, n - 1)), stdin)
          ELSE Effect(m, stdin.bytes, Bytes(<<>>))

\* Where a file is that a command names.
File(m, name) == IF Head(name) = "/" THEN <<"/", Tail(name)>> ELSE <<m.cwd, name>>

\* The command runs the program of that name, which is in the root directory.
Runs(m, argv, name) == argv # <<>> /\ File(m, argv[1]) = <<"/", name>>

Contents(m, names) ==
    LET known == {k \in DOMAIN names : \A j \in 1..k : File(m, names[j]) \in DOMAIN m.store}
    IN  FlattenSeq([k \in known |-> m.store[File(m, names[k])]])

With(m, f, bytes) ==
    [m EXCEPT !.store = [g \in DOMAIN @ \cup {f} |-> IF g = f THEN bytes ELSE @[g]]]

RECURSIVE Sem(_, _, _)
Sem(c, m, stdin) ==
    CASE c.type = "EXEC" ->
           (CASE Runs(m, c.argv, <<"e">>) -> Effect(m, Echoed(c.argv), stdin)
              [] Runs(m, c.argv, <<"c">>) /\ Len(c.argv) = 1 -> Copied(m, stdin)
              [] Runs(m, c.argv, <<"c">>) /\ Len(c.argv) > 1 ->
                   Effect(m, Contents(m, Tail(c.argv)), stdin)
              [] OTHER -> Effect(m, <<>>, stdin))
      [] c.type = "REDIR" ->
           LET f == File(m, c.file)
               old == IF f \in DOMAIN m.store /\ c.mode # "trunc" THEN m.store[f] ELSE <<>>
               r == Sem(c.cmd, With(m, f, old), stdin)
               i == Sem(c.cmd, m, Bytes(old))
           IN  CASE c.mode = "read" /\ f \notin DOMAIN m.store -> Effect(m, <<>>, stdin)
                 [] c.mode = "read" /\ f \in DOMAIN m.store -> Effect(i.m, i.out, stdin)
                 [] c.mode # "read" /\ is_dir(f) -> Effect(m, <<>>, stdin)
                 [] OTHER -> Effect(With(r.m, f, overwrite(r.m.store[f], 0, r.out)), <<>>, r.in)
      [] c.type = "LIST" ->
           LET l == Sem(c.left, m, stdin)
               r == Sem(c.right, l.m, l.in)
           IN  Effect(r.m, l.out \o r.out, r.in)
      [] c.type = "PIPE" ->
           LET l == Sem(c.left, m, stdin)
               r == Sem(c.right, l.m, Bytes(l.out))
           IN  Effect(r.m, r.out, l.in)
      [] c.type = "BACK" -> Effect(m, <<>>, stdin)

chop(line) == SubSeq(line, 4, Len(line) - 1)
is_cd(line) == Len(line) > 3 /\ SubSeq(line, 1, 3) = <<"c", "d", " ">>
sys_chdir(cwd, name) ==
    LET d == namei(cwd, name)
    IN  CASE d = <<"/", <<>>>> -> "/"
          [] d # <<"/", <<>>>> /\ is_dir(d) -> d[2][1]
          [] OTHER -> cwd

\* The prompts of a session: the shell reads a line at each.  After the end of
\* the file it is another shell, in init's directory.
Meaning(line, m) ==
    LET r == parsecmd(line)
        e == Sem(r.cmd, m, Typewriter)
    IN  CASE line = EOF -> [m EXCEPT !.cwd = "/"]
          [] line # EOF /\ is_cd(line) -> [m EXCEPT !.cwd = sys_chdir(@, chop(line))]
          [] OTHER -> IF r.ok THEN [e.m EXCEPT !.out = @ \o e.out] ELSE m

RECURSIVE PromptsFrom(_)
PromptsFrom(m) ==
    {m} \cup (IF m.input = <<>> THEN {}
              ELSE PromptsFrom(Meaning(Head(m.input), [m EXCEPT !.input = Tail(@)])))

Prompts == [s \in {t \in Sessions : t.ample} |->
    PromptsFrom([store |-> <<>>, input |-> s.lines, out |-> <<>>, cwd |-> "/"])]

\* The loop of the shell: read a line and, unless it is cd, have a child run it.
getcmd(p) ==
    /\ at(p, "getcmd")
    /\ input # <<>>
    /\ input' = Tail(input)
    /\ LET line == Head(input)
       IN  proc' = [proc EXCEPT
                 ![p].todo = CASE line = EOF -> <<Call("exit")>>
                               [] line # EOF /\ is_cd(line) -> @
                               [] OTHER -> <<Fork(run_line(line)), Call("wait")>> \o @,
                 ![p].cwd = IF is_cd(line) THEN sys_chdir(@, chop(line)) ELSE @]
    /\ UNCHANGED <<limits, file, pipe, store, console, out, shpid>>
-----------------------------------------------------------------------------
run(p) ==
    \/ close(p) \/ dup(p) \/ call_pipe(p) \/ finish_pipe(p) \/ open(p)
    \/ fork1(p) \/ wait(p) \/ exit(p) \/ exec(p)
    \/ boot(p) \/ start(p) \/ reap(p) \/ open_console(p)
    \/ write(p) \/ cat(p) \/ getcmd(p)

Next == \E p \in Pid : run(p)

\* A call that sleeps: for a child, a line, or the other end of a pipe.
blocked(p) ==
    LET pi(fd) == pipe[file[proc[p].ofile[fd]].pi]
        is(fd, type) == file[proc[p].ofile[fd]].type = type
    IN  CASE arg(p).op \in {"wait", "reap"} -> children(p) # {} /\ zombies(p) = {}
          [] arg(p).op = "getcmd" -> input = <<>>
          [] arg(p).op = "write" ->
               is(1, "PIPE") /\ pi(1).readopen /\ Len(pi(1).data) = PIPESIZE
          [] arg(p).op = "cat" ->
               LET fd == fdof(p, arg(p).fd)
               IN  \/ is(fd, "DEVICE") /\ input = <<>>
                   \/ is(fd, "PIPE") /\ pi(fd).data = <<>> /\ pi(fd).writeopen
          [] OTHER -> FALSE

Runnable == {p \in Pid : proc[init].state = "run" /\ proc[p].state = "run" /\ ~blocked(p)}

\* While a process can run, the scheduler runs one: WF_vars(Next), as Next is
\* enabled when a process is runnable.
Fairness == []<>(Runnable = {}) \/ []<><<TRUE>>_vars

Spec == Init /\ [][Next]_vars /\ Fairness
-----------------------------------------------------------------------------
\* The calls of pipe() that have taken f and no more yet.
taking(f) ==
    {p \in Pid : proc[p].state = "run" /\ arg(p).op = "pipealloc" /\ arg(p).f0 = f}

\* The count of an open file is the number of descriptors that refer to it,
\* whatever mixture of fork, dup, pipe, close, failing calls and exit made
\* them, and of calls of pipe() that are about to give it one; and a pipe end
\* is open exactly while a file refers to it.
FilesCounted ==
    /\ \A f \in DOMAIN file :
         file[f].ref = Cardinality(
             {<<p, fd>> \in Pid \X (0..(limits.nofile - 1)) :
                 proc[p].ofile # <<>> /\ proc[p].ofile[fd] = f}) + Cardinality(taking(f))
    /\ \A i \in DOMAIN pipe :
         /\ pipe[i].readopen = (\E f \in DOMAIN file : file[f].pi = i /\ file[f].readable)
         /\ pipe[i].writeopen = (\E f \in DOMAIN file : file[f].pi = i /\ file[f].writable)

\* A program the shell starts has its three standard descriptors and no other:
\* no pipe end of the shell leaks into it.
OnlyStdio ==
    [][\A p \in Pid :
          proc'[p].prog \notin {"none", proc[p].prog} /\ proc[p].prog # "none"
              => {fd \in DOMAIN proc'[p].ofile : proc'[p].ofile[fd] # 0} = 0..2]_vars

\* When the shell is back at its prompt, the console, the files and the lines
\* not yet read are what the lines mean: runcmd() wires its processes together
\* as the command says, in whatever order they run.  In a session that has
\* enough of everything, and no background command.
RunsAsTyped ==
    \A p \in Pid :
        limits.ample /\ proc[p].state = "run" /\ arg(p).op = "getcmd"
            => [store |-> store, input |-> input, out |-> out, cwd |-> proc[p].cwd] \in Prompts[limits]

\* A process that exits is collected, by its parent or, when that is gone, by
\* init.
ZombiesReaped ==
    (\E p \in Pid : proc[p].state = "zombie") ~> (\A p \in Pid : proc[p].state # "zombie")

\* A line that is typed is read: the command before it ends, also when a
\* fork(), pipe() or open() in it has failed, and a shell that exits is
\* restarted.
LinesRead == <>(input = <<>>)
=============================================================================
