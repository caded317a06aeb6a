------------------------------ MODULE OpenFile ------------------------------
(***************************************************************************)
(* Open files (kernel/file.c, the descriptor calls of kernel/sysfile.c,    *)
(* pipealloc() and pipeclose()).  A system call of a process is an         *)
(* operator on s = [file, pipe, ofile]: the system's ftable and pipes, and *)
(* the descriptors of the caller.  ftable.lock protects the counts, and a  *)
(* descriptor belongs to one process.                                      *)
(***************************************************************************)
EXTENDS Integers, Sequences, FiniteSets, FiniteSetsExt

FD_NONE == [ref |-> 0, type |-> "NONE", obj |-> <<>>, pi |-> 0,
            readable |-> FALSE, writable |-> FALSE, off |-> 0]
no_pipe == [readopen |-> FALSE, writeopen |-> FALSE, data |-> <<>>]

\* The loops that take the first free entry of a table, or none of it.
first(free, none) == IF free = {} THEN none ELSE Min(free)

fdalloc(s) == first({fd \in DOMAIN s.ofile : s.ofile[fd] = 0}, -1)
filealloc(s) == first({f \in DOMAIN s.file : s.file[f].ref = 0}, 0)
kalloc(s) ==
    first({i \in DOMAIN s.pipe : ~s.pipe[i].readopen /\ ~s.pipe[i].writeopen}, 0)

filedup(s, f) == [s EXCEPT !.file[f].ref = @ + 1]

\* fileclose(): the last reference frees the file and closes its end of a pipe;
\* without its readers and its writers the page of a pipe is freed.
pipeclose(pi, writable) ==
    LET q == IF writable THEN [pi EXCEPT !.writeopen = FALSE]
                         ELSE [pi EXCEPT !.readopen = FALSE]
    IN  IF q.readopen \/ q.writeopen THEN q ELSE no_pipe

fileclose(s, f) ==
    LET ff == s.file[f]
        pipes == [s.pipe EXCEPT ![ff.pi] = pipeclose(@, ff.writable)]
    IN  IF ff.ref > 1 THEN [s EXCEPT !.file[f].ref = @ - 1]
        ELSE [s EXCEPT !.file[f] = FD_NONE,
                       !.pipe = IF ff.type = "PIPE" THEN pipes ELSE @]

\* f = 0: there is none.
close_if(s, f) == IF f = 0 THEN s ELSE fileclose(s, f)
take(s, f) == IF f = 0 THEN s ELSE [s EXCEPT !.file[f].ref = 1]

sys_dup(s, fd) ==
    IF s.ofile[fd] = 0 \/ fdalloc(s) = -1 THEN s
    ELSE [filedup(s, s.ofile[fd]) EXCEPT !.ofile[fdalloc(s)] = s.ofile[fd]]

sys_close(s, fd) == close_if([s EXCEPT !.ofile[fd] = 0], s.ofile[fd])

\* sys_open() after the inode has been found; r: the descriptor, or -1.
sys_open(s, type, obj, readable, writable) ==
    LET f == filealloc(s)
        fd == fdalloc(s)
    IN  IF f = 0 \/ fd = -1 THEN [s |-> close_if(take(s, f), f), r |-> -1]
        ELSE [s |-> [s EXCEPT !.ofile[fd] = f,
                              !.file[f] = [FD_NONE EXCEPT !.ref = 1, !.type = type, !.obj = obj,
                                              !.readable = readable, !.writable = writable]],
              r |-> fd]

\* pipealloc() after its first filealloc(), which has taken f0: both files, or
\* neither.
pipealloc_bad_leaks(s, f0, f1) == close_if(s, f1)
pipealloc_bad(s, f0, f1) == close_if(close_if(s, f0), f1)

pipealloc(s, f0) ==
    LET f1 == filealloc(s)
        pi == kalloc(s)
        end(writable) == [FD_NONE EXCEPT !.ref = 1, !.type = "PIPE", !.pi = pi,
                                         !.readable = ~writable, !.writable = writable]
    IN  IF 0 \in {f1, pi}
          THEN [s |-> pipealloc_bad(take(s, f1), f0, f1), f |-> <<>>]
          ELSE [s |-> [s EXCEPT !.file[f0] = end(FALSE), !.file[f1] = end(TRUE),
                                !.pipe[pi] = [no_pipe EXCEPT !.readopen = TRUE, !.writeopen = TRUE]],
                f |-> <<f0, f1>>]

\* fd: the two descriptors, or none.  good: copyout() finds the caller's array.
sys_pipe(s, f0, good) ==
    LET a == pipealloc(s, f0)
        fd0 == fdalloc(s)
        fd1 == first({fd \in DOMAIN s.ofile : s.ofile[fd] = 0} \ {fd0}, -1)
    IN  CASE a.f = <<>> -> [s |-> a.s, fd |-> <<>>]
          [] a.f # <<>> /\ (-1 \in {fd0, fd1} \/ ~good) ->
               [s |-> fileclose(fileclose(a.s, a.f[1]), a.f[2]), fd |-> <<>>]
          [] OTHER -> [s |-> [a.s EXCEPT !.ofile[fd0] = a.f[1], !.ofile[fd1] = a.f[2]],
                       fd |-> <<fd0, fd1>>]

\* The loop over the descriptors in fork().
uses(s) == [f \in DOMAIN s.file |-> Cardinality({fd \in DOMAIN s.ofile : s.ofile[fd] = f})]
dup_all(s) == [s EXCEPT !.file = [f \in DOMAIN @ |-> [@[f] EXCEPT !.ref = @ + uses(s)[f]]]]
=============================================================================
