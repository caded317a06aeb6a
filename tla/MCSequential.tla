---------------------------- MODULE MCSequential ----------------------------
(***************************************************************************)
(* Code that one process runs alone, on small inputs: exec() and the page  *)
(* tables (Exec), the contents of files (Inode), malloc() (Umalloc), grep  *)
(* (Grep) and the parser of the shell (ShParse).  The choice of the        *)
(* subject in the first state is final, and the variables of the others    *)
(* stay as they are.                                                       *)
(***************************************************************************)
EXTENDS Exec

CONSTANTS
    UINT, FSSIZE, BSIZE, BPB, IPB, NINODES, nlog, NDIRECT, MAXOPBLOCKS, Files, Writer, Writes,
    MORE, TOP, Sizes,
    Patterns, Texts, SIZE,
    MAXARGS

VARIABLES
    subject,
    d, job, written,                            \* Inode
    ptr, size, freep, brk, used, gaps,          \* Umalloc
    pattern, text, buf, out, done, whole,       \* Grep
    tree                                        \* a command

I == INSTANCE Inode
U == INSTANCE Umalloc
G == INSTANCE Grep
P == INSTANCE ShParse

ASSUME I!LayoutAssumption /\ I!InodeAssumption
-----------------------------------------------------------------------------
(***************************************************************************)
(* Programs of one and two segments, headers that are rejected at each     *)
(* test of exec(), and argument lists that fit the stack page, just do     *)
(* not, or have a string as long as a page.                                *)
(***************************************************************************)
Ph(type, vaddr, memsz, filesz, data, perm) ==
    [type |-> type, vaddr |-> vaddr, memsz |-> memsz, filesz |-> filesz,
     data |-> data, perm |-> perm]

Text == Ph("load", 0, 8, 5, <<7, 0, 7, 7, 7>>, {"X"})
Data == Ph("load", 8, 11, 9, <<8, 8, 8, 8, 8, 8, 8, 8, 8>>, {"W"})

MCProgram ==
    {[elf |-> TRUE, phs |-> phs] : phs \in
        {<<>>, <<Text>>, <<Ph("other", 0, 0, 0, <<>>, {}), Text, Data>>,
         <<Text, Ph("cut", 0, 0, 0, <<>>, {})>>,
         <<Text, [Data EXCEPT !.data = <<8>>]>>,
         <<Data, Text>>,
         <<Text, [Data EXCEPT !.filesz = 12]>>, <<Text, [Data EXCEPT !.vaddr = 9]>>,
         <<Text, [Data EXCEPT !.memsz = ADDR - 4]>>, <<Text, [Data EXCEPT !.memsz = ADDR - 9]>>}}
    \cup {[elf |-> FALSE, phs |-> <<>>]}

MCGrow == {-100, -4, 12}

MCArgs == {<<>>, <<<<9, 9, 9>>>>, <<<<9>>, <<>>>>, <<<<>>, <<>>, <<>>>>,
           <<<<9, 9, 9, 9, 9>>>>, <<<<9, 9, 9, 9, 9, 9, 9, 9>>>>}
-----------------------------------------------------------------------------
(***************************************************************************)
(* Two files, one of which has an indirect block; writes that append,      *)
(* overwrite, leave the direct blocks, and fail halfway.                   *)
(***************************************************************************)
MCFiles == <<<<7>>, <<7, 7, 7, 7, 7, 7, 7>>>>

Write(i, off, words, good) == [ino |-> i, off |-> off, words |-> words, good |-> good]

MCWrites ==
    {Write(2, 1, <<5, 5, 5, 5>>, 4), Write(2, 5, <<6, 6, 6, 6>>, 4),
     Write(2, 4, <<6, 6, 6>>, 1), Write(3, 7, <<6, 6, 6, 6, 6, 6>>, 6)}

\* Regular expressions and files.
Strings(S, n) == UNION {[1..k -> S] : k \in 0..n}

MCPatterns ==
    Strings({"a", "*", ".", "$", "^"}, 3)
    \cup {<<"a", "*", "b", "$">>, <<"^", ".", "*", "b">>}
MCTexts == Strings({"a", "b", "\n"}, 4)

\* Commands of up to three levels.
Above(cmds) ==
    {P!redircmd(c, <<"f">>, m) : c \in cmds, m \in {"read", "trunc", "append"}}
    \cup {P!pipecmd(c, e) : c, e \in cmds} \cup {P!listcmd(c, e) : c, e \in cmds}
    \cup {P!backcmd(c) : c \in cmds}
Simple == {P!EXECcmd(<<<<"x">>>>), P!EXECcmd(<<<<"x">>, <<"y">>>>)}
Trees == Above(Simple) \cup Above(Above(Simple))
-----------------------------------------------------------------------------
NoExec == mem = 0 /\ others = 0 /\ live = 0 /\ image = 0 /\ sp = 0 /\ call = idle
NoInode == d = 0 /\ job = 0 /\ written = 0
NoUmalloc == ptr = 0 /\ size = 0 /\ freep = 0 /\ brk = 0 /\ used = 0 /\ gaps = 0
NoGrep == pattern = 0 /\ text = 0 /\ buf = 0 /\ out = 0 /\ done = 0 /\ whole = 0

MCInit ==
    \/ subject = "exec" /\ Init /\ NoInode /\ NoUmalloc /\ NoGrep /\ tree = 0
    \/ subject = "inode" /\ I!Init /\ NoExec /\ NoUmalloc /\ NoGrep /\ tree = 0
    \/ subject = "umalloc" /\ U!Init /\ NoExec /\ NoInode /\ NoGrep /\ tree = 0
    \/ subject = "grep" /\ G!Init /\ NoExec /\ NoInode /\ NoUmalloc /\ tree = 0
    \/ subject = "parser" /\ tree \in Trees /\ NoExec /\ NoInode /\ NoUmalloc /\ NoGrep

inode == <<d, job, written>>
umalloc == <<ptr, size, freep, brk, used, gaps>>
grep == <<pattern, text, buf, out, done, whole>>

MCNext ==
    /\ UNCHANGED <<subject, tree>>
    /\ \/ subject = "exec" /\ Next /\ UNCHANGED <<inode, umalloc, grep>>
       \/ subject = "inode" /\ I!Next /\ UNCHANGED <<vars, umalloc, grep>>
       \/ subject = "umalloc" /\ U!Next /\ UNCHANGED <<vars, inode, grep>>
       \/ subject = "grep" /\ G!Next /\ UNCHANGED <<vars, inode, umalloc>>

MCSpec == MCInit /\ [][MCNext]_<<subject, vars, inode, umalloc, grep, tree>>
-----------------------------------------------------------------------------
\* exec() that fails leaves the old program as it was.  No failure of kalloc(),
\* of the file or of the arguments loses a page or frees one twice, what is
\* mapped is what p->sz says, and no panic of vm.c or of loadseg() is reached.
ExecSound ==
    /\ [](subject = "exec" => TypeOK /\ PagesAccounted /\ VmNoPanic)
    /\ ExecAllOrNothing

\* After exec() the memory is the program's, main() finds its arguments, and
\* copyinstr() finds every string in it.
ExecImage == subject = "exec" => ImageIsProgram /\ StringFetched

\* The bitmap marks the blocks that inodes list, each listed once, and readi()
\* returns what was last written, whatever writes failed on the way.  No
\* transaction writes more blocks than begin_op() reserves for it, and reading,
\* which is in none, writes no block.
InodeSound ==
    subject = "inode" => /\ I!BitmapExact /\ I!ReadsWhatWasWritten
                         /\ I!WithinReservation /\ I!ReadsDontAllocate

\* malloc() and free() lose no memory and never give the same twice, and free
\* blocks side by side are joined.
UmallocTiled == subject = "umalloc" => U!HeapTiled

\* grep writes the lines that match, however read() divides the file.
GrepSelects == subject = "grep" => G!LinesSelected

\* The shell reads a line as the command it was typed for.
ParsesAsTyped == subject = "parser" => P!ParsedAsTyped(tree)
=============================================================================
