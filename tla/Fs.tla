--------------------------------- MODULE Fs ---------------------------------
(***************************************************************************)
(* Inodes, directories and path names (kernel/fs.c) under the system calls *)
(* that use them (kernel/sysfile.c, kernel/file.c), for several processes. *)
(*                                                                         *)
(* A step is what a process does while it holds the sleep locks of one or  *)
(* two inodes, or one critical section of itable.lock in iput().  The log  *)
(* makes a call atomic with respect to crashes (module Log), so the        *)
(* contents of an inode on the disk and in the buffer cache are one here,  *)
(* and the in-memory copy of an inode equals it when ip->valid is set.     *)
(*                                                                         *)
(* Sizes are scaled down: the first block of a directory holds "." and     *)
(* "..", the second one all other names; a file has at most one block; a   *)
(* process has one file descriptor; paths are absolute.  The inode table   *)
(* has an entry for every inode: the panic of iget() when all NINODE       *)
(* entries are in use is left out.                                         *)
(***************************************************************************)
EXTENDS Integers, Sequences, FiniteSets, FiniteSetsExt

CONSTANTS
    Proc,           \* processes
    Name,           \* file names other than "." and ".."
    Call,           \* the calls programs make: op, path and, of link(), the new one
    Inum,           \* inodes of the disk
    root,           \* ROOTINO
    Block,          \* data blocks of the disk
    MaxLink,        \* bound on nlink: link() is not called when one has reached it
    nil             \* no inode, process, or directory entry

Op == {"open", "trunc", "create", "mkdir", "link", "unlink"}
Path == Seq(Name) \ {<<>>}

ASSUME FsAssumption ==
    /\ Call \subseteq [op : Op, path : Path, new : Path \cup {<<>>}]
    /\ \A c \in Call : c.op = "link" <=> c.new # <<>>
    /\ root \in Inum
    /\ IsFiniteSet(Block)
    /\ MaxLink \in Nat \ {0}
    /\ nil \notin Proc \cup Inum

VARIABLES
    type,           \* dip->type: "free" is 0
    nlink,          \* dip->nlink
    ent,            \* entries of each directory, "." and ".." apart
    addrs,          \* blocks of each inode
    bitmap,         \* blocks marked in use
    ref,            \* ip->ref in the inode table
    valid,          \* ip->valid
    lock,           \* owner of ip->lock
    pc,             \* where each process is in its call
    call,           \* arguments and local variables of the call
    put,            \* references iput() has still to drop, in order
    iputpc,         \* progress of iput() through freeing an inode
    fd              \* the inode of each process's open file

disk == <<type, nlink, ent, addrs, bitmap>>
table == <<ref, valid, lock>>
local == <<pc, call, put, iputpc, fd>>
vars == <<disk, table, local>>

NoEntries == [n \in Name |-> nil]

\* op, the names of the path still to resolve, the second path of link(), the
\* inode name resolution is at, and ip and dp of the call.
NoCall == [op |-> "open", rest |-> <<>>, new |-> <<>>,
           at |-> nil, ip |-> nil, dp |-> nil]

\* The disk as mkfs makes it, the files in the root directory left out.
Init ==
    /\ type = [i \in Inum |-> IF i = root THEN "DIR" ELSE "free"]
    /\ nlink = [i \in Inum |-> IF i = root THEN 1 ELSE 0]
    /\ ent = [i \in Inum |-> NoEntries]
    /\ bitmap \in kSubset(2, Block)
    /\ addrs = [i \in Inum |-> IF i = root THEN bitmap ELSE {}]
    /\ ref = [i \in Inum |-> IF i = root THEN 1 ELSE 0]
    /\ valid = [i \in Inum |-> FALSE]
    /\ lock = [i \in Inum |-> nil]
    /\ pc = [p \in Proc |-> "user"]
    /\ call = [p \in Proc |-> NoCall]
    /\ put = [p \in Proc |-> <<>>]
    /\ iputpc = [p \in Proc |-> "test"]
    /\ fd = [p \in Proc |-> nil]
-----------------------------------------------------------------------------
(***************************************************************************)
(* Reference counts.                                                       *)
(***************************************************************************)
\* iget(): one more reference.  The entry of an inode that has none is free
\* and counts as not valid, which it is when iget() takes it again.
iget_uncounted(i) == ref' = [ref EXCEPT ![i] = IF @ = 0 THEN 1 ELSE @]
iget(i) == ref' = [ref EXCEPT ![i] = @ + 1]

\* The process at l, none of its earlier references left to drop.
At(p, l) == put[p] = <<>> /\ pc[p] = l

\* ilock() gets the lock and reads the inode from the disk if need be.
ilock(i) ==
    /\ lock[i] = nil
    /\ valid' = [valid EXCEPT ![i] = TRUE]

\* The labels fail of create() and bad of sys_unlink(): iunlockput(ip), then,
\* in the action fail, iunlockput(dp).
put_first(p, i) ==
    /\ pc' = [pc EXCEPT ![p] = "fail"]
    /\ call' = [call EXCEPT ![p].ip = nil]
    /\ put' = [put EXCEPT ![p] = <<i>>]

\* The call returns once iput() has dropped s.
Return(p, s) ==
    /\ pc' = [pc EXCEPT ![p] = "user"]
    /\ call' = [call EXCEPT ![p] = NoCall]
    /\ put' = [put EXCEPT ![p] = s]

\* iput(): the last reference to an inode without links frees it.
last_ref(i) == ref[i] = 1 /\ valid[i] /\ nlink[i] = 0

iput(p) ==
    LET i == Head(put[p])
    IN  /\ put[p] # <<>> /\ iputpc[p] = "test"
        /\ IF last_ref(i)
             THEN /\ lock[i] = nil
                  /\ lock' = [lock EXCEPT ![i] = p]
                  /\ iputpc' = [iputpc EXCEPT ![p] = "free"]
                  /\ UNCHANGED <<ref, valid, put>>
             ELSE /\ ref' = [ref EXCEPT ![i] = @ - 1]
                  /\ valid' = [valid EXCEPT ![i] = @ /\ ref[i] > 1]
                  /\ put' = [put EXCEPT ![p] = Tail(@)]
                  /\ UNCHANGED <<lock, iputpc>>
        /\ UNCHANGED <<disk, pc, call, fd>>

\* itrunc(): bfree() every block.
itrunc_keeps(i) ==
    /\ bitmap' = bitmap \ addrs[i]
    /\ ent' = [ent EXCEPT ![i] = NoEntries]
    /\ UNCHANGED addrs

itrunc(i) ==
    /\ bitmap' = bitmap \ addrs[i]
    /\ addrs' = [addrs EXCEPT ![i] = {}]
    /\ ent' = [ent EXCEPT ![i] = NoEntries]

iput_free(p) ==
    LET i == Head(put[p])
    IN  /\ iputpc[p] = "free"
        /\ itrunc(i)
        /\ type' = [type EXCEPT ![i] = "free"]
        /\ iputpc' = [iputpc EXCEPT ![p] = "invalid"]
        /\ UNCHANGED <<nlink, table, pc, call, put, fd>>

iput_invalid_locked(p) ==
    /\ iputpc[p] = "invalid"
    /\ valid' = [valid EXCEPT ![Head(put[p])] = FALSE]
    /\ iputpc' = [iputpc EXCEPT ![p] = "unref"]
    /\ UNCHANGED <<disk, ref, lock, pc, call, put, fd>>

iput_invalid(p) ==
    LET i == Head(put[p])
    IN  /\ iputpc[p] = "invalid"
        /\ valid' = [valid EXCEPT ![i] = FALSE]
        /\ lock' = [lock EXCEPT ![i] = nil]
        /\ iputpc' = [iputpc EXCEPT ![p] = "unref"]
        /\ UNCHANGED <<disk, ref, pc, call, put, fd>>

iput_unref(p) ==
    /\ iputpc[p] = "unref"
    /\ ref' = [ref EXCEPT ![Head(put[p])] = @ - 1]
    /\ put' = [put EXCEPT ![p] = Tail(@)]
    /\ iputpc' = [iputpc EXCEPT ![p] = "test"]
    /\ UNCHANGED <<disk, valid, lock, pc, call, fd>>
-----------------------------------------------------------------------------
(***************************************************************************)
(* Names: namex()                                                          *)
(***************************************************************************)
\* The inode a name stands for in directory d; dirlookup() takes a reference
\* to it with iget().
dirlookup(d, n) == ent[d][n]

\* link() resolves its second path, and the others but open() their only
\* one, up to the parent directory.
nameiparent(c) == \/ c.op \in {"create", "mkdir", "unlink"}
                  \/ c.op = "link" /\ c.ip # nil

\* A system call starts: iget(ROOTINO).
start(p, c) ==
    /\ At(p, "user")
    /\ c.op = "link" => \A i \in Inum : type[i] = "FILE" => nlink[i] < MaxLink
    /\ pc' = [pc EXCEPT ![p] = "walk"]
    /\ call' = [call EXCEPT ![p] = [NoCall EXCEPT !.op = c.op, !.rest = c.path,
                                                  !.new = c.new, !.at = root]]
    /\ iget(root)
    /\ UNCHANGED <<disk, valid, lock, put, iputpc, fd>>

\* namex() fails: the call does, link() after it has taken its link back.
walk_fails(p, i) ==
    IF call[p].op = "link" /\ call[p].ip # nil
      THEN /\ pc' = [pc EXCEPT ![p] = "bad"]
           /\ call' = [call EXCEPT ![p].at = nil]
           /\ put' = [put EXCEPT ![p] = <<i>>]
      ELSE Return(p, <<i>>)

\* One element of the path, with the directory i locked.
walk(p) ==
    LET c == call[p]
        i == c.at
        next == dirlookup(i, Head(c.rest))
        stop == nameiparent(c) /\ Len(c.rest) = 1
    IN  /\ At(p, "walk")
        /\ ilock(i)
        /\ \/ /\ type[i] # "DIR" \/ (next = nil /\ ~stop)
              /\ walk_fails(p, i)
              /\ UNCHANGED ref
           \/ /\ type[i] = "DIR" /\ stop
              /\ pc' = [pc EXCEPT ![p] = "parent"]
              /\ call' = [call EXCEPT ![p].at = nil, ![p].dp = i]
              /\ UNCHANGED <<ref, put>>
           \/ /\ type[i] = "DIR" /\ ~stop /\ next # nil
              /\ iget(next)
              /\ pc' = [pc EXCEPT ![p] = IF Len(c.rest) = 1 THEN "found" ELSE "walk"]
              /\ call' = [call EXCEPT ![p].at = next, ![p].rest = Tail(@)]
              /\ put' = [put EXCEPT ![p] = <<i>>]
        /\ UNCHANGED <<disk, lock, iputpc, fd>>
-----------------------------------------------------------------------------
(***************************************************************************)
(* Blocks.                                                                 *)
(***************************************************************************)
\* The blocks that a caller which needs n of them gets from balloc().  Which of
\* the free ones it takes makes no difference.
balloc(n) == kSubset(n, Block \ bitmap)
nfree == Cardinality(Block \ bitmap)

\* A directory needs a second block for its first name.
dirlink_blocks(i) == IF Cardinality(addrs[i]) < 2 THEN 1 ELSE 0
-----------------------------------------------------------------------------
(***************************************************************************)
(* sys_open(), and file descriptors.                                       *)
(***************************************************************************)
\* filealloc() and fdalloc() fail if the process has its file open.
OpenFails(p) == fd[p] # nil

\* The inode is found: namei() for open() and link(), an existing file for
\* create().
open(p) ==
    LET c == call[p]
        i == c.at
    IN  /\ At(p, "found")
        /\ c.op # "link"
        /\ ilock(i)
        /\ IF \/ c.op = "mkdir" \/ OpenFails(p)
              \/ c.op \in {"create", "trunc"} /\ type[i] = "DIR"
             THEN /\ Return(p, <<i>>)
                  /\ UNCHANGED <<ent, addrs, bitmap, fd>>
             ELSE /\ Return(p, <<>>)
                  /\ fd' = [fd EXCEPT ![p] = i]
                  /\ IF c.op = "trunc"
                       THEN itrunc(i)
                       ELSE UNCHANGED <<ent, addrs, bitmap>>
        /\ UNCHANGED <<type, nlink, ref, lock, iputpc>>

\* filewrite() to a file: writei() allocates its block.  A write that finds
\* the block there, or no block free, changes nothing.
filewrite(p) ==
    LET i == fd[p]
    IN  /\ At(p, "user")
        /\ i # nil
        /\ type[i] # "DIR" /\ addrs[i] = {}
        /\ ilock(i)
        /\ \E b \in balloc(1) : /\ bitmap' = bitmap \cup b
                                /\ addrs' = [addrs EXCEPT ![i] = b]
        /\ UNCHANGED <<type, nlink, ent, ref, lock, local>>

\* fileclose()
fileclose(p) ==
    /\ At(p, "user")
    /\ fd[p] # nil
    /\ put' = [put EXCEPT ![p] = <<fd[p]>>]
    /\ fd' = [fd EXCEPT ![p] = nil]
    /\ UNCHANGED <<disk, table, pc, call, iputpc>>
-----------------------------------------------------------------------------
(***************************************************************************)
(* create()                                                                *)
(***************************************************************************)
\* ialloc() marks an inode allocated and returns it with a reference.
ialloc(i, t) ==
    /\ type[i] = "free"
    /\ type' = [type EXCEPT ![i] = t]
    /\ nlink' = [nlink EXCEPT ![i] = 0]
    /\ addrs' = [addrs EXCEPT ![i] = {}]
    /\ iget(i)

\* dp is locked; the name exists, or a new inode is allocated if there is one.
create(p) ==
    LET c == call[p]
        d == c.dp
        i == dirlookup(d, Head(c.rest))
    IN  /\ At(p, "parent")
        /\ c.op \in {"create", "mkdir"}
        /\ ilock(d)
        /\ \/ /\ i # nil
              /\ iget(i)
              /\ pc' = [pc EXCEPT ![p] = "found"]
              /\ call' = [call EXCEPT ![p].at = i, ![p].dp = nil]
              /\ put' = [put EXCEPT ![p] = <<d>>]
              /\ UNCHANGED <<type, nlink, addrs, lock>>
           \/ /\ i = nil
              /\ \A k \in Inum : type[k] # "free"
              /\ Return(p, <<d>>)
              /\ UNCHANGED <<type, nlink, addrs, ref, lock>>
           \/ /\ i = nil
              /\ \E k \in Inum :
                    /\ ialloc(k, IF c.op = "mkdir" THEN "DIR" ELSE "FILE")
                    /\ call' = [call EXCEPT ![p].ip = k]
              /\ lock' = [lock EXCEPT ![d] = p]
              /\ pc' = [pc EXCEPT ![p] = "alloced"]
              /\ UNCHANGED put
        /\ UNCHANGED <<ent, bitmap, iputpc, fd>>

\* ip is locked as well: nlink = 1, the entries "." and ".." of a directory,
\* and the entry in dp.  Running out of blocks on the way leaves nlink = 0.
create_link(p) ==
    LET c == call[p]
        d == c.dp
        i == c.ip
        own == IF c.op = "mkdir" THEN 1 ELSE 0
        needed == own + dirlink_blocks(d)
    IN  /\ At(p, "alloced")
        /\ ilock(i)
        /\ \/ /\ \E b \in balloc(own), all \in balloc(needed) :
                    /\ b \subseteq all
                    /\ bitmap' = bitmap \cup all
                    /\ addrs' = [addrs EXCEPT ![i] = b, ![d] = @ \cup (all \ b)]
              /\ ent' = [ent EXCEPT ![d][Head(c.rest)] = i]
              /\ nlink' = [nlink EXCEPT ![i] = 1, ![d] = @ + own]
              /\ lock' = [lock EXCEPT ![d] = nil, ![i] = p]
              /\ pc' = [pc EXCEPT ![p] = "created"]
              /\ call' = [call EXCEPT ![p].dp = nil]
              /\ put' = [put EXCEPT ![p] = <<d>>]
           \/ /\ nfree < needed
              /\ \E b \in balloc(IF nfree < own THEN nfree ELSE own) :
                    /\ bitmap' = bitmap \cup b
                    /\ addrs' = [addrs EXCEPT ![i] = b]
              /\ nlink' = [nlink EXCEPT ![i] = 0]
              /\ put_first(p, i)
              /\ UNCHANGED <<ent, lock>>
        /\ UNCHANGED <<type, ref, iputpc, fd>>

\* create() has returned ip, locked, to sys_open() or sys_mkdir().
created(p) ==
    LET i == call[p].ip
    IN  /\ At(p, "created")
        /\ lock' = [lock EXCEPT ![i] = nil]
        /\ IF call[p].op = "mkdir" \/ OpenFails(p)
             THEN Return(p, <<i>>) /\ UNCHANGED fd
             ELSE Return(p, <<>>) /\ fd' = [fd EXCEPT ![p] = i]
        /\ UNCHANGED <<disk, ref, valid, iputpc>>
-----------------------------------------------------------------------------
(***************************************************************************)
(* sys_unlink()                                                            *)
(***************************************************************************)
unlink_lookup(p) ==
    LET c == call[p]
        d == c.dp
        i == dirlookup(d, Head(c.rest))
    IN  /\ At(p, "parent")
        /\ c.op = "unlink"
        /\ ilock(d)
        /\ IF i = nil
             THEN /\ Return(p, <<d>>)
                  /\ UNCHANGED <<ref, lock>>
             ELSE /\ iget(i)
                  /\ lock' = [lock EXCEPT ![d] = p]
                  /\ pc' = [pc EXCEPT ![p] = "victim"]
                  /\ call' = [call EXCEPT ![p].ip = i]
                  /\ UNCHANGED put
        /\ UNCHANGED <<disk, iputpc, fd>>

isdirempty(i) == ent[i] = NoEntries

\* ip is locked as well; its entry goes, and dp is unlocked first.
unlink(p) ==
    LET c == call[p]
        d == c.dp
        i == c.ip
    IN  /\ At(p, "victim")
        /\ ilock(i)
        /\ IF type[i] = "DIR" /\ ~isdirempty(i)
             THEN /\ put_first(p, i)
                  /\ UNCHANGED <<ent, nlink, lock>>
             ELSE /\ ent' = [ent EXCEPT ![d][Head(c.rest)] = nil]
                  /\ nlink' = IF type[i] = "DIR"
                                THEN [nlink EXCEPT ![d] = @ - 1] ELSE nlink
                  /\ lock' = [lock EXCEPT ![d] = nil, ![i] = p]
                  /\ pc' = [pc EXCEPT ![p] = "unlinked"]
                  /\ call' = [call EXCEPT ![p].dp = nil]
                  /\ put' = [put EXCEPT ![p] = <<d>>]
        /\ UNCHANGED <<type, addrs, bitmap, ref, iputpc, fd>>

fail(p) ==
    LET d == call[p].dp
    IN  /\ At(p, "fail")
        /\ lock' = [lock EXCEPT ![d] = nil]
        /\ Return(p, <<d>>)
        /\ UNCHANGED <<disk, ref, valid, iputpc, fd>>

unlinked(p) ==
    LET i == call[p].ip
    IN  /\ At(p, "unlinked")
        /\ nlink' = [nlink EXCEPT ![i] = @ - 1]
        /\ lock' = [lock EXCEPT ![i] = nil]
        /\ Return(p, <<i>>)
        /\ UNCHANGED <<type, ent, addrs, bitmap, ref, valid, iputpc, fd>>
-----------------------------------------------------------------------------
(***************************************************************************)
(* sys_link()                                                              *)
(***************************************************************************)
\* The file is found: count the link before it is made.
link(p) ==
    LET c == call[p]
        i == c.at
    IN  /\ At(p, "found")
        /\ c.op = "link"
        /\ ilock(i)
        /\ IF type[i] = "DIR"
             THEN /\ Return(p, <<i>>)
                  /\ UNCHANGED <<nlink, ref>>
             ELSE /\ nlink' = [nlink EXCEPT ![i] = @ + 1]
                  /\ iget(root)
                  /\ pc' = [pc EXCEPT ![p] = "walk"]
                  /\ call' = [call EXCEPT ![p].ip = i, ![p].at = root,
                                          ![p].rest = c.new, ![p].new = <<>>]
                  /\ UNCHANGED put
        /\ UNCHANGED <<type, ent, addrs, bitmap, lock, iputpc, fd>>

\* dirlink() of the new name.  The reference dirlookup() takes to a file that
\* has the name already is dropped at once.
link_entry(p) ==
    LET c == call[p]
        d == c.dp
    IN  /\ At(p, "parent")
        /\ c.op = "link"
        /\ ilock(d)
        /\ IF dirlookup(d, Head(c.rest)) = nil /\ dirlink_blocks(d) <= nfree
             THEN /\ ent' = [ent EXCEPT ![d][Head(c.rest)] = c.ip]
                  /\ \E b \in balloc(dirlink_blocks(d)) :
                        /\ bitmap' = bitmap \cup b
                        /\ addrs' = [addrs EXCEPT ![d] = @ \cup b]
                  /\ Return(p, <<d, c.ip>>)
             ELSE /\ pc' = [pc EXCEPT ![p] = "bad"]
                  /\ call' = [call EXCEPT ![p].dp = nil]
                  /\ put' = [put EXCEPT ![p] = <<d>>]
                  /\ UNCHANGED <<ent, bitmap, addrs>>
        /\ UNCHANGED <<type, nlink, ref, lock, iputpc, fd>>

\* The label bad: take the link back.
link_bad(p) ==
    LET i == call[p].ip
    IN  /\ At(p, "bad")
        /\ ilock(i)
        /\ nlink' = [nlink EXCEPT ![i] = @ - 1]
        /\ Return(p, <<i>>)
        /\ UNCHANGED <<type, ent, addrs, bitmap, ref, lock, iputpc, fd>>
-----------------------------------------------------------------------------
reference(p) == iput(p) \/ iput_free(p) \/ iput_invalid(p) \/ iput_unref(p)

syscall(p) == \/ walk(p) \/ open(p)
              \/ create(p) \/ create_link(p) \/ created(p)
              \/ unlink_lookup(p) \/ unlink(p) \/ unlinked(p) \/ fail(p)
              \/ link(p) \/ link_entry(p) \/ link_bad(p)

Next ==
    \E p \in Proc :
        \/ reference(p) \/ syscall(p) \/ filewrite(p) \/ fileclose(p)
        \/ \E c \in Call : start(p, c)

Spec == Init /\ [][Next]_vars

-----------------------------------------------------------------------------
(***************************************************************************)
(* Properties.                                                             *)
(***************************************************************************)
TypeOK ==
    /\ type \in [Inum -> {"free", "FILE", "DIR"}]
    /\ nlink \in [Inum -> Nat]
    /\ ent \in [Inum -> [Name -> Inum \cup {nil}]]
    /\ addrs \in [Inum -> SUBSET Block]
    /\ bitmap \subseteq Block
    /\ ref \in [Inum -> Nat]
    /\ valid \in [Inum -> BOOLEAN]
    /\ lock \in [Inum -> Proc \cup {nil}]
    /\ pc \in [Proc -> {"user", "walk", "found", "parent", "alloced", "created",
                        "victim", "unlinked", "fail", "bad"}]
    /\ \A p \in Proc : /\ call[p].op \in Op
                       /\ {call[p].at, call[p].ip, call[p].dp} \subseteq Inum \cup {nil}
                       /\ call[p].rest \in Seq(Name) /\ call[p].new \in Seq(Name)
    /\ put \in [Proc -> Seq(Inum)]
    /\ iputpc \in [Proc -> {"test", "free", "invalid", "unref"}]
    /\ fd \in [Proc -> Inum \cup {nil}]

Held(p, i) ==
    Cardinality({x \in {"fd", "at", "ip", "dp"} :
                   i = CASE x = "fd" -> fd[p]
                         [] x = "at" -> call[p].at
                         [] x = "ip" -> call[p].ip
                         [] x = "dp" -> call[p].dp})
    + Cardinality({k \in DOMAIN put[p] : put[p][k] = i})

\* ip->ref "tracks the number of in-memory pointers to the entry" (fs.c lines
\* 131-133): open files and the pointers of calls under way, on every path of
\* namex(), create(), sys_link() and sys_unlink(), the failing ones included.
RefsExact ==
    \A i \in Inum :
        ref[i] = MapThenSumSet(LAMBDA p : Held(p, i), Proc)
                 + (IF i = root THEN 1 ELSE 0)

Entries(i) == {e \in Inum \X Name : type[e[1]] = "DIR" /\ ent[e[1]][e[2]] = i}

\* Nothing that can still be reached is freed: an inode with a name in some
\* directory is allocated, and so is one that an open file or a call under way
\* refers to though its last name may be gone.
ReachableIsAllocated ==
    \A i \in Inum :
        /\ Entries(i) # {} => type[i] # "free"
        /\ (\E p \in Proc : i \in {fd[p], call[p].at, call[p].ip, call[p].dp})
              => type[i] # "free"

\* The links nlink should count: the names of the inode, the ".." of its
\* sub-directories, that of the root, and those of calls under way: a link()
\* that has not made its name yet, an unlink() that has just removed it.
Links(i) ==
    Cardinality(Entries(i))
    + Cardinality({n \in Name : /\ type[i] = "DIR" /\ ent[i][n] # nil
                                /\ type[ent[i][n]] = "DIR"})
    + (IF i = root THEN 1 ELSE 0)
    + Cardinality({p \in Proc : call[p].ip = i /\ (call[p].op = "link" \/ pc[p] = "unlinked")})

\* The names of i in a directory that iput() frees in this step.
NamesFreed(i) ==
    {<<p, n>> \in Proc \X Name :
        iputpc[p] = "free" /\ iputpc'[p] # "free" /\ ent[Head(put[p])][n] = i}

\* nlink and the links it counts move together on every path of create(),
\* link() and unlink(), so that an inode is freed when its last name goes and
\* not before.  The exception: create() and link() do not look whether their
\* directory has been removed since it was found, and a name they make in it
\* goes with the directory and is still counted.
LinksCounted ==
    [][\A i \in Inum :
          nlink'[i] - Links(i)' = nlink[i] - Links(i) + Cardinality(NamesFreed(i))]_vars

\* Every block that is in use belongs to exactly one inode, and no block of an
\* inode is free: none is freed twice, none is lost by a call that runs out
\* of blocks halfway.
BlocksAccounted ==
    /\ bitmap = UNION {addrs[i] : i \in Inum}
    /\ \A i, j \in Inum : i # j => addrs[i] \cap addrs[j] = {}
    /\ \A i \in Inum : type[i] = "free" => addrs[i] = {}

\* iput() never has to wait for the lock of an inode while it holds
\* itable.lock: "this acquiresleep() won't block (or deadlock)" (fs.c line
\* 345).  And sys_unlink() never panics with "nlink < 1".
IputWontBlock ==
    \A p \in Proc :
        /\ put[p] # <<>> /\ iputpc[p] = "test" /\ last_ref(Head(put[p]))
              => lock[Head(put[p])] = nil
        /\ pc[p] = "victim" => nlink[call[p].ip] >= 1

\* The inode whose lock the process takes next.
Wanted(p) ==
    IF put[p] # <<>> THEN nil
    ELSE CASE pc[p] \in {"walk", "found"} -> call[p].at
           [] pc[p] = "parent" -> call[p].dp
           [] pc[p] \in {"alloced", "victim", "bad"} -> call[p].ip
           [] OTHER -> nil

\* The calls that hold the lock of a directory while they take that of an
\* inode in it, create() and sys_unlink(), never wait for each other in a
\* circle, and none for a lock it has itself.
NoDeadlock ==
    \A S \in SUBSET Proc \ {{}} :
        ~ \A p \in S : Wanted(p) # nil /\ lock[Wanted(p)] \in S
=============================================================================
