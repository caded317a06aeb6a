-------------------------------- MODULE Grep --------------------------------
(***************************************************************************)
(* user/grep.c: the matcher, and the loop that cuts what read() returns    *)
(* into lines.  A string is a sequence of characters, its end the          *)
(* terminating zero.                                                       *)
(***************************************************************************)
EXTENDS Integers, Sequences, SequencesExt

CONSTANTS
    Patterns,       \* regular expressions
    Texts,          \* contents of the file
    SIZE            \* sizeof(buf)

VARIABLES
    pattern,
    text,           \* the file from where it has not been read
    buf,            \* buf[0..m-1]
    out,            \* what has been written
    done,           \* grep() has returned
    whole           \* the file (fixed)

vars == <<pattern, text, buf, out, done, whole>>
-----------------------------------------------------------------------------
From(s, i) == SubSeq(s, i, Len(s))

RECURSIVE matchhere(_, _), matchstar(_, _, _)

matchhere(re, t) ==
    CASE re = <<>> -> TRUE
      [] Len(re) > 1 /\ re[2] = "*" -> matchstar(re[1], From(re, 3), t)
      [] re = <<"$">> -> t = <<>>
      [] OTHER -> /\ t # <<>>
                  /\ re[1] \in {".", t[1]}
                  /\ matchhere(From(re, 2), From(t, 2))

matchstar(c, re, t) ==
    \/ matchhere(re, t)
    \/ t # <<>> /\ c \in {".", t[1]} /\ matchstar(c, re, From(t, 2))

match(re, t) ==
    IF re # <<>> /\ re[1] = "^" THEN matchhere(From(re, 2), t)
    ELSE \E i \in 1..(Len(t) + 1) : matchhere(re, From(t, i))
-----------------------------------------------------------------------------
Init ==
    /\ pattern \in Patterns
    /\ whole \in Texts
    /\ text = whole
    /\ buf = <<>>
    /\ out = <<>>
    /\ done = FALSE

newlines(s) == {i \in DOMAIN s : s[i] = "\n"}

\* The lines that end in s, without their ends, and what is left of s.
RECURSIVE cut(_)
cut(s) ==
    IF newlines(s) = {} THEN [lines |-> <<>>, left |-> s]
    ELSE LET q == CHOOSE i \in newlines(s) : \A j \in newlines(s) : i <= j
             r == cut(From(s, q + 1))
         IN  [lines |-> <<SubSeq(s, 1, q - 1)>> \o r.lines, left |-> r.left]

Selected(lines) ==
    FlattenSeq([k \in DOMAIN lines |->
        IF match(pattern, lines[k]) THEN Append(lines[k], "\n") ELSE <<>>])

\* What stays in buf is moved to its front.
keep_nothing(s) == <<>>
keep(s) == cut(s).left

\* A round of grep(): read() returns n bytes, at least one while there are any
\* and room for them, as many as it likes.
read(n) ==
    /\ ~done
    /\ n <= SIZE - Len(buf) - 1 /\ n <= Len(text)
    /\ (n = 0) => text = <<>> \/ Len(buf) = SIZE - 1
    /\ text' = From(text, n + 1)
    /\ done' = (n = 0)
    /\ LET b == buf \o SubSeq(text, 1, n)
       IN  IF n = 0 THEN UNCHANGED <<buf, out>>
           ELSE /\ out' = out \o Selected(cut(b).lines)
                /\ buf' = keep(b)
    /\ UNCHANGED <<pattern, whole>>

Next == \E n \in 0..(SIZE - 1) : read(n)

Spec == Init /\ [][Next]_vars
-----------------------------------------------------------------------------
(***************************************************************************)
(* What a regular expression means: a sequence of items, each a character  *)
(* with or without a star, and the two anchors.  A line matches when its   *)
(* characters, from some position on, can be dealt out to the items.       *)
(***************************************************************************)
RECURSIVE Items(_)
Items(re) ==
    CASE re = <<>> -> <<>>
      [] Len(re) > 1 /\ re[2] = "*" ->
           <<[char |-> re[1], star |-> TRUE, eol |-> FALSE]>> \o Items(From(re, 3))
      [] OTHER ->
           <<[char |-> re[1], star |-> FALSE, eol |-> re = <<"$">>]>> \o Items(From(re, 2))

\* d[k]: characters before item k.
Matches(re, t) ==
    LET anchored == re # <<>> /\ re[1] = "^"
        items == Items(IF anchored THEN From(re, 2) ELSE re)
        fits(k, i, j) ==
            /\ i <= j
            /\ IF items[k].eol THEN i = j /\ j = Len(t) ELSE items[k].star \/ j = i + 1
            /\ \A c \in (i + 1)..j : items[k].char \in {".", t[c]}
    IN  \E d \in [1..(Len(items) + 1) -> 0..Len(t)] :
            /\ anchored => d[1] = 0
            /\ \A k \in DOMAIN items : fits(k, d[k], d[k + 1])

\* However read() divides a file, grep() writes the lines that match, whole and
\* in order, if every line has room in buf with its end: no line is lost where
\* two reads meet, and the backtracking of matchstar() finds a match exactly
\* when there is one.  A last line without an end is not looked at.
LinesSelected ==
    LET lines == cut(whole).lines
        room == \A k \in DOMAIN lines : Len(lines[k]) < SIZE - 1
    IN  done /\ room /\ Len(cut(whole).left) < SIZE - 1 =>
          out = FlattenSeq([k \in DOMAIN lines |->
                    IF Matches(pattern, lines[k]) THEN Append(lines[k], "\n") ELSE <<>>])
=============================================================================
