------------------------------ MODULE ShParse ------------------------------
(***************************************************************************)
(* The parser of the shell (user/sh.c) as operators.  A line is a sequence *)
(* of characters; a position is an index in it, and Len(s) + 1 its end.    *)
(* A parsing function returns [ok, cmd, i]: whether it did not call        *)
(* panic(), the command, and the position it has advanced *ps to.  A word  *)
(* is a pair of positions until nulterminate() cuts it out of the line.    *)
(***************************************************************************)
EXTENDS Integers, Sequences, SequencesExt

CONSTANT MAXARGS

whitespace == {" ", "\n"}
symbols == {"<", "|", ">", "&", ";", "(", ")"}

EXECcmd(argv) == [type |-> "EXEC", argv |-> argv]
redircmd(cmd, file, mode) == [type |-> "REDIR", cmd |-> cmd, file |-> file, mode |-> mode]
pipecmd(l, r) == [type |-> "PIPE", left |-> l, right |-> r]
listcmd(l, r) == [type |-> "LIST", left |-> l, right |-> r]
backcmd(cmd) == [type |-> "BACK", cmd |-> cmd]

Parsed(cmd, i) == [ok |-> TRUE, cmd |-> cmd, i |-> i]
panic == [ok |-> FALSE, cmd |-> EXECcmd(<<>>), i |-> 0]

\* What is parsed after r.
Then(r, next(_)) == IF r.ok THEN next(r) ELSE panic
-----------------------------------------------------------------------------
\* The first position from i on that is not in set, or the end.
first_not(s, i, set) ==
    CHOOSE j \in i..(Len(s) + 1) :
        /\ j = Len(s) + 1 \/ s[j] \notin set
        /\ \A k \in i..(j - 1) : s[k] \in set

skip(s, i) == first_not(s, i, whitespace)

wordend(s, i) ==
    first_not(s, i, {s[k] : k \in DOMAIN s} \ (whitespace \cup symbols))

\* The token at q.
token(s, q) ==
    LET tok == CASE q > Len(s) -> "end"
                 [] q <= Len(s) /\ s[q] = ">" ->
                      IF q < Len(s) /\ s[q + 1] = ">" THEN "+" ELSE ">"
                 [] q <= Len(s) /\ s[q] \in symbols \ {">"} -> s[q]
                 [] OTHER -> "a"
        eq == CASE tok = "end" -> q
                [] tok = "+" -> q + 2
                [] tok = "a" -> wordend(s, q)
                [] OTHER -> q + 1
    IN  [tok |-> tok, word |-> <<q, eq>>, i |-> skip(s, eq)]

gettoken(s, i) == token(s, skip(s, i))

\* *ps moves over white space whatever the answer is.
peek(s, i, toks) == LET j == skip(s, i) IN j <= Len(s) /\ s[j] \in toks

mode(tok) == CASE tok = "<" -> "read" [] tok = ">" -> "trunc" [] tok = "+" -> "append"

RECURSIVE parseredirs(_, _, _)
parseredirs(cmd, s, i) ==
    LET to(t, f) == IF f.tok # "a" THEN panic
                    ELSE parseredirs(redircmd(cmd, f.word, mode(t.tok)), s, f.i)
        redir(t) == to(t, gettoken(s, t.i))
    IN  IF peek(s, i, {"<", ">"}) THEN redir(gettoken(s, i)) ELSE Parsed(cmd, skip(s, i))

\* The EXEC node below redirections gets another argument.
RECURSIVE add_arg(_, _)
add_arg(cmd, word) ==
    IF cmd.type = "REDIR" THEN [cmd EXCEPT !.cmd = add_arg(@, word)]
    ELSE [cmd EXCEPT !.argv = Append(@, word)]

\* The loop of parseexec().
RECURSIVE parseargs(_, _, _)
parseargs(r, s, argc) ==
    LET last == [r EXCEPT !.i = skip(s, r.i)]
        arg(t) ==
            CASE t.tok = "end" -> last
              [] t.tok = "a" /\ argc + 1 < MAXARGS ->
                   parseargs(parseredirs(add_arg(r.cmd, t.word), s, t.i), s, argc + 1)
              [] OTHER -> panic
    IN  CASE ~r.ok -> panic
          [] r.ok /\ peek(s, r.i, {"|", ")", "&", ";"}) -> last
          [] OTHER -> arg(gettoken(s, r.i))

RECURSIVE parseline(_, _), parsepipe(_, _), parseblock(_, _), parseexec(_, _), parseback(_, _)

parseexec(s, i) ==
    IF peek(s, i, {"("}) THEN parseblock(s, i)
    ELSE parseargs(parseredirs(EXECcmd(<<>>), s, i), s, 0)

parseblock(s, i) ==
    LET rest(r) == IF peek(s, r.i, {")"})
                     THEN parseredirs(r.cmd, s, gettoken(s, r.i).i) ELSE panic
    IN  Then(parseline(s, gettoken(s, i).i), rest)

\* p | (p | p)
parsepipe(s, i) ==
    LET rest(l) == IF ~peek(s, l.i, {"|"}) THEN l
                   ELSE Then(parsepipe(s, gettoken(s, l.i).i),
                             LAMBDA r : Parsed(pipecmd(l.cmd, r.cmd), r.i))
    IN  Then(parseexec(s, i), rest)

\* The loop over &.
parseback_once(r, s) ==
    IF r.ok /\ peek(s, r.i, {"&"})
      THEN Parsed(backcmd(r.cmd), gettoken(s, r.i).i) ELSE r
parseback(r, s) ==
    IF r.ok /\ peek(s, r.i, {"&"})
      THEN parseback(Parsed(backcmd(r.cmd), gettoken(s, r.i).i), s) ELSE r

parseline(s, i) ==
    LET rest(l) == IF ~peek(s, l.i, {";"}) THEN l
                   ELSE Then(parseline(s, gettoken(s, l.i).i),
                             LAMBDA r : Parsed(listcmd(l.cmd, r.cmd), r.i))
    IN  Then(parseback(parsepipe(s, i), s), rest)

word(s, w) == SubSeq(s, w[1], w[2] - 1)

RECURSIVE nulterminate(_, _)
nulterminate(s, c) ==
    CASE c.type = "EXEC" -> [c EXCEPT !.argv = [k \in DOMAIN @ |-> word(s, @[k])]]
      [] c.type = "REDIR" -> [c EXCEPT !.file = word(s, @), !.cmd = nulterminate(s, @)]
      [] c.type = "BACK" -> [c EXCEPT !.cmd = nulterminate(s, @)]
      [] OTHER -> [c EXCEPT !.left = nulterminate(s, @), !.right = nulterminate(s, @)]

parsecmd(s) ==
    LET all(r) == IF skip(s, r.i) = Len(s) + 1
                    THEN [r EXCEPT !.cmd = nulterminate(s, @)] ELSE panic
    IN  Then(parseline(s, 1), all)
-----------------------------------------------------------------------------
(***************************************************************************)
(* The grammar, as what a user types for a command.                        *)
(***************************************************************************)
Paren(s) == <<"(">> \o s \o <<")">>

RECURSIVE Typed(_)
Typed(c) ==
    LET in(d, types) == IF d.type \in types THEN Typed(d) ELSE Paren(Typed(d))
        simple == {"EXEC", "REDIR"}
    IN  CASE c.type = "EXEC" -> FlattenSeq([k \in DOMAIN c.argv |-> c.argv[k] \o <<" ">>])
          [] c.type = "REDIR" ->
               in(c.cmd, simple)
                 \o (CASE c.mode = "read" -> <<"<">> [] c.mode = "trunc" -> <<">">>
                       [] c.mode = "append" -> <<">", ">">>)
                 \o c.file
          [] c.type = "PIPE" -> in(c.left, simple) \o <<"|">> \o in(c.right, simple \cup {"PIPE"})
          [] c.type = "BACK" -> in(c.cmd, simple \cup {"PIPE", "BACK"}) \o <<"&">>
          [] c.type = "LIST" -> in(c.left, simple \cup {"PIPE", "BACK"}) \o <<";">> \o Typed(c.right)

\* parsecmd() reads a line as the command it was typed for, all of it: | binds
\* tighter than & and ;, both group as the grammar says, and redirections and
\* parentheses nest in each other in any way.
ParsedAsTyped(c) == parsecmd(Typed(c)) = Parsed(c, Len(Typed(c)) + 1)
=============================================================================
